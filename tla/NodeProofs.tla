----------------------------- MODULE NodeProofs -----------------------------
(***************************************************************************)
(* What holds on a node and between nodes, for any sizes.                  *)
(*                                                                         *)
(* A configuration takes effect as a whole or not at all, for any ports    *)
(* and configurations, any number of Apply and whatever other programs and *)
(* clients do between their steps (NodeEngine).                            *)
(*                                                                         *)
(* An upgrade is confirmed or rolled back (NodeUpgrade, for any releases,  *)
(* watchdogs and bounds).  The types need to know who holds the lock       *)
(* (LockHeld) and nothing of the faults.  That a release on trial is       *)
(* guarded, that only the installed release is confirmed and that the      *)
(* upgrade implements SafeUpgrade hold if upgrades do not overlap, the     *)
(* node is not suspended and no watchdog is torn from its rollback         *)
(* (Orderly).  The invariant then says who may be where: one unit at a     *)
(* time (Alone), what the upgrade relies on before its release is          *)
(* installed (Early), what a unit relies on while it rolls back (Watched), *)
(* and why the running release may differ from the installed one           *)
(* (Running).                                                              *)
(*                                                                         *)
(* No address is starved while a node dials (Dialing); native UDP delivers *)
(* in order, keeps its table within its capacity and never starts a        *)
(* session again (NodeUdp); a reverse pool hands out connections of its    *)
(* own forwarder that the exit has not hung up on (NodeReverse); and every *)
(* counter of an entrance is the number of connections that hold it, so    *)
(* that no limit and no quota is exceeded (NodeRelay).                     *)
(***************************************************************************)
EXTENDS NodeEngine, NodeUpgrade, Dialing, NodeUdp, NodeReverse, NodeRelay, FiniteSetTheorems,
        SequenceTheorems, TLAPS

---------------------------------------------------------------------------
\* NodeEngine.

ConfiguredRules == UNION {{cfg.rules[id] : id \in DOMAIN cfg.rules} : cfg \in Configs}
ForwarderSet == [gen : 1 .. gen, rule : ConfiguredRules, ports : SUBSET Ports]
Owners == {Free, Other} \cup {Rule(n) : n \in 1 .. gen} \cup {Gate(k) : k \in GatewayKinds}
Working == {"listen", "undo", "restore"}
\* Forwarders stopped for their successors, and those whose sockets an undo will close.
PausedIds == IF apply.phase = "none" THEN {} ELSE {apply.paused[i] : i \in DOMAIN apply.paused}
Created == IF apply.phase \in {"listen", "undo"} THEN apply.created ELSE {}
WellGated(gs) == \A k \in DOMAIN gs : k \in GatewayKinds /\ gs[k] \in Ports

EngineTypes ==
  /\ gen \in Nat /\ stolen \in BOOLEAN
  /\ holder \in [Ports -> Owners] /\ streams \subseteq 1 .. gen
  /\ \A id \in DOMAIN run : run[id] \in ForwarderSet
  /\ \A id \in DOMAIN effective.rules : effective.rules[id] \in ConfiguredRules
  /\ WellGated(effective.gates)
  /\ apply = NoApply \/ apply.phase \in Working
  /\ apply.phase \in Working =>
       /\ DOMAIN apply = {"phase", "new", "cert", "todo", "next", "created", "paused", "was"}
       /\ \A id \in DOMAIN apply.new.rules : apply.new.rules[id] \in ConfiguredRules
       /\ WellGated(apply.new.gates)
       /\ apply.created \subseteq 1 .. gen
       /\ apply.paused \in Seq(DOMAIN run)

\* Every forwarder has a number of its own, which none made in an Apply shares.
Numbered ==
  /\ \A x, y \in DOMAIN run : run[x].gen = run[y].gen => x = y
  /\ apply.phase \in Working => \A id \in DOMAIN run : run[id].gen \notin apply.created
  /\ apply.phase \in Working => \A i, j \in DOMAIN apply.paused : apply.paused[i] = apply.paused[j] => i = j

\* A port bound by a rule is one of those its forwarder has, which is not stopped, or
\* was bound in the Apply under way; one bound by a gateway is the gateway's.
Bound ==
  /\ \A p \in Ports, n \in 1 .. gen : holder[p] = Rule(n) =>
       \/ n \in Created
       \/ \E id \in DOMAIN run \ PausedIds : run[id].gen = n /\ p \in run[id].ports
  /\ \A p \in Ports, k \in GatewayKinds : holder[p] = Gate(k) => k \in DOMAIN gates /\ gates[k] = p
  /\ \A k \in DOMAIN gates : k \in GatewayKinds /\ gates[k] \in Ports /\ holder[gates[k]] = Gate(k)

Settled(f) == f.ports # {} /\ (f.rule.want # {} => f.ports = f.rule.want)
\* If no other program came between, forwarders hold their ports, and those that are
\* stopped can have theirs back once what was opened is closed.
Kept ==
  ~stolen =>
    /\ \A id \in DOMAIN run : Listens(run[id]) =>
         /\ Settled(run[id])
         /\ id \notin PausedIds => \A p \in run[id].ports : holder[p] = Rule(run[id].gen)
         /\ id \in PausedIds => \A p \in run[id].ports :
              holder[p] = Free \/ \E n \in Created : holder[p] = Rule(n)
    /\ \A x, y \in DOMAIN run :
         x # y /\ Listens(run[x]) /\ Listens(run[y]) => run[x].ports \cap run[y].ports = {}

RunsConfigured ==
  ~closed =>
    /\ DOMAIN run = {id \in DOMAIN effective.rules : effective.rules[id].on}
    /\ \A id \in DOMAIN run : run[id].rule = effective.rules[id]

\* While it listens: the forwarders to be, those kept as they were and those made.
Made(x) == apply.next[x].gen \in apply.created
Progress ==
  apply.phase = "listen" =>
    /\ apply.todo \subseteq {id \in DOMAIN apply.new.rules : apply.new.rules[id].on}
    /\ DOMAIN apply.next = {id \in DOMAIN apply.new.rules : apply.new.rules[id].on} \ apply.todo
    /\ PausedIds \cap apply.todo = {}
    /\ \A n \in apply.created : \E x \in DOMAIN apply.next : apply.next[x].gen = n
    /\ \A x, y \in DOMAIN apply.next : apply.next[x].gen = apply.next[y].gen => x = y
    /\ \A x \in DOMAIN apply.next :
         /\ apply.next[x] \in ForwarderSet /\ apply.next[x].rule = apply.new.rules[x]
         /\ ~Made(x) => x \in DOMAIN run /\ apply.next[x] = run[x] /\ x \notin PausedIds
         /\ Made(x) =>
              /\ ~Same(x) /\ (x \in DOMAIN run => x \in PausedIds)
              /\ Held(Rule(apply.next[x].gen)) = apply.next[x].ports
              /\ apply.next[x].ports # {} => Listens(apply.next[x])
              /\ Listens(apply.next[x]) => Settled(apply.next[x])
    /\ \A p \in Ports :
         \/ stolen \/ holder[p] = Free \/ apply.was[p] = holder[p]
         \/ \E n \in apply.created : holder[p] = Rule(n)

Caused == apply.phase \in {"undo", "restore"} => Clash

EngineInv == EngineTypes /\ Numbered /\ Bound /\ Kept /\ RunsConfigured /\ Progress /\ Caused
---------------------------------------------------------------------------
\* Owners of a port are told apart.
LEMMA OwnersDiffer ==
  /\ Free # Other
  /\ \A n : Rule(n) # Free /\ Rule(n) # Other /\ Gate(n) # Free /\ Gate(n) # Other
  /\ \A n, m : Rule(n) # Gate(m)
  /\ \A n, m : (Rule(n) = Rule(m) => n = m) /\ (Gate(n) = Gate(m) => n = m)
BY DEF Free, Other, Rule, Gate

LEMMA HolderFacts ==
  /\ \A h, owners : DOMAIN Let(h, owners) = Ports
  /\ \A h, ports, owner : DOMAIN Give(h, ports, owner) = Ports
  /\ \A h, owners : \A p \in Ports : Let(h, owners)[p] = IF h[p] \in owners THEN Free ELSE h[p]
  /\ \A h, ports, owner : \A p \in Ports : Give(h, ports, owner)[p] = IF p \in ports THEN owner ELSE h[p]
BY DEF Let, Give

LEMMA Configured ==
  ASSUME NEW rule \in ConfiguredRules PROVE rule.want \subseteq Ports
BY ConfigsAssumption DEF ConfiguredRules

LEMMA EngineInit == InitEngine => EngineInv
<1> SUFFICES ASSUME InitEngine PROVE EngineInv
  OBVIOUS
<1>1. /\ holder = [p \in Ports |-> Free] /\ run = <<>> /\ gates = <<>>
      /\ effective = [rules |-> <<>>, gates |-> <<>>] /\ apply = NoApply
      /\ streams = {} /\ gen = 0 /\ stolen = FALSE /\ apply.phase = "none"
  BY DEF InitEngine, NoApply
<1>2. DOMAIN run = {} /\ DOMAIN gates = {} /\ DOMAIN effective.rules = {} /\ DOMAIN effective.gates = {}
  BY <1>1
<1>3. EngineTypes
  BY <1>1, <1>2 DEF EngineTypes, Owners, Working, WellGated
<1>4. Numbered /\ Bound /\ Kept /\ RunsConfigured
  BY <1>1, <1>2, OwnersDiffer DEF Numbered, Working, Bound, Kept, RunsConfigured
<1> QED BY <1>1, <1>3, <1>4 DEF EngineInv, Progress, Caused

---------------------------------------------------------------------------
\* Between two Apply.

LEMMA Begins == ASSUME EngineInv, NEW cfg \in Configs, Begin(cfg) PROVE EngineInv'
<1> DEFINE new == Merged(cfg)
<1>1. /\ apply = NoApply /\ apply.phase = "none"
      /\ UNCHANGED <<holder, run, gates, effective, closed, streams, gen, taken, stolen>>
  BY DEF Begin, NoApply
<1>2. CASE UNCHANGED apply
  BY <1>1, <1>2 DEF EngineInv, EngineTypes, ForwarderSet, Owners, Numbered, Bound, PausedIds, Created,
     Kept, RunsConfigured, Progress, Caused, Working
<1>3. CASE apply' = [phase |-> "listen", new |-> new, cert |-> cfg.cert,
                     todo |-> {id \in DOMAIN new.rules : new.rules[id].on},
                     next |-> <<>>, created |-> {}, paused |-> <<>>, was |-> holder]
  <2> HIDE DEF new
  <2>1. /\ apply'.phase = "listen" /\ apply'.new = new /\ apply'.created = {} /\ apply'.paused = <<>>
        /\ apply'.todo = {id \in DOMAIN new.rules : new.rules[id].on} /\ DOMAIN apply'.next = {}
        /\ apply'.was = holder
        /\ DOMAIN apply' = {"phase", "new", "cert", "todo", "next", "created", "paused", "was"}
    BY <1>3
  <2>2. /\ \A id \in DOMAIN new.rules : new.rules[id] \in ConfiguredRules
        /\ WellGated(new.gates)
    <3>1. /\ \A id \in DOMAIN cfg.rules : cfg.rules[id] \in ConfiguredRules
          /\ WellGated(cfg.gates)
      BY ConfigsAssumption DEF ConfiguredRules, WellGated
    <3>2. /\ \A id \in DOMAIN effective.rules : effective.rules[id] \in ConfiguredRules
          /\ WellGated(effective.gates)
      BY DEF EngineInv, EngineTypes
    <3>3. CASE cfg.full
      BY <3>1, <3>3 DEF new, Merged
    <3>4. CASE ~cfg.full
      BY <3>1, <3>2, <3>4 DEF new, Merged
    <3> QED BY <3>3, <3>4
  <2>3. PausedIds' = {} /\ PausedIds = {} /\ Created' = {} /\ Created = {}
    BY <1>1, <2>1 DEF PausedIds, Created
  <2>4. EngineTypes'
    BY <1>1, <2>1, <2>2 DEF EngineInv, EngineTypes, ForwarderSet, Owners, Working
  <2>5. Numbered' /\ Bound' /\ Kept' /\ RunsConfigured'
    BY <1>1, <2>1, <2>3 DEF EngineInv, Numbered, Bound, Kept, RunsConfigured, Working
  <2>6. Progress' /\ Caused'
    BY <1>1, <2>1, <2>3 DEF Progress, Caused
  <2> QED BY <2>4, <2>5, <2>6 DEF EngineInv
<1> QED BY <1>2, <1>3 DEF Begin

\* Disable and CloseEngine let go of everything.
LEMMA LetGo ==
  ASSUME EngineInv, apply = NoApply, UNCHANGED <<apply, gen, taken, stolen>>,
         holder' = Let(holder, {Rule(run[id].gen) : id \in DOMAIN run} \cup {Gate(k) : k \in DOMAIN gates}),
         streams' = streams \ {run[id].gen : id \in DOMAIN run},
         run' = <<>>, gates' = <<>>,
         \A id \in DOMAIN effective'.rules : effective'.rules[id] \in ConfiguredRules,
         WellGated(effective'.gates), RunsConfigured'
  PROVE  EngineInv'
<1>1. apply.phase = "none" /\ DOMAIN run' = {} /\ DOMAIN gates' = {} /\ PausedIds = {} /\ Created = {}
      /\ Created' = {}
  BY DEF NoApply, PausedIds, Created
<1>2. holder' \in [Ports -> {Free, Other}]
  <2> SUFFICES ASSUME NEW p \in Ports PROVE holder'[p] \in {Free, Other}
    BY HolderFacts DEF Let
  <2>1. holder[p] \in Owners
    BY DEF EngineInv, EngineTypes
  <2>2. ASSUME NEW n \in 1 .. gen, holder[p] = Rule(n) PROVE \E id \in DOMAIN run : Rule(run[id].gen) = holder[p]
    BY <1>1, <2>2 DEF EngineInv, Bound
  <2>3. ASSUME NEW k \in GatewayKinds, holder[p] = Gate(k) PROVE k \in DOMAIN gates
    BY <2>3 DEF EngineInv, Bound
  <2> QED BY <2>1, <2>2, <2>3, HolderFacts DEF Owners
<1>3. EngineTypes'
  BY <1>1, <1>2 DEF EngineInv, EngineTypes, Owners, Working
<1>4. Numbered' /\ Bound' /\ Kept'
  BY <1>1, <1>2, OwnersDiffer DEF Numbered, Bound, Kept, Working
<1> QED BY <1>1, <1>3, <1>4 DEF EngineInv, Progress, Caused

LEMMA Disables == ASSUME EngineInv, NEW cfg \in Configs, Disable(cfg) PROVE EngineInv'
<1>1. /\ run' = <<>> /\ effective' = [rules |-> <<>>, gates |-> cfg.gates]
      /\ DOMAIN run' = {} /\ DOMAIN effective'.rules = {}
  BY DEF Disable
<1>2. WellGated(effective'.gates)
  BY <1>1, ConfigsAssumption DEF WellGated
<1>3. RunsConfigured'
  BY <1>1 DEF RunsConfigured
<1> QED BY <1>1, <1>2, <1>3, LetGo DEF Disable

LEMMA Closes == ASSUME EngineInv, CloseEngine PROVE EngineInv'
<1>1. RunsConfigured'
  BY DEF CloseEngine, RunsConfigured
<1> QED BY <1>1, LetGo DEF CloseEngine, EngineInv, EngineTypes, WellGated

\* Results and streams are no part of the invariant but for the streams' numbers.
LEMMA Unmoved ==
  ASSUME EngineInv, UNCHANGED <<holder, run, gates, effective, apply, closed, gen, taken, stolen>>,
         streams' \subseteq 1 .. gen
  PROVE  EngineInv'
<1>1. EngineTypes'
  <2>1. gen' = gen /\ ForwarderSet' = ForwarderSet /\ Owners' = Owners /\ apply' = apply
    BY DEF ForwarderSet, Owners
  <2> QED BY <2>1 DEF EngineInv, EngineTypes
<1>2. PausedIds' = PausedIds /\ Created' = Created
  BY DEF PausedIds, Created
<1>3. Numbered' /\ Bound'
  BY <1>2 DEF EngineInv, Numbered, Bound
<1>4. Kept'
  BY <1>2 DEF EngineInv, Kept, Settled
<1>5. RunsConfigured'
  BY DEF EngineInv, RunsConfigured
<1>6. Progress'
  <2>1. \A x : Made(x)' = Made(x) /\ Same(x)' = Same(x)
    BY DEF Made, Same
  <2>2. \A o : Held(o)' = Held(o)
    BY DEF Held
  <2>3. ForwarderSet' = ForwarderSet
    BY DEF ForwarderSet
  <2> QED BY <1>2, <2>1, <2>2, <2>3 DEF EngineInv, Progress
<1>7. Caused'
  <2>1. Clash' = Clash
    BY DEF Clash, Same, Wants
  <2> QED BY <2>1 DEF EngineInv, Caused
<1> QED BY <1>1, <1>3, <1>4, <1>5, <1>6, <1>7 DEF EngineInv

\* Why an Apply fails does not change while it is undone.
LEMMA ClashKept ==
  ASSUME Clash, stolen => stolen', DOMAIN run' = DOMAIN run,
         \A id \in DOMAIN run : run'[id].gen = run[id].gen /\ run'[id].rule = run[id].rule,
         apply'.new = apply.new, apply'.cert = apply.cert, apply'.was = apply.was
  PROVE  Clash'
<1>1. \A id : (Same(id)' <=> Same(id)) /\ Wants(id)' = Wants(id)
  BY DEF Same, Wants
<1>2. \A o : \A id \in DOMAIN run : o = Rule(run'[id].gen) <=> o = Rule(run[id].gen)
  OBVIOUS
<1> QED BY <1>1, <1>2 DEF Clash

LEMMA Takes == ASSUME EngineInv, NEW p \in Ports, TakePort(p) PROVE EngineInv'
<1>1. /\ holder[p] = Free /\ holder' = [holder EXCEPT ![p] = Other]
      /\ stolen' = (stolen \/ apply # NoApply)
      /\ UNCHANGED <<run, gates, effective, apply, closed, streams, gen>>
  BY DEF TakePort
<1>2. /\ holder \in [Ports -> Owners] /\ holder'[p] = Other
      /\ \A q \in Ports : q # p => holder'[q] = holder[q]
  BY <1>1 DEF EngineInv, EngineTypes
<1>3. PausedIds' = PausedIds /\ Created' = Created
  BY <1>1 DEF PausedIds, Created
<1>4. EngineTypes'
  BY <1>1, <1>2 DEF EngineInv, EngineTypes, Owners, ForwarderSet
<1>5. Numbered' /\ RunsConfigured'
  BY <1>1 DEF EngineInv, Numbered, RunsConfigured
<1>6. Bound'
  BY <1>1, <1>2, <1>3, OwnersDiffer DEF EngineInv, Bound
<1>7. Kept'
  <2>1. SUFFICES ASSUME ~stolen, apply = NoApply PROVE Kept'
    BY <1>1 DEF Kept
  <2>2. PausedIds = {}
    BY <2>1 DEF PausedIds, NoApply
  <2>3. ASSUME NEW id \in DOMAIN run, Listens(run[id]), NEW q \in run[id].ports
        PROVE  holder'[q] = Rule(run[id].gen)
    <3>1. q \in Ports /\ holder[q] = Rule(run[id].gen)
      BY <2>1, <2>2, <2>3 DEF EngineInv, EngineTypes, ForwarderSet, Kept
    <3> QED BY <1>1, <1>2, <3>1, OwnersDiffer
  <2> QED BY <1>1, <1>3, <2>1, <2>2, <2>3 DEF EngineInv, Kept, Listens, Settled
<1>8. Progress'
  <2>1. SUFFICES ASSUME apply.phase = "listen" PROVE Progress'
    BY <1>1 DEF Progress
  <2>2. stolen'
    <3>1. apply # NoApply
      BY <2>1 DEF NoApply
    <3> QED BY <1>1, <3>1
  <2>3. \A n : Held(Rule(n))' = Held(Rule(n))
    BY <1>1, <1>2, OwnersDiffer DEF Held
  <2> QED BY <1>1, <1>3, <2>1, <2>2, <2>3
          DEF EngineInv, Progress, Made, Same, Settled, Listens, ForwarderSet
<1>9. Caused'
  BY <1>1, ClashKept DEF EngineInv, Caused
<1> QED BY <1>4, <1>5, <1>6, <1>7, <1>8, <1>9 DEF EngineInv

LEMMA Leaves == ASSUME EngineInv, NEW p \in Ports, LeavePort(p) PROVE EngineInv'
<1>1. /\ holder[p] = Other /\ holder' = [holder EXCEPT ![p] = Free]
      /\ UNCHANGED <<run, gates, effective, apply, closed, streams, gen, stolen>>
  BY DEF LeavePort
<1>2. /\ holder \in [Ports -> Owners] /\ holder'[p] = Free
      /\ \A q \in Ports : q # p => holder'[q] = holder[q]
  BY <1>1 DEF EngineInv, EngineTypes
<1>3. PausedIds' = PausedIds /\ Created' = Created
  BY <1>1 DEF PausedIds, Created
<1>4. EngineTypes'
  BY <1>1, <1>2 DEF EngineInv, EngineTypes, Owners, ForwarderSet
<1>5. Numbered' /\ RunsConfigured'
  BY <1>1 DEF EngineInv, Numbered, RunsConfigured
<1>6. Bound'
  BY <1>1, <1>2, <1>3, OwnersDiffer DEF EngineInv, Bound
<1>7. Kept'
  <2>1. SUFFICES ASSUME ~stolen PROVE Kept'
    BY <1>1 DEF Kept
  <2>2. \A n : \A q \in Ports : holder[q] = Rule(n) => holder'[q] = Rule(n)
    BY <1>1, <1>2, OwnersDiffer
  <2>3. \A q \in Ports : holder[q] = Free => holder'[q] = Free
    BY <1>1, <1>2
  <2>4. \A id \in DOMAIN run : run[id].ports \subseteq Ports
    BY DEF EngineInv, EngineTypes, ForwarderSet
  <2>5. ASSUME NEW id \in DOMAIN run, Listens(run[id])
        PROVE  /\ id \notin PausedIds => \A q \in run[id].ports : holder'[q] = Rule(run[id].gen)
               /\ id \in PausedIds => \A q \in run[id].ports :
                    holder'[q] = Free \/ \E n \in Created : holder'[q] = Rule(n)
    BY <2>1, <2>2, <2>3, <2>4, <2>5 DEF EngineInv, Kept
  <2> QED BY <1>1, <1>3, <2>1, <2>5 DEF EngineInv, Kept, Listens, Settled
<1>8. Progress'
  <2>1. SUFFICES ASSUME apply.phase = "listen" PROVE Progress'
    BY <1>1 DEF Progress
  <2>2. \A n : Held(Rule(n))' = Held(Rule(n))
    BY <1>1, <1>2, OwnersDiffer DEF Held
  <2>3. \A q \in Ports : \/ stolen \/ holder'[q] = Free \/ apply.was[q] = holder'[q]
                         \/ \E n \in apply.created : holder'[q] = Rule(n)
    BY <1>1, <1>2, <2>1 DEF EngineInv, Progress
  <2> QED BY <1>1, <1>3, <2>1, <2>2, <2>3
          DEF EngineInv, Progress, Made, Same, Settled, Listens, ForwarderSet
<1>9. Caused'
  BY <1>1, ClashKept DEF EngineInv, Caused
<1> QED BY <1>4, <1>5, <1>6, <1>7, <1>8, <1>9 DEF EngineInv
---------------------------------------------------------------------------
\* Listening.

LEMMA Keeps ==
  ASSUME EngineInv, apply.phase = "listen", NEW id \in apply.todo, KeepRule(id),
         UNCHANGED <<run, gates, effective, closed, streams, stolen>>
  PROVE  EngineInv'
<1>1. /\ id \in DOMAIN run /\ run[id].rule = apply.new.rules[id]
      /\ apply' = [apply EXCEPT !.todo = @ \ {id}, !.next = With(@, id, run[id])]
      /\ UNCHANGED <<holder, gen>>
  BY DEF KeepRule, Same
<1>2. DOMAIN apply = {"phase", "new", "cert", "todo", "next", "created", "paused", "was"}
  BY DEF EngineInv, EngineTypes, Working
<1>3. /\ DOMAIN apply' = DOMAIN apply /\ apply'.phase = "listen" /\ apply'.new = apply.new
      /\ apply'.cert = apply.cert /\ apply'.todo = apply.todo \ {id}
      /\ apply'.next = With(apply.next, id, run[id]) /\ apply'.created = apply.created
      /\ apply'.paused = apply.paused /\ apply'.was = apply.was
  BY <1>1, <1>2
<1>4. /\ DOMAIN apply'.next = DOMAIN apply.next \cup {id}
      /\ apply'.next[id] = run[id]
      /\ \A x \in DOMAIN apply.next : x # id => apply'.next[x] = apply.next[x]
  BY <1>3 DEF With
<1>5. PausedIds' = PausedIds /\ Created' = Created
  BY <1>3 DEF PausedIds, Created
<1>6. EngineTypes'
  BY <1>1, <1>2, <1>3 DEF EngineInv, EngineTypes, ForwarderSet, Owners, Working
<1>7. Numbered' /\ Bound' /\ Kept' /\ RunsConfigured'
  BY <1>1, <1>3, <1>5 DEF EngineInv, Numbered, Bound, Kept, RunsConfigured, Working
<1>8. Progress'
  <2>1. /\ id \in DOMAIN apply.new.rules /\ apply.new.rules[id].on
        /\ id \notin DOMAIN apply.next /\ id \notin PausedIds
    BY DEF EngineInv, Progress
  <2>2. run[id].gen \notin apply.created /\ run[id] \in ForwarderSet
    BY <1>1 DEF EngineInv, Numbered, EngineTypes, Working
  <2>3. \A x \in DOMAIN apply.next : apply.next[x].gen # run[id].gen
    <3> TAKE x \in DOMAIN apply.next
    <3>1. CASE Made(x)
      BY <2>2, <3>1 DEF Made
    <3>2. CASE ~Made(x)
      BY <1>1, <2>1, <3>2 DEF EngineInv, Progress, Numbered
    <3> QED BY <3>1, <3>2
  <2>4. /\ apply'.todo \subseteq {x \in DOMAIN apply.new.rules : apply.new.rules[x].on}
        /\ DOMAIN apply'.next = {x \in DOMAIN apply.new.rules : apply.new.rules[x].on} \ apply'.todo
        /\ PausedIds \cap apply'.todo = {}
        /\ \A n \in apply.created : \E x \in DOMAIN apply'.next : apply'.next[x].gen = n
        /\ \A x, y \in DOMAIN apply'.next : apply'.next[x].gen = apply'.next[y].gen => x = y
    <3>1. \A n \in apply.created : \E x \in DOMAIN apply'.next : apply'.next[x].gen = n
      <4> TAKE n \in apply.created
      <4>1. PICK x \in DOMAIN apply.next : apply.next[x].gen = n
        BY DEF EngineInv, Progress
      <4> QED BY <1>4, <2>1, <4>1
    <3>2. ASSUME NEW x \in DOMAIN apply'.next, NEW y \in DOMAIN apply'.next,
                 apply'.next[x].gen = apply'.next[y].gen PROVE x = y
      BY <1>4, <2>1, <2>3, <3>2 DEF EngineInv, Progress
    <3> QED BY <1>3, <1>4, <2>1, <3>1, <3>2 DEF EngineInv, Progress
  <2>5. \A x \in DOMAIN apply.next : Made(x)' <=> Made(x)
    BY <1>3, <1>4, <2>1 DEF Made
  <2>6. ASSUME NEW x \in DOMAIN apply'.next
        PROVE  /\ apply'.next[x] \in ForwarderSet' /\ apply'.next[x].rule = apply'.new.rules[x]
               /\ ~Made(x)' => x \in DOMAIN run' /\ apply'.next[x] = run'[x] /\ x \notin PausedIds'
               /\ Made(x)' =>
                    /\ ~Same(x)' /\ (x \in DOMAIN run' => x \in PausedIds')
                    /\ Held(Rule(apply.next[x].gen))' = apply'.next[x].ports
                    /\ apply'.next[x].ports # {} => Listens(apply'.next[x])
                    /\ Listens(apply'.next[x]) => Settled(apply'.next[x])
    <3>1. CASE x = id
      BY <1>1, <1>3, <1>4, <1>5, <2>1, <2>2, <3>1 DEF Made, ForwarderSet
    <3>2. CASE x # id
      <4>1. x \in DOMAIN apply.next /\ apply'.next[x] = apply.next[x]
        BY <1>4, <3>2
      <4> QED BY <1>1, <1>3, <1>5, <2>5, <4>1 DEF EngineInv, Progress, ForwarderSet, Same, Held, Rule
    <3> QED BY <3>1, <3>2
  <2> QED BY <1>1, <1>3, <1>5, <2>4, <2>6 DEF EngineInv, Progress, Rule, Listens, Settled
<1> QED BY <1>3, <1>6, <1>7, <1>8 DEF EngineInv, Caused

\* The ports, the forwarders stopped and what they had when the forwarder of id is
\* stopped, if there is one, and its successor, if it can, listens.
LEMMA StopThenGive ==
  ASSUME EngineInv, apply.phase = "listen", NEW id \in apply.todo,
         NEW ports \in SUBSET Ports, \A p \in ports : Stopped(id)[p] = Free,
         holder' = Give(Stopped(id), ports, Rule(gen + 1)), gen' = gen + 1,
         UNCHANGED <<run, gates, stolen>>,
         apply'.phase \in {"listen", "undo"}, apply'.paused = Paused(id),
         Created \subseteq Created', Created' \subseteq Created \cup {gen + 1},
         ports # {} => gen + 1 \in Created'
  PROVE  /\ holder' \in [Ports -> Owners'] /\ Bound' /\ Kept'
         /\ PausedIds' = PausedIds \cup (DOMAIN run \cap {id}) /\ id \notin PausedIds
         /\ apply'.paused \in Seq(DOMAIN run)
         /\ \A i, j \in DOMAIN apply'.paused : apply'.paused[i] = apply'.paused[j] => i = j
         /\ \A n \in 1 .. gen : (\A x \in DOMAIN run : run[x].gen # n) =>
              Held(Rule(n))' = Held(Rule(n))
         /\ \A p \in Ports : holder'[p] = Rule(gen + 1) <=> p \in ports
         /\ \A p \in Ports : \/ p \in ports /\ holder'[p] = Rule(gen + 1)
                             \/ holder'[p] = Free \/ holder'[p] = holder[p]
<1> DEFINE S == Stopped(id)
<1>1. /\ holder \in [Ports -> Owners] /\ gen \in Nat
      /\ \A x \in DOMAIN run : run[x].gen \in 1 .. gen /\ run[x].ports \subseteq Ports
      /\ apply.paused \in Seq(DOMAIN run)
  BY DEF EngineInv, EngineTypes, ForwarderSet, Working
<1>2. \A p \in Ports : S[p] = IF id \in DOMAIN run /\ holder[p] = Rule(run[id].gen) THEN Free ELSE holder[p]
  BY HolderFacts DEF Stopped
<1>3. \A p \in Ports : holder'[p] = IF p \in ports THEN Rule(gen + 1) ELSE S[p]
  BY HolderFacts
<1> HIDE DEF S
<1>4. \A p \in Ports : S[p] \in Owners
  BY <1>1, <1>2 DEF Owners
<1>5. holder' \in [Ports -> Owners']
  <2>1. 1 .. gen \subseteq 1 .. gen' /\ gen + 1 \in 1 .. gen'
    BY <1>1
  <2>2. Owners \subseteq Owners' /\ Rule(gen + 1) \in Owners'
    BY <2>1 DEF Owners
  <2> QED BY <1>3, <1>4, <2>2, HolderFacts DEF Give
<1>6. PausedIds' = PausedIds \cup (DOMAIN run \cap {id}) /\ id \notin PausedIds
  <2>1. id \notin PausedIds
    BY DEF EngineInv, Progress
  <2>2. CASE id \in DOMAIN run
    <3>1. apply'.paused = Append(apply.paused, id)
      BY <2>2 DEF Paused
    <3>2. {apply'.paused[i] : i \in DOMAIN apply'.paused}
            = {apply.paused[i] : i \in DOMAIN apply.paused} \cup {id}
      BY <1>1, <2>2, <3>1
    <3> QED BY <2>1, <2>2, <3>2 DEF PausedIds
  <2>3. CASE id \notin DOMAIN run
    BY <2>1, <2>3 DEF PausedIds, Paused
  <2> QED BY <2>2, <2>3
<1>7. /\ apply'.paused \in Seq(DOMAIN run)
      /\ \A i, j \in DOMAIN apply'.paused : apply'.paused[i] = apply'.paused[j] => i = j
  <2>1. \A i, j \in DOMAIN apply.paused : apply.paused[i] = apply.paused[j] => i = j
    BY DEF EngineInv, Numbered, Working
  <2>2. \A i \in DOMAIN apply.paused : apply.paused[i] # id
    BY <1>6 DEF PausedIds
  <2>3. CASE id \in DOMAIN run
    BY <1>1, <2>1, <2>2, <2>3 DEF Paused
  <2>4. CASE id \notin DOMAIN run
    BY <1>1, <2>1, <2>4 DEF Paused
  <2> QED BY <2>3, <2>4
<1>8. \A p \in Ports : holder[p] # Rule(gen + 1) /\ S[p] # Rule(gen + 1)
  BY <1>1, <1>4, OwnersDiffer DEF Owners
<1>9. \A n \in 1 .. gen : (\A x \in DOMAIN run : run[x].gen # n) => Held(Rule(n))' = Held(Rule(n))
  <2> SUFFICES ASSUME NEW n \in 1 .. gen, \A x \in DOMAIN run : run[x].gen # n
               PROVE  \A p \in Ports : holder'[p] = Rule(n) <=> holder[p] = Rule(n)
    BY DEF Held, Rule
  <2> TAKE p \in Ports
  <2>1. CASE p \in ports
    <3>1. S[p] = Free
      BY <2>1 DEF S
    <3> QED BY <1>1, <1>2, <1>3, <2>1, <3>1, OwnersDiffer
  <2>2. CASE p \notin ports
    BY <1>2, <1>3, <2>2, OwnersDiffer
  <2> QED BY <2>1, <2>2
<1>10. \A p \in Ports : holder'[p] = Rule(gen + 1) <=> p \in ports
  BY <1>3, <1>8
<1>11. \A p \in Ports : \/ p \in ports /\ holder'[p] = Rule(gen + 1)
                        \/ holder'[p] = Free \/ holder'[p] = holder[p]
  BY <1>2, <1>3
<1>12. Bound'
  <2>1. ASSUME NEW p \in Ports, NEW n \in 1 .. gen + 1, holder'[p] = Rule(n)
        PROVE  \/ n \in Created'
               \/ \E x \in DOMAIN run \ PausedIds' : run[x].gen = n /\ p \in run[x].ports
    <3>1. CASE p \in ports
      BY <1>3, <2>1, <3>1, OwnersDiffer
    <3>2. CASE p \notin ports
      <4>1. holder[p] = Rule(n) /\ ~(id \in DOMAIN run /\ n = run[id].gen)
        BY <1>2, <1>3, <2>1, <3>2, OwnersDiffer
      <4>2. n \in 1 .. gen
        BY <1>1, <1>8, <4>1
      <4>3. n \in Created \/ \E x \in DOMAIN run \ PausedIds : run[x].gen = n /\ p \in run[x].ports
        BY <4>1, <4>2 DEF EngineInv, Bound
      <4> QED BY <1>6, <4>1, <4>3
    <3> QED BY <3>1, <3>2
  <2>2. ASSUME NEW p \in Ports, NEW k \in GatewayKinds, holder'[p] = Gate(k)
        PROVE  k \in DOMAIN gates /\ gates[k] = p
    <3>1. holder[p] = Gate(k)
      BY <1>2, <1>3, <2>2, OwnersDiffer
    <3> QED BY <3>1 DEF EngineInv, Bound
  <2>3. ASSUME NEW k \in DOMAIN gates
        PROVE  k \in GatewayKinds /\ gates[k] \in Ports /\ holder'[gates[k]] = Gate(k)
    <3>1. k \in GatewayKinds /\ gates[k] \in Ports /\ holder[gates[k]] = Gate(k)
      BY DEF EngineInv, Bound
    <3>2. S[gates[k]] = Gate(k)
      BY <1>2, <3>1, OwnersDiffer
    <3>3. gates[k] \notin ports
      BY <3>2, OwnersDiffer DEF S
    <3> QED BY <1>3, <3>1, <3>2, <3>3
  <2> QED BY <2>1, <2>2, <2>3 DEF Bound
<1>13. Kept'
  <2>1. SUFFICES ASSUME ~stolen PROVE Kept'
    BY DEF Kept
  <2>2. ASSUME NEW x \in DOMAIN run, Listens(run[x]), x \notin PausedIds', NEW p \in run[x].ports
        PROVE  holder'[p] = Rule(run[x].gen)
    <3>1. x \notin PausedIds /\ x # id
      BY <1>6, <2>2
    <3>2. holder[p] = Rule(run[x].gen) /\ p \in Ports
      BY <1>1, <2>1, <2>2, <3>1 DEF EngineInv, Kept
    <3>3. S[p] = Rule(run[x].gen)
      BY <1>2, <2>2, <3>1, <3>2, OwnersDiffer DEF EngineInv, Numbered
    <3>4. p \notin ports
      BY <3>3, OwnersDiffer DEF S
    <3> QED BY <1>3, <3>2, <3>3, <3>4
  <2>3. ASSUME NEW x \in DOMAIN run, Listens(run[x]), x \in PausedIds', NEW p \in run[x].ports
        PROVE  holder'[p] = Free \/ \E n \in Created' : holder'[p] = Rule(n)
    <3>1. p \in Ports
      BY <1>1
    <3>2. S[p] = Free \/ \E n \in Created : S[p] = Rule(n)
      <4>1. CASE x \in PausedIds
        BY <1>2, <2>1, <2>3, <3>1, <4>1 DEF EngineInv, Kept
      <4>2. CASE x \notin PausedIds
        <5>1. x = id /\ holder[p] = Rule(run[id].gen)
          BY <1>6, <2>1, <2>3, <4>2 DEF EngineInv, Kept
        <5> QED BY <1>2, <3>1, <5>1
      <4> QED BY <4>1, <4>2
    <3> QED BY <1>3, <3>1, <3>2
  <2> QED BY <2>1, <2>2, <2>3 DEF EngineInv, Kept, Listens, Settled
<1> QED BY <1>5, <1>6, <1>7, <1>9, <1>10, <1>11, <1>12, <1>13

\* The ports a forwarder may take: those it is told, or else has, or else any.
LEMMA Wanting ==
  ASSUME NEW f, NEW h, f.rule.want \subseteq Ports, f.ports \subseteq Ports,
         NEW ports \in WantedPorts(f, h)
  PROVE  /\ ports \subseteq Ports /\ (ports # {} => Listens(f))
         /\ Listens(f) => /\ ports # {} /\ (f.rule.want # {} => ports = f.rule.want)
                          /\ f.rule.want = {} /\ f.ports # {} => ports = f.ports
BY DEF WantedPorts

LEMMA Listened ==
  ASSUME EngineInv, apply.phase = "listen", NEW id \in apply.todo,
         NEW ports \in WantedPorts(NewForwarder(id), Stopped(id)), ListenOn(id, ports),
         UNCHANGED <<run, gates, effective, closed, streams, stolen>>
  PROVE  EngineInv'
<1> DEFINE f == [gen |-> gen + 1, rule |-> apply.new.rules[id], ports |-> ports]
<1>1. /\ ~Same(id) /\ gen' = gen + 1 /\ \A p \in ports : Stopped(id)[p] = Free
      /\ holder' = Give(Stopped(id), ports, Rule(gen + 1))
      /\ apply' = [apply EXCEPT !.todo = @ \ {id}, !.paused = Paused(id),
                     !.next = With(@, id, f), !.created = @ \cup {gen + 1}]
  <2>1. [NewForwarder(id) EXCEPT !.ports = ports] = f
    BY DEF NewForwarder
  <2> HIDE DEF f
  <2> QED BY <2>1 DEF ListenOn
<1>2. DOMAIN apply = {"phase", "new", "cert", "todo", "next", "created", "paused", "was"}
  BY DEF EngineInv, EngineTypes, Working
<1>3. /\ DOMAIN apply' = DOMAIN apply /\ apply'.phase = "listen" /\ apply'.new = apply.new
      /\ apply'.cert = apply.cert /\ apply'.todo = apply.todo \ {id}
      /\ apply'.next = With(apply.next, id, f) /\ apply'.created = apply.created \cup {gen + 1}
      /\ apply'.paused = Paused(id) /\ apply'.was = apply.was
  BY <1>1, <1>2
<1>4. /\ DOMAIN apply'.next = DOMAIN apply.next \cup {id} /\ apply'.next[id] = f
      /\ \A x \in DOMAIN apply.next : x # id => apply'.next[x] = apply.next[x]
  BY <1>3 DEF With
<1>5. /\ id \in DOMAIN apply.new.rules /\ apply.new.rules[id].on
      /\ id \notin DOMAIN apply.next /\ apply.new.rules[id] \in ConfiguredRules /\ gen \in Nat
  BY DEF EngineInv, Progress, EngineTypes, Working
<1>6. /\ ports \subseteq Ports /\ (ports # {} => Listens(f)) /\ (Listens(f) => Settled(f))
  <2>1. NewForwarder(id).rule = apply.new.rules[id] /\ NewForwarder(id).ports = {}
    BY DEF NewForwarder
  <2>2. apply.new.rules[id].want \subseteq Ports
    BY <1>5, Configured
  <2>3. f.rule = apply.new.rules[id] /\ f.ports = ports
    OBVIOUS
  <2> QED BY <2>1, <2>2, <2>3, Wanting DEF Listens, Settled
<1>7. Created = apply.created /\ Created' = apply.created \cup {gen + 1}
  BY <1>3 DEF Created
<1>8. /\ holder' \in [Ports -> Owners'] /\ Bound' /\ Kept'
      /\ PausedIds' = PausedIds \cup (DOMAIN run \cap {id}) /\ id \notin PausedIds
      /\ apply'.paused \in Seq(DOMAIN run)
      /\ \A i, j \in DOMAIN apply'.paused : apply'.paused[i] = apply'.paused[j] => i = j
      /\ \A n \in 1 .. gen : (\A x \in DOMAIN run : run[x].gen # n) => Held(Rule(n))' = Held(Rule(n))
      /\ \A p \in Ports : holder'[p] = Rule(gen + 1) <=> p \in ports
      /\ \A p \in Ports : \/ p \in ports /\ holder'[p] = Rule(gen + 1)
                          \/ holder'[p] = Free \/ holder'[p] = holder[p]
  BY <1>1, <1>3, <1>6, <1>7, StopThenGive
<1>9. ForwarderSet \subseteq ForwarderSet' /\ f \in ForwarderSet'
  BY <1>1, <1>5, <1>6 DEF ForwarderSet
<1>10. EngineTypes'
  <2>1. /\ apply.created \subseteq 1 .. gen /\ \A x \in DOMAIN run : run[x] \in ForwarderSet
        /\ streams \subseteq 1 .. gen
    BY DEF EngineInv, EngineTypes, Working
  <2>2. apply'.created \subseteq 1 .. gen' /\ streams \subseteq 1 .. gen' /\ gen' \in Nat
    BY <1>1, <1>3, <1>5, <2>1
  <2> QED BY <1>2, <1>3, <1>8, <1>9, <2>1, <2>2 DEF EngineInv, EngineTypes, Working
<1>11. Numbered'
  <2>1. \A x \in DOMAIN run : run[x].gen \in 1 .. gen /\ run[x].gen \notin apply.created
    BY DEF EngineInv, EngineTypes, ForwarderSet, Numbered, Working
  <2>2. \A x \in DOMAIN run : run[x].gen \notin apply'.created
    BY <1>3, <1>5, <2>1
  <2> QED BY <1>8, <2>2 DEF EngineInv, Numbered
<1>12. RunsConfigured' /\ Caused'
  BY <1>3 DEF EngineInv, RunsConfigured, Caused
<1>13. Progress'
  <2>1. \A x \in DOMAIN apply.next : apply.next[x] \in ForwarderSet /\ apply.next[x].gen \in 1 .. gen
    BY DEF EngineInv, Progress, ForwarderSet
  <2>2. \A x \in DOMAIN apply.next : Made(x)' <=> Made(x)
    BY <1>3, <1>4, <1>5, <2>1 DEF Made
  <2>3. /\ apply'.todo \subseteq {x \in DOMAIN apply.new.rules : apply.new.rules[x].on}
        /\ DOMAIN apply'.next = {x \in DOMAIN apply.new.rules : apply.new.rules[x].on} \ apply'.todo
        /\ PausedIds' \cap apply'.todo = {}
    <3> DEFINE on == {x \in DOMAIN apply.new.rules : apply.new.rules[x].on}
    <3>1. apply.todo \subseteq on /\ DOMAIN apply.next = on \ apply.todo /\ PausedIds \cap apply.todo = {}
      BY DEF EngineInv, Progress
    <3>2. id \in on
      BY <1>5
    <3> HIDE DEF on
    <3>3. apply'.todo \subseteq on /\ DOMAIN apply'.next = on \ apply'.todo /\ PausedIds' \cap apply'.todo = {}
      BY ZenonT(30), <1>3, <1>4, <1>8, <3>1, <3>2
    <3> QED BY <3>3 DEF on
  <2>4. ASSUME NEW n \in apply'.created PROVE \E x \in DOMAIN apply'.next : apply'.next[x].gen = n
    <3>1. CASE n = gen + 1
      BY <1>4, <3>1
    <3>2. CASE n \in apply.created
      <4>1. PICK x \in DOMAIN apply.next : apply.next[x].gen = n
        BY <3>2 DEF EngineInv, Progress
      <4> QED BY <1>4, <1>5, <4>1
    <3> QED BY <1>3, <3>1, <3>2
  <2>5. ASSUME NEW x \in DOMAIN apply'.next, NEW y \in DOMAIN apply'.next,
               apply'.next[x].gen = apply'.next[y].gen PROVE x = y
    <3>1. \A z \in DOMAIN apply.next : apply'.next[z].gen \in 1 .. gen
      BY <1>4, <1>5, <2>1
    <3>2. apply'.next[id].gen = gen + 1
      BY <1>4
    <3>3. CASE x = id \/ y = id
      BY <1>4, <1>5, <2>5, <3>1, <3>2, <3>3
    <3>4. CASE x # id /\ y # id
      BY <1>4, <2>5, <3>4 DEF EngineInv, Progress
    <3> QED BY <3>3, <3>4
  <2>6. ASSUME NEW x \in DOMAIN apply'.next
        PROVE  /\ apply'.next[x] \in ForwarderSet' /\ apply'.next[x].rule = apply'.new.rules[x]
               /\ ~Made(x)' => x \in DOMAIN run' /\ apply'.next[x] = run'[x] /\ x \notin PausedIds'
               /\ Made(x)' =>
                    /\ ~Same(x)' /\ (x \in DOMAIN run' => x \in PausedIds')
                    /\ {p \in Ports : holder'[p] = Rule(apply'.next[x].gen)} = apply'.next[x].ports
                    /\ apply'.next[x].ports # {} => Listens(apply'.next[x])
                    /\ Listens(apply'.next[x]) => Settled(apply'.next[x])
    <3>1. CASE x = id
      <4>1. apply'.next[x] = f /\ f.gen = gen + 1 /\ f.ports = ports /\ f.rule = apply'.new.rules[x]
        BY <1>3, <1>4, <3>1
      <4>2. Made(x)' /\ ~Same(x)'
        BY <1>1, <1>3, <3>1, <4>1 DEF Made, Same
      <4> HIDE DEF f
      <4> QED BY <1>6, <1>8, <1>9, <3>1, <4>1, <4>2
    <3>2. CASE x # id
      <4>1. x \in DOMAIN apply.next /\ apply'.next[x] = apply.next[x]
        BY <1>4, <3>2
      <4>2. apply.next[x].rule = apply.new.rules[x] /\ (Same(x)' <=> Same(x))
        BY <1>3, <4>1 DEF EngineInv, Progress, Same
      <4>3. CASE Made(x)
        <5>1. \A y \in DOMAIN run : run[y].gen # apply.next[x].gen
          BY <4>3 DEF Made, EngineInv, Numbered, Working
        <5>2. Held(Rule(apply.next[x].gen)) = apply.next[x].ports
          BY <4>1, <4>3 DEF EngineInv, Progress
        <5>3. {p \in Ports : holder'[p] = Rule(apply.next[x].gen)} = apply.next[x].ports
          <6> DEFINE n == apply.next[x].gen
          <6>1. n \in 1 .. gen /\ \A y \in DOMAIN run : run[y].gen # n
            BY <2>1, <4>1, <5>1
          <6> HIDE DEF n
          <6>2. \A m \in 1 .. gen : (\A y \in DOMAIN run : run[y].gen # m) =>
                  {p \in Ports : holder'[p] = Rule(m)} = Held(Rule(m))
            BY <1>8 DEF Held
          <6>3. {p \in Ports : holder'[p] = Rule(n)} = Held(Rule(n))
            BY <6>1, <6>2
          <6> QED BY <5>2, <6>3 DEF n
        <5> QED BY <1>3, <1>8, <1>9, <2>1, <2>2, <4>1, <4>2, <4>3, <5>3 DEF EngineInv, Progress
      <4>4. CASE ~Made(x)
        BY <1>3, <1>8, <1>9, <2>1, <2>2, <3>2, <4>1, <4>2, <4>4 DEF EngineInv, Progress
      <4> QED BY <4>3, <4>4
    <3> QED BY <3>1, <3>2
  <2>7. ASSUME NEW p \in Ports
        PROVE  \/ stolen \/ holder'[p] = Free \/ apply.was[p] = holder'[p]
               \/ \E n \in apply'.created : holder'[p] = Rule(n)
    BY <1>3, <1>8 DEF EngineInv, Progress
  <2>8. \A x : Held(Rule(apply.next[x].gen))' = {p \in Ports : holder'[p] = Rule(apply'.next[x].gen)}
    BY DEF Held
  <2>9. ASSUME NEW x \in DOMAIN apply'.next
        PROVE  Made(x)' =>
                 /\ ~Same(x)' /\ (x \in DOMAIN run' => x \in PausedIds')
                 /\ Held(Rule(apply.next[x].gen))' = apply'.next[x].ports
                 /\ apply'.next[x].ports # {} => Listens(apply'.next[x])
                 /\ Listens(apply'.next[x]) => Settled(apply'.next[x])
    BY <2>6, <2>8
  <2>10. apply'.new = apply.new /\ stolen' = stolen /\ apply'.was = apply.was
    BY <1>3
  <2>11. /\ apply'.todo \subseteq {x \in DOMAIN apply'.new.rules : apply'.new.rules[x].on}
         /\ DOMAIN apply'.next = {x \in DOMAIN apply'.new.rules : apply'.new.rules[x].on} \ apply'.todo
    BY <2>3, <2>10
  <2>12. ASSUME NEW p \in Ports
         PROVE  \/ stolen' \/ holder'[p] = Free \/ apply'.was[p] = holder'[p]
                \/ \E n \in apply'.created : holder'[p] = Rule(n)
    BY <2>7, <2>10
  <2> QED BY <2>3, <2>4, <2>5, <2>6, <2>9, <2>11, <2>12, Zenon DEF Progress
<1> QED BY <1>8, <1>10, <1>11, <1>12, <1>13 DEF EngineInv

\* A port that is not free while it listens was bound so at the beginning, unless
\* another program came between or a rule of the configuration wants or found it.
LEMMA Blocked ==
  ASSUME EngineInv, apply.phase = "listen", ~stolen, NEW p \in Ports, holder[p] # Free
  PROVE  \/ apply.was[p] = holder[p]
         \/ \E x \in DOMAIN apply.next :
              /\ x \in DOMAIN apply.new.rules /\ apply.new.rules[x].on /\ ~apply.new.rules[x].sub
              /\ ~Same(x) /\ (Wants(x) = {} \/ p \in Wants(x))
<1>1. apply.was[p] = holder[p] \/ \E n \in apply.created : holder[p] = Rule(n)
  BY DEF EngineInv, Progress
<1>2. ASSUME NEW n \in apply.created, holder[p] = Rule(n)
      PROVE  \E x \in DOMAIN apply.next :
               /\ x \in DOMAIN apply.new.rules /\ apply.new.rules[x].on /\ ~apply.new.rules[x].sub
               /\ ~Same(x) /\ (Wants(x) = {} \/ p \in Wants(x))
  <2>1. PICK x \in DOMAIN apply.next : apply.next[x].gen = n
    BY DEF EngineInv, Progress
  <2>2. Made(x)
    BY <2>1 DEF Made
  <2>3. p \in apply.next[x].ports
    BY <1>2, <2>1, <2>2 DEF EngineInv, Progress, Held
  <2>4. /\ ~Same(x) /\ Listens(apply.next[x]) /\ Settled(apply.next[x])
        /\ apply.next[x].rule = apply.new.rules[x] /\ x \in DOMAIN apply.new.rules
    BY <2>2, <2>3 DEF EngineInv, Progress
  <2> QED BY <2>3, <2>4 DEF Listens, Settled, Wants
<1> QED BY <1>1, <1>2

LEMMA CannotClash ==
  ASSUME EngineInv, apply.phase = "listen", NEW id \in apply.todo, CannotListen(id)
  PROVE  Clash
<1> SUFFICES ASSUME ~stolen, Wants(id) # {} PROVE Clash
  <2>1. id \in DOMAIN apply.new.rules /\ apply.new.rules[id].on /\ ~Same(id)
    BY DEF EngineInv, Progress, CannotListen
  <2>2. ~apply.new.rules[id].sub
    BY DEF CannotListen, WantedPorts, NewForwarder, Listens
  <2> QED BY <2>1, <2>2 DEF Clash
<1>1. /\ id \in DOMAIN apply.new.rules /\ apply.new.rules[id].on /\ ~apply.new.rules[id].sub
      /\ ~Same(id) /\ id \notin DOMAIN apply.next /\ Wants(id) \subseteq Ports
  <2>1. id \in DOMAIN apply.new.rules /\ apply.new.rules[id].on /\ ~Same(id) /\ id \notin DOMAIN apply.next
    BY DEF EngineInv, Progress, CannotListen
  <2>2. ~apply.new.rules[id].sub
    BY DEF CannotListen, WantedPorts, NewForwarder, Listens
  <2>3. apply.new.rules[id] \in ConfiguredRules
    BY <2>1 DEF EngineInv, EngineTypes, Working
  <2> QED BY <2>1, <2>2, <2>3, Configured DEF Wants
<1>2. WantedPorts(NewForwarder(id), Stopped(id)) = {Wants(id)}
  BY <1>1 DEF WantedPorts, NewForwarder, Listens, Wants
<1>3. PICK p \in Wants(id) : Stopped(id)[p] # Free
  BY <1>2 DEF CannotListen
<1>4. p \in Ports /\ holder[p] # Free /\ ~(id \in DOMAIN run /\ holder[p] = Rule(run[id].gen))
  BY <1>1, <1>3, HolderFacts DEF Stopped
<1>5. CASE apply.was[p] = holder[p]
  BY <1>1, <1>4, <1>5 DEF Clash
<1>6. ASSUME NEW x \in DOMAIN apply.next, x \in DOMAIN apply.new.rules, apply.new.rules[x].on,
             ~apply.new.rules[x].sub, ~Same(x), Wants(x) = {} \/ p \in Wants(x)
      PROVE  Clash
  <2>1. x # id
    BY <1>1
  <2>2. CASE Wants(x) = {}
    BY <1>6, <2>2 DEF Clash
  <2>3. CASE p \in Wants(x)
    BY <1>1, <1>6, <2>1, <2>3 DEF Clash
  <2> QED BY <1>6, <2>2, <2>3
<1> QED BY <1>4, <1>5, <1>6, Blocked

LEMMA Refused ==
  ASSUME EngineInv, apply.phase = "listen", NEW id \in apply.todo, CannotListen(id),
         UNCHANGED <<run, gates, effective, closed, streams, stolen>>
  PROVE  EngineInv'
<1>1. /\ gen' = gen + 1 /\ holder' = Stopped(id)
      /\ apply' = [apply EXCEPT !.phase = "undo", !.paused = Paused(id)]
  BY DEF CannotListen
<1>2. DOMAIN apply = {"phase", "new", "cert", "todo", "next", "created", "paused", "was"}
  BY DEF EngineInv, EngineTypes, Working
<1>3. /\ DOMAIN apply' = DOMAIN apply /\ apply'.phase = "undo" /\ apply'.new = apply.new
      /\ apply'.cert = apply.cert /\ apply'.created = apply.created
      /\ apply'.paused = Paused(id) /\ apply'.was = apply.was
  BY <1>1, <1>2
<1>4. Created = apply.created /\ Created' = apply.created
  BY <1>3 DEF Created
<1>5. holder' = Give(Stopped(id), {}, Rule(gen + 1))
  <2>1. holder \in [Ports -> Owners]
    BY DEF EngineInv, EngineTypes
  <2>2. Stopped(id) = [p \in Ports |-> Stopped(id)[p]]
    BY <2>1 DEF Stopped, Let
  <2> QED BY <1>1, <2>2 DEF Give
<1>6. /\ holder' \in [Ports -> Owners'] /\ Bound' /\ Kept'
      /\ apply'.paused \in Seq(DOMAIN run)
      /\ \A i, j \in DOMAIN apply'.paused : apply'.paused[i] = apply'.paused[j] => i = j
  BY <1>1, <1>3, <1>4, <1>5, StopThenGive
<1>7. EngineTypes'
  <2>1. /\ gen \in Nat /\ apply.created \subseteq 1 .. gen /\ streams \subseteq 1 .. gen
        /\ \A x \in DOMAIN run : run[x] \in ForwarderSet
    BY DEF EngineInv, EngineTypes, Working
  <2>2. gen' \in Nat /\ apply'.created \subseteq 1 .. gen' /\ streams \subseteq 1 .. gen'
    BY <1>1, <1>3, <2>1
  <2>3. \A x \in DOMAIN run : run[x] \in ForwarderSet'
    BY <1>1, <2>1 DEF ForwarderSet
  <2> QED BY <1>2, <1>3, <1>6, <2>2, <2>3 DEF EngineInv, EngineTypes, Working
<1>8. Numbered' /\ RunsConfigured' /\ Progress'
  BY <1>3, <1>6 DEF EngineInv, Numbered, RunsConfigured, Progress, Working
<1>9. Caused'
  BY <1>3, CannotClash, ClashKept DEF Caused
<1> QED BY <1>6, <1>7, <1>8, <1>9 DEF EngineInv

LEMMA GatesClash ==
  ASSUME EngineInv, apply.phase = "listen", ~configureGateways(apply.new.gates)
  PROVE  Clash
<1> DEFINE to == apply.new.gates
<1>1. WellGated(to)
  BY DEF EngineInv, EngineTypes, Working
<1>2. CASE "tls" \in DOMAIN to /\ ~apply.cert
  BY <1>2 DEF Clash
<1>3. ASSUME NEW k \in DOMAIN to, NEW l \in DOMAIN to, to[k] = to[l], k # l PROVE Clash
  BY <1>3 DEF Clash
<1>4. ASSUME ~stolen, NEW k \in DOMAIN to, holder[to[k]] # Free, ~(k \in DOMAIN gates /\ gates[k] = to[k])
      PROVE  Clash
  <2>1. to[k] \in Ports /\ k \in GatewayKinds
    BY <1>1 DEF WellGated
  <2>2. holder[to[k]] # Gate(k)
    BY <1>4, <2>1 DEF EngineInv, Bound
  <2>3. CASE apply.was[to[k]] = holder[to[k]]
    BY <1>4, <2>2, <2>3 DEF Clash
  <2>4. ASSUME NEW x \in DOMAIN apply.next, x \in DOMAIN apply.new.rules, apply.new.rules[x].on,
               ~apply.new.rules[x].sub, ~Same(x), Wants(x) = {} \/ to[k] \in Wants(x)
        PROVE  Clash
    <3>1. CASE Wants(x) = {}
      BY <2>4, <3>1 DEF Clash
    <3>2. CASE to[k] \in Wants(x)
      BY <2>4, <3>2 DEF Clash
    <3> QED BY <2>4, <3>1, <3>2
  <2> QED BY <1>4, <2>1, <2>3, <2>4, Blocked
<1>5. CASE stolen
  BY <1>5 DEF Clash
<1> QED BY <1>2, <1>3, <1>4, <1>5 DEF configureGateways

LEMMA GatesRefused == ASSUME EngineInv, GatesFail PROVE EngineInv'
<1>1. /\ apply.phase = "listen" /\ ~configureGateways(apply.new.gates)
      /\ apply' = [apply EXCEPT !.phase = "undo"]
      /\ UNCHANGED <<holder, run, gates, effective, closed, streams, gen, stolen>>
  BY DEF GatesFail
<1>2. DOMAIN apply = {"phase", "new", "cert", "todo", "next", "created", "paused", "was"}
  BY <1>1 DEF EngineInv, EngineTypes, Working
<1>3. /\ DOMAIN apply' = DOMAIN apply /\ apply'.phase = "undo" /\ apply'.new = apply.new
      /\ apply'.cert = apply.cert /\ apply'.created = apply.created
      /\ apply'.paused = apply.paused /\ apply'.was = apply.was
  BY <1>1, <1>2
<1>4. Created' = Created /\ PausedIds' = PausedIds
  BY <1>1, <1>3 DEF Created, PausedIds
<1>5. EngineTypes'
  BY <1>1, <1>2, <1>3 DEF EngineInv, EngineTypes, ForwarderSet, Owners, Working
<1>6. Numbered' /\ Bound' /\ Kept' /\ RunsConfigured' /\ Progress'
  BY <1>1, <1>3, <1>4 DEF EngineInv, Numbered, Bound, Kept, RunsConfigured, Progress, Working
<1>7. Caused'
  BY <1>1, <1>3, GatesClash, ClashKept DEF Caused
<1> QED BY <1>5, <1>6, <1>7 DEF EngineInv
---------------------------------------------------------------------------
\* Undoing.

LEMMA ClosesCreated == ASSUME EngineInv, CloseCreated PROVE EngineInv'
<1>1. /\ apply.phase = "undo" /\ holder' = Let(holder, {Rule(n) : n \in apply.created})
      /\ streams' = streams \ apply.created /\ apply' = [apply EXCEPT !.phase = "restore"]
      /\ UNCHANGED <<run, gates, effective, closed, gen, stolen>>
  BY DEF CloseCreated
<1>2. DOMAIN apply = {"phase", "new", "cert", "todo", "next", "created", "paused", "was"}
  BY <1>1 DEF EngineInv, EngineTypes, Working
<1>3. /\ DOMAIN apply' = DOMAIN apply /\ apply'.phase = "restore" /\ apply'.new = apply.new
      /\ apply'.cert = apply.cert /\ apply'.created = apply.created
      /\ apply'.paused = apply.paused /\ apply'.was = apply.was
  BY <1>1, <1>2
<1>4. Created' = {} /\ Created = apply.created /\ PausedIds' = PausedIds
  BY <1>1, <1>3 DEF Created, PausedIds
<1>5. \A p \in Ports : holder'[p] = IF \E n \in apply.created : holder[p] = Rule(n) THEN Free ELSE holder[p]
  BY <1>1, HolderFacts
<1>6. EngineTypes'
  <2>1. holder' \in [Ports -> Owners]
    BY <1>1, <1>5, HolderFacts DEF EngineInv, EngineTypes, Owners, Let
  <2> QED BY <1>1, <1>2, <1>3, <2>1 DEF EngineInv, EngineTypes, ForwarderSet, Owners, Working
<1>7. Bound'
  <2>1. ASSUME NEW p \in Ports, NEW n \in 1 .. gen, holder'[p] = Rule(n)
        PROVE  \E id \in DOMAIN run \ PausedIds : run[id].gen = n /\ p \in run[id].ports
    <3>1. holder[p] = Rule(n) /\ n \notin apply.created
      BY <1>5, <2>1, OwnersDiffer
    <3> QED BY <1>4, <3>1 DEF EngineInv, Bound
  <2>2. \A p \in Ports, k \in GatewayKinds : holder'[p] = Gate(k) <=> holder[p] = Gate(k)
    BY <1>5, OwnersDiffer
  <2>3. ASSUME NEW k \in DOMAIN gates
        PROVE  k \in GatewayKinds /\ gates[k] \in Ports /\ holder'[gates[k]] = Gate(k)
    BY <2>2 DEF EngineInv, Bound
  <2> QED BY <1>1, <1>4, <2>1, <2>2, <2>3 DEF EngineInv, Bound
<1>8. Kept'
  <2>1. SUFFICES ASSUME ~stolen PROVE Kept'
    BY <1>1 DEF Kept
  <2>2. ASSUME NEW id \in DOMAIN run, Listens(run[id]), NEW p \in run[id].ports
        PROVE  /\ id \notin PausedIds => holder'[p] = Rule(run[id].gen)
               /\ id \in PausedIds => holder'[p] = Free
    <3>1. p \in Ports /\ run[id].gen \notin apply.created
      BY <1>1 DEF EngineInv, EngineTypes, ForwarderSet, Numbered, Working
    <3>2. id \notin PausedIds => holder[p] = Rule(run[id].gen)
      BY <2>1, <2>2 DEF EngineInv, Kept
    <3>3. id \in PausedIds => holder[p] = Free \/ \E n \in apply.created : holder[p] = Rule(n)
      BY <1>4, <2>1, <2>2 DEF EngineInv, Kept
    <3> QED BY <1>5, <3>1, <3>2, <3>3, OwnersDiffer
  <2> QED BY <1>1, <1>4, <2>1, <2>2 DEF EngineInv, Kept, Listens, Settled
<1>9. Numbered' /\ RunsConfigured' /\ Progress'
  BY <1>1, <1>3 DEF EngineInv, Numbered, RunsConfigured, Progress, Working
<1>10. Caused'
  BY <1>1, <1>3, ClashKept DEF EngineInv, Caused
<1> QED BY <1>6, <1>7, <1>8, <1>9, <1>10 DEF EngineInv

LEMMA GivesUp == ASSUME EngineInv, GiveUp PROVE EngineInv'
<1>1. /\ apply.phase = "restore" /\ apply.paused = <<>> /\ apply' = NoApply /\ apply'.phase = "none"
      /\ UNCHANGED <<holder, run, gates, effective, closed, streams, gen, stolen>>
  BY DEF GiveUp, NoApply
<1>2. Created' = {} /\ Created = {} /\ PausedIds' = {} /\ PausedIds = {}
  BY <1>1 DEF Created, PausedIds
<1>3. EngineTypes'
  BY <1>1 DEF EngineInv, EngineTypes, ForwarderSet, Owners, Working
<1>4. Numbered' /\ Bound' /\ Kept' /\ RunsConfigured' /\ Progress' /\ Caused'
  BY <1>1, <1>2 DEF EngineInv, Numbered, Bound, Kept, RunsConfigured, Progress, Caused, Working
<1> QED BY <1>3, <1>4 DEF EngineInv

\* The first of the stopped forwarders listens again on what it had, which is free if no
\* other program came between; if one did it may get less.
LEMMA Restarts == ASSUME EngineInv, Restart PROVE EngineInv'
<1> DEFINE id == Head(apply.paused)
           f == run[id]
<1>1. /\ apply.phase = "restore" /\ apply.paused # <<>> /\ apply' = [apply EXCEPT !.paused = Tail(@)]
      /\ UNCHANGED <<gates, effective, closed, streams, gen, stolen>>
  BY DEF Restart
<1>2. /\ DOMAIN apply = {"phase", "new", "cert", "todo", "next", "created", "paused", "was"}
      /\ apply.paused \in Seq(DOMAIN run)
      /\ \A i, j \in DOMAIN apply.paused : apply.paused[i] = apply.paused[j] => i = j
      /\ holder \in [Ports -> Owners]
  BY <1>1 DEF EngineInv, EngineTypes, Numbered, Working
<1>3. /\ DOMAIN apply' = DOMAIN apply /\ apply'.phase = "restore" /\ apply'.new = apply.new
      /\ apply'.cert = apply.cert /\ apply'.created = apply.created
      /\ apply'.paused = Tail(apply.paused) /\ apply'.was = apply.was
  BY <1>1, <1>2
<1>4. /\ id \in DOMAIN run /\ id \in PausedIds /\ PausedIds' = PausedIds \ {id}
      /\ apply'.paused \in Seq(DOMAIN run)
      /\ \A i, j \in DOMAIN apply'.paused : apply'.paused[i] = apply'.paused[j] => i = j
  <2> DEFINE s == apply.paused
  <2>1. /\ s \in Seq(DOMAIN run) /\ s # <<>> /\ \A i, j \in DOMAIN s : s[i] = s[j] => i = j
    BY <1>1, <1>2
  <2>2. PausedIds = {s[i] : i \in DOMAIN s} /\ PausedIds' = {Tail(s)[i] : i \in DOMAIN Tail(s)}
    BY <1>1, <1>3 DEF PausedIds
  <2>3. apply'.paused = Tail(s) /\ id = Head(s)
    BY <1>3
  <2> HIDE DEF s, id
  <2>4. /\ Len(s) \in Nat \ {0} /\ DOMAIN s = 1 .. Len(s) /\ Head(s) = s[1] /\ Tail(s) \in Seq(DOMAIN run)
        /\ DOMAIN Tail(s) = 1 .. Len(s) - 1 /\ \A i \in 1 .. Len(s) - 1 : Tail(s)[i] = s[i + 1]
    BY <2>1
  <2>5. {Tail(s)[i] : i \in DOMAIN Tail(s)} = {s[i] : i \in DOMAIN s} \ {s[1]}
    <3>1. ASSUME NEW i \in DOMAIN Tail(s) PROVE Tail(s)[i] \in {s[j] : j \in DOMAIN s} \ {s[1]}
      <4>1. i + 1 \in DOMAIN s /\ i + 1 # 1 /\ 1 \in DOMAIN s /\ Tail(s)[i] = s[i + 1]
        BY <2>4, <3>1
      <4> QED BY <2>1, <4>1
    <3>2. ASSUME NEW j \in DOMAIN s, s[j] # s[1] PROVE \E i \in DOMAIN Tail(s) : Tail(s)[i] = s[j]
      <4>1. j - 1 \in DOMAIN Tail(s) /\ Tail(s)[j - 1] = s[j]
        BY <2>4, <3>2
      <4> QED BY <4>1
    <3> QED BY <3>1, <3>2
  <2>6. \A i, j \in DOMAIN Tail(s) : Tail(s)[i] = Tail(s)[j] => i = j
    <3> SUFFICES ASSUME NEW i \in DOMAIN Tail(s), NEW j \in DOMAIN Tail(s), Tail(s)[i] = Tail(s)[j]
                 PROVE  i = j
      OBVIOUS
    <3>1. i + 1 \in DOMAIN s /\ j + 1 \in DOMAIN s /\ s[i + 1] = s[j + 1]
      BY <2>4
    <3>2. i + 1 = j + 1
      BY <2>1, <3>1
    <3> QED BY <2>4, <3>2
  <2>7. 1 \in DOMAIN s /\ s[1] \in DOMAIN run /\ id = s[1]
    BY <2>1, <2>3, <2>4
  <2>8. id \in DOMAIN run /\ id \in PausedIds
    BY <2>2, <2>7
  <2>9. PausedIds' = PausedIds \ {id}
    BY <2>2, <2>5, <2>7
  <2>10. apply'.paused \in Seq(DOMAIN run)
    BY <2>3, <2>4
  <2>11. \A i, j \in DOMAIN apply'.paused : apply'.paused[i] = apply'.paused[j] => i = j
    BY <2>3, <2>6
  <2> QED BY <2>8, <2>9, <2>10, <2>11
<1> HIDE DEF id
<1>5. f \in ForwarderSet /\ f.rule.want \subseteq Ports /\ f.ports \subseteq Ports /\ f.gen \in 1 .. gen
  <2>1. f \in ForwarderSet
    BY <1>4 DEF EngineInv, EngineTypes
  <2> QED BY <2>1, Configured DEF ForwarderSet
<1>6. Created = {} /\ Created' = {}
  BY <1>1, <1>3 DEF Created
<1>7. ASSUME ~stolen, Listens(f) PROVE f.ports # {} /\ WantedPorts(f, holder) = {f.ports}
             /\ \A p \in f.ports : holder[p] = Free
  <2>1. Settled(f) /\ \A p \in f.ports : holder[p] = Free
    BY <1>4, <1>6, <1>7 DEF EngineInv, Kept
  <2> QED BY <1>7, <2>1 DEF Settled, WantedPorts
<1>8. ASSUME NEW ports \in SUBSET Ports, run' = [run EXCEPT ![id].ports = ports],
             holder' \in [Ports -> Owners], Bound', Kept'
      PROVE  EngineInv'
  <2>1. /\ DOMAIN run' = DOMAIN run
        /\ \A x \in DOMAIN run : /\ run'[x] \in ForwarderSet /\ run'[x].gen = run[x].gen
                                 /\ run'[x].rule = run[x].rule
    <3>1. ASSUME NEW x \in DOMAIN run
          PROVE run'[x] \in ForwarderSet /\ run'[x].gen = run[x].gen /\ run'[x].rule = run[x].rule
      <4>1. run[x] \in ForwarderSet
        BY DEF EngineInv, EngineTypes
      <4> QED BY <1>8, <4>1 DEF ForwarderSet
    <3> QED BY <1>8, <3>1
  <2>2. EngineTypes'
    BY <1>1, <1>2, <1>3, <1>4, <1>8, <2>1 DEF EngineInv, EngineTypes, ForwarderSet, Owners, Working
  <2>3. Numbered' /\ RunsConfigured' /\ Progress'
    BY <1>1, <1>3, <1>4, <2>1 DEF EngineInv, Numbered, RunsConfigured, Progress, Working
  <2>4. Caused'
    BY <1>1, <1>3, <2>1, ClashKept DEF EngineInv, Caused
  <2> QED BY <1>8, <2>2, <2>3, <2>4 DEF EngineInv
<1>9. ASSUME NEW ports \in WantedPorts(f, holder), \A p \in ports : holder[p] = Free,
             holder' = Give(holder, ports, Rule(f.gen)), run' = [run EXCEPT ![id].ports = ports]
      PROVE  EngineInv'
  <2>1. ports \subseteq Ports /\ (ports # {} => Listens(f))
    BY <1>5, <1>9, Wanting
  <2>2. /\ \A p \in Ports : holder'[p] = IF p \in ports THEN Rule(f.gen) ELSE holder[p]
        /\ holder' \in [Ports -> Owners]
    <3>1. \A p \in Ports : holder'[p] = IF p \in ports THEN Rule(f.gen) ELSE holder[p]
      BY <1>9, HolderFacts
    <3>2. Rule(f.gen) \in Owners
      BY <1>5 DEF Owners
    <3> QED BY <1>2, <1>9, <3>1, <3>2 DEF Give
  <2>3. /\ DOMAIN run' = DOMAIN run /\ run'[id].ports = ports /\ run'[id].gen = f.gen
        /\ run'[id].rule = f.rule /\ \A x \in DOMAIN run : x # id => run'[x] = run[x]
    BY <1>4, <1>5, <1>9 DEF ForwarderSet
  <2>4. Bound'
    <3>1. ASSUME NEW p \in Ports, NEW n \in 1 .. gen, holder'[p] = Rule(n)
          PROVE  \E x \in DOMAIN run' \ PausedIds' : run'[x].gen = n /\ p \in run'[x].ports
      <4>1. CASE p \in ports
        <5>1. n = f.gen
          BY <2>2, <3>1, <4>1, OwnersDiffer
        <5> QED BY <1>4, <2>3, <4>1, <5>1
      <4>2. CASE p \notin ports
        <5>1. PICK x \in DOMAIN run \ PausedIds : run[x].gen = n /\ p \in run[x].ports
          BY <1>6, <2>2, <3>1, <4>2 DEF EngineInv, Bound
        <5>2. x # id
          BY <1>4, <5>1
        <5> QED BY <1>4, <2>3, <5>1, <5>2
      <4> QED BY <4>1, <4>2
    <3>2. ASSUME NEW p \in Ports, NEW k \in GatewayKinds, holder'[p] = Gate(k)
          PROVE  k \in DOMAIN gates /\ gates[k] = p
      BY <2>2, <3>2, OwnersDiffer DEF EngineInv, Bound
    <3>3. ASSUME NEW k \in DOMAIN gates
          PROVE  k \in GatewayKinds /\ gates[k] \in Ports /\ holder'[gates[k]] = Gate(k)
      <4>1. k \in GatewayKinds /\ gates[k] \in Ports /\ holder[gates[k]] = Gate(k)
        BY DEF EngineInv, Bound
      <4> QED BY <1>9, <2>2, <4>1, OwnersDiffer
    <3> QED BY <1>1, <3>1, <3>2, <3>3 DEF Bound
  <2>5. Kept'
    <3>1. SUFFICES ASSUME ~stolen PROVE Kept'
      BY <1>1 DEF Kept
    <3>2. Listens(f) => ports = f.ports
      BY <1>7, <1>9, <3>1
    <3>3. \A x \in DOMAIN run : Listens(run[x]) => /\ run'[x].ports = run[x].ports /\ Settled(run[x])
                                                  /\ run'[x].rule = run[x].rule /\ run'[x].gen = run[x].gen
      BY <2>3, <3>1, <3>2 DEF EngineInv, Kept
    <3>4. \A x \in DOMAIN run : Listens(run'[x]) <=> Listens(run[x])
      BY <2>3 DEF Listens
    <3>5. ASSUME NEW x \in DOMAIN run, Listens(run[x]), x \notin PausedIds', NEW p \in run[x].ports
          PROVE  holder'[p] = Rule(run[x].gen)
      <4>1. p \in Ports
        BY DEF EngineInv, EngineTypes, ForwarderSet
      <4>2. CASE x = id
        BY <2>2, <3>2, <3>5, <4>1, <4>2
      <4>3. CASE x # id
        <5>1. holder[p] = Rule(run[x].gen)
          BY <1>4, <3>1, <3>5, <4>3 DEF EngineInv, Kept
        <5> QED BY <1>9, <2>2, <4>1, <5>1, OwnersDiffer
      <4> QED BY <4>2, <4>3
    <3>6. ASSUME NEW x \in DOMAIN run, Listens(run[x]), x \in PausedIds', NEW p \in run[x].ports
          PROVE  holder'[p] = Free
      <4>1. p \in Ports /\ x # id
        BY <1>4, <3>6 DEF EngineInv, EngineTypes, ForwarderSet
      <4>2. holder[p] = Free
        BY <1>4, <1>6, <3>1, <3>6 DEF EngineInv, Kept
      <4>3. p \notin ports
        BY <1>4, <2>1, <3>1, <3>2, <3>6, <4>1 DEF EngineInv, Kept
      <4> QED BY <2>2, <4>1, <4>2, <4>3
    <3>7. \A x, y \in DOMAIN run : x # y /\ Listens(run'[x]) /\ Listens(run'[y])
            => run'[x].ports \cap run'[y].ports = {}
      BY <3>1, <3>3, <3>4 DEF EngineInv, Kept
    <3> QED BY <2>3, <3>3, <3>4, <3>5, <3>6, <3>7 DEF Kept, Settled
  <2> QED BY <1>8, <1>9, <2>1, <2>2, <2>4, <2>5
<1>10. ASSUME NEW ports \in WantedPorts(f, holder) \cup {f.ports},
              \A free \in WantedPorts(f, holder) : \E p \in free : holder[p] # Free,
              run' = [run EXCEPT ![id].ports = Opened(holder, ports)], UNCHANGED holder
       PROVE  EngineInv'
  <2>1. Opened(holder, ports) \subseteq Ports
    <3>1. ports \subseteq Ports
      BY <1>5, <1>10, Wanting
    <3> QED BY <3>1 DEF Opened
  <2>2. stolen
    <3>1. CASE Listens(f)
      BY <1>7, <1>10, <3>1
    <3>2. CASE ~Listens(f)
      BY <1>10, <3>2 DEF WantedPorts
    <3> QED BY <3>1, <3>2
  <2>3. /\ DOMAIN run' = DOMAIN run /\ \A x \in DOMAIN run : x # id => run'[x] = run[x]
    BY <1>10
  <2>4. Bound'
    <3>1. ASSUME NEW p \in Ports, NEW n \in 1 .. gen, holder[p] = Rule(n)
          PROVE  \E x \in DOMAIN run' \ PausedIds' : run'[x].gen = n /\ p \in run'[x].ports
      <4>1. PICK x \in DOMAIN run \ PausedIds : run[x].gen = n /\ p \in run[x].ports
        BY <1>6, <3>1 DEF EngineInv, Bound
      <4>2. x # id
        BY <1>4, <4>1
      <4> QED BY <1>4, <2>3, <4>1, <4>2
    <3> QED BY <1>1, <1>10, <3>1 DEF EngineInv, Bound
  <2>5. Kept'
    BY <1>1, <2>2 DEF Kept
  <2> QED BY <1>2, <1>8, <1>10, <2>1, <2>4, <2>5
<1> QED BY <1>9, <1>10 DEF Restart, id
---------------------------------------------------------------------------
\* The configuration takes effect: gateways move, and what is no longer there ends.
LEMMA Commits == ASSUME EngineInv, Commit PROVE EngineInv'
<1> DEFINE wants == apply.new.gates
           gone == {run[id].gen : id \in {x \in DOMAIN run :
                        ~(x \in DOMAIN apply.next /\ apply.next[x] = run[x])}}
           moved == {p \in Ports : \E k \in DOMAIN gates :
                        gates[k] = p /\ ~(k \in DOMAIN wants /\ wants[k] = p)}
           h1 == Give(holder, moved, Free)
           h2 == OpenGates(h1, wants)
<1>1. /\ apply.phase = "listen" /\ apply.todo = {} /\ configureGateways(wants)
      /\ holder' = Let(h2, {Rule(n) : n \in gone})
      /\ gates' = wants /\ run' = apply.next /\ streams' = streams \ gone
      /\ effective' = apply.new /\ apply' = NoApply /\ apply'.phase = "none"
      /\ UNCHANGED <<closed, gen, stolen>>
  BY DEF Commit, NoApply
<1>2. /\ WellGated(wants)
      /\ \A k, l \in DOMAIN wants : wants[k] = wants[l] => k = l
      /\ \A k \in DOMAIN wants : holder[wants[k]] = Free \/ (k \in DOMAIN gates /\ gates[k] = wants[k])
      /\ \A id \in DOMAIN apply.new.rules : apply.new.rules[id] \in ConfiguredRules
  <2>1. /\ \A k, l \in DOMAIN wants : wants[k] = wants[l] => k = l
        /\ \A k \in DOMAIN wants : holder[wants[k]] = Free \/ (k \in DOMAIN gates /\ gates[k] = wants[k])
    BY <1>1 DEF configureGateways
  <2> QED BY <1>1, <2>1 DEF EngineInv, EngineTypes, Working
<1>3. /\ \A p \in Ports, k \in GatewayKinds : holder[p] = Gate(k) => k \in DOMAIN gates /\ gates[k] = p
      /\ \A k \in DOMAIN gates : k \in GatewayKinds /\ gates[k] \in Ports /\ holder[gates[k]] = Gate(k)
  BY DEF EngineInv, Bound
<1>4. \A p \in Ports : /\ h1[p] = IF p \in moved THEN Free ELSE holder[p]
                       /\ holder'[p] = IF h2[p] \in {Rule(n) : n \in gone} THEN Free ELSE h2[p]
  <2>1. \A p \in Ports : h1[p] = IF p \in moved THEN Free ELSE holder[p]
    BY HolderFacts
  <2> HIDE DEF h2, gone
  <2>2. \A p \in Ports : holder'[p] = IF h2[p] \in {Rule(n) : n \in gone} THEN Free ELSE h2[p]
    BY <1>1, HolderFacts
  <2> QED BY <2>1, <2>2
<1>5. ASSUME NEW k \in DOMAIN wants PROVE wants[k] \in Ports /\ h2[wants[k]] = Gate(k)
  <2> DEFINE p == wants[k]
  <2>1. p \in Ports /\ (CHOOSE l \in DOMAIN wants : wants[l] = p) = k
    BY <1>2 DEF WellGated
  <2>2. h2[p] = IF \E l \in DOMAIN wants : wants[l] = p /\ (l \notin DOMAIN gates \/ gates[l] # p)
                THEN Gate(k) ELSE h1[p]
    BY <2>1 DEF OpenGates
  <2>3. CASE k \in DOMAIN gates /\ gates[k] = p
    <3>1. holder[p] = Gate(k)
      BY <1>3, <2>3
    <3>2. ASSUME p \in moved PROVE FALSE
      <4>1. PICK l \in DOMAIN gates : gates[l] = p /\ ~(l \in DOMAIN wants /\ wants[l] = p)
        BY <3>2
      <4>2. Gate(l) = Gate(k)
        BY <1>3, <3>1, <4>1
      <4> QED BY <4>1, <4>2, OwnersDiffer
    <3> QED BY <1>4, <2>1, <2>2, <3>1, <3>2
  <2>4. CASE ~(k \in DOMAIN gates /\ gates[k] = p)
    <3>1. \E l \in DOMAIN wants : wants[l] = p /\ (l \notin DOMAIN gates \/ gates[l] # p)
      BY <2>4
    <3> QED BY <2>1, <2>2, <3>1
  <2> QED BY <2>1, <2>3, <2>4
<1>6. ASSUME NEW p \in Ports, \A k \in DOMAIN wants : wants[k] # p
      PROVE  /\ h2[p] = IF p \in moved THEN Free ELSE holder[p]
             /\ \A k \in GatewayKinds : h2[p] # Gate(k)
  <2>1. h2[p] = IF p \in moved THEN Free ELSE holder[p]
    BY <1>4, <1>6 DEF OpenGates
  <2>2. ASSUME NEW k \in GatewayKinds, h2[p] = Gate(k) PROVE FALSE
    <3>1. p \notin moved /\ holder[p] = Gate(k)
      BY <2>1, <2>2, OwnersDiffer
    <3>2. k \in DOMAIN gates /\ gates[k] = p
      BY <1>3, <3>1
    <3> QED BY <1>6, <3>1, <3>2
  <2> QED BY <2>1, <2>2
<1>7. ASSUME NEW p \in moved PROVE \E k \in GatewayKinds : holder[p] = Gate(k)
  BY <1>3
<1> HIDE DEF wants, gone, moved, h1, h2
<1>8. \A p \in Ports, n \in 1 .. gen : holder'[p] = Rule(n) => holder[p] = Rule(n) /\ n \notin gone
  <2> SUFFICES ASSUME NEW p \in Ports, NEW n \in 1 .. gen, holder'[p] = Rule(n)
               PROVE  holder[p] = Rule(n) /\ n \notin gone
    OBVIOUS
  <2>1. h2[p] = Rule(n) /\ n \notin gone
    BY <1>4, OwnersDiffer
  <2>2. \A k \in DOMAIN wants : wants[k] # p
    BY <1>5, <2>1, OwnersDiffer
  <2> QED BY <1>6, <2>1, <2>2, OwnersDiffer
<1>9. \A p \in Ports, n \in 1 .. gen : holder[p] = Rule(n) /\ n \notin gone => holder'[p] = Rule(n)
  <2> SUFFICES ASSUME NEW p \in Ports, NEW n \in 1 .. gen, holder[p] = Rule(n), n \notin gone
               PROVE  holder'[p] = Rule(n)
    OBVIOUS
  <2>1. ASSUME NEW k \in DOMAIN wants, wants[k] = p PROVE FALSE
    <3>1. holder[p] # Free /\ holder[p] # Gate(k)
      BY OwnersDiffer
    <3> QED BY <1>2, <1>3, <2>1, <3>1
  <2>2. p \notin moved
    BY <1>7, OwnersDiffer
  <2>3. h2[p] = Rule(n)
    BY <1>6, <2>1, <2>2
  <2> QED BY <1>4, <2>3, OwnersDiffer
<1>10. \A k \in DOMAIN wants : wants[k] \in Ports /\ holder'[wants[k]] = Gate(k)
  BY <1>4, <1>5, OwnersDiffer
<1>11. \A p \in Ports, k \in GatewayKinds : holder'[p] = Gate(k) => k \in DOMAIN wants /\ wants[k] = p
  <2> SUFFICES ASSUME NEW p \in Ports, NEW k \in GatewayKinds, holder'[p] = Gate(k)
               PROVE  k \in DOMAIN wants /\ wants[k] = p
    OBVIOUS
  <2>1. h2[p] = Gate(k)
    BY <1>4, OwnersDiffer
  <2>2. PICK l \in DOMAIN wants : wants[l] = p
    BY <1>6, <2>1
  <2>3. Gate(l) = Gate(k)
    BY <1>5, <2>1, <2>2
  <2> QED BY <2>2, <2>3, OwnersDiffer
<1>12. /\ DOMAIN apply.next = {id \in DOMAIN apply.new.rules : apply.new.rules[id].on}
       /\ \A n \in apply.created : \E x \in DOMAIN apply.next : apply.next[x].gen = n
       /\ \A x, y \in DOMAIN apply.next : apply.next[x].gen = apply.next[y].gen => x = y
       /\ \A x \in DOMAIN apply.next :
            /\ apply.next[x] \in ForwarderSet /\ apply.next[x].rule = apply.new.rules[x]
            /\ ~Made(x) => x \in DOMAIN run /\ apply.next[x] = run[x] /\ x \notin PausedIds
            /\ Made(x) => /\ Held(Rule(apply.next[x].gen)) = apply.next[x].ports
                          /\ Listens(apply.next[x]) => Settled(apply.next[x])
  BY <1>1 DEF EngineInv, Progress
<1>13. \A x \in DOMAIN apply.next : apply.next[x].gen \notin gone
  <2> SUFFICES ASSUME NEW x \in DOMAIN apply.next, apply.next[x].gen \in gone PROVE FALSE
    OBVIOUS
  <2>1. PICK y \in DOMAIN run : /\ run[y].gen = apply.next[x].gen
                                /\ ~(y \in DOMAIN apply.next /\ apply.next[y] = run[y])
    BY DEF gone
  <2>2. run[y].gen \notin apply.created
    BY <1>1 DEF EngineInv, Numbered, Working
  <2>3. x \in DOMAIN run /\ apply.next[x] = run[x]
    BY <1>12, <2>1, <2>2 DEF Made
  <2>4. x = y
    BY <2>1, <2>3 DEF EngineInv, Numbered
  <2> QED BY <2>1, <2>3, <2>4
<1>14. ASSUME NEW p \in Ports, NEW n \in 1 .. gen, holder[p] = Rule(n), n \notin gone
       PROVE  \E x \in DOMAIN apply.next : apply.next[x].gen = n /\ p \in apply.next[x].ports
  <2>1. CASE n \in Created
    <3>1. n \in apply.created
      BY <1>1, <2>1 DEF Created
    <3>2. PICK x \in DOMAIN apply.next : apply.next[x].gen = n
      BY <1>12, <3>1
    <3>3. Held(Rule(n)) = apply.next[x].ports
      BY <1>12, <3>1, <3>2 DEF Made
    <3> QED BY <1>14, <3>2, <3>3 DEF Held
  <2>2. CASE \E id \in DOMAIN run \ PausedIds : run[id].gen = n /\ p \in run[id].ports
    <3>1. PICK id \in DOMAIN run : run[id].gen = n /\ p \in run[id].ports
      BY <2>2
    <3>2. id \in DOMAIN apply.next /\ apply.next[id] = run[id]
      BY <1>14, <3>1 DEF gone
    <3> QED BY <3>1, <3>2
  <2> QED BY <1>14, <2>1, <2>2 DEF EngineInv, Bound
<1>15. ASSUME NEW x \in DOMAIN apply.next, Listens(apply.next[x]), ~stolen
       PROVE  /\ Settled(apply.next[x])
              /\ \A p \in apply.next[x].ports : p \in Ports /\ holder'[p] = Rule(apply.next[x].gen)
  <2>1. apply.next[x].gen \in 1 .. gen /\ apply.next[x].ports \subseteq Ports
    BY <1>12 DEF ForwarderSet
  <2>2. Settled(apply.next[x]) /\ \A p \in apply.next[x].ports : holder[p] = Rule(apply.next[x].gen)
    <3>1. CASE Made(x)
      BY <1>12, <1>15, <3>1 DEF Held
    <3>2. CASE ~Made(x)
      <4>1. x \in DOMAIN run /\ apply.next[x] = run[x] /\ x \notin PausedIds
        BY <1>12, <3>2
      <4> QED BY <1>15, <4>1 DEF EngineInv, Kept
    <3> QED BY <3>1, <3>2
  <2> QED BY <1>9, <1>13, <2>1, <2>2
<1>16. PausedIds' = {} /\ Created' = {}
  BY <1>1 DEF PausedIds, Created
<1>17. EngineTypes'
  <2>1. ASSUME NEW p \in Ports PROVE holder'[p] \in Owners
    <3>1. CASE \E k \in DOMAIN wants : wants[k] = p
      BY <1>2, <1>10, <3>1 DEF Owners, WellGated
    <3>2. CASE \A k \in DOMAIN wants : wants[k] # p
      <4>1. h2[p] = Free \/ h2[p] = holder[p]
        BY <1>6, <3>2
      <4>2. holder[p] \in Owners /\ Free \in Owners
        BY DEF EngineInv, EngineTypes, Owners
      <4> QED BY <1>4, <4>1, <4>2
    <3> QED BY <3>1, <3>2
  <2>2. holder' \in [Ports -> Owners]
    BY <1>1, <2>1, HolderFacts DEF Let
  <2>3. Owners' = Owners /\ ForwarderSet' = ForwarderSet
    BY <1>1 DEF Owners, ForwarderSet
  <2>4. \A id \in DOMAIN run' : run'[id] \in ForwarderSet
    BY <1>1, <1>12
  <2>5. WellGated(effective'.gates) /\ \A id \in DOMAIN effective'.rules : effective'.rules[id] \in ConfiguredRules
    BY <1>1, <1>2 DEF wants
  <2>6. streams' \subseteq 1 .. gen' /\ gen' \in Nat /\ stolen' \in BOOLEAN
    BY <1>1 DEF EngineInv, EngineTypes
  <2> QED BY <1>1, <2>2, <2>3, <2>4, <2>5, <2>6 DEF EngineTypes, Working
<1>18. Numbered'
  BY <1>1, <1>12 DEF Numbered, Working
<1>19. Bound'
  <2>1. \A p \in Ports, n \in 1 .. gen' : holder'[p] = Rule(n) =>
          \E x \in DOMAIN run' \ PausedIds' : run'[x].gen = n /\ p \in run'[x].ports
    BY <1>1, <1>8, <1>14, <1>16
  <2>2. \A k \in DOMAIN gates' : k \in GatewayKinds /\ gates'[k] \in Ports /\ holder'[gates'[k]] = Gate(k)
    BY <1>1, <1>2, <1>10 DEF WellGated
  <2> QED BY <1>1, <1>11, <2>1, <2>2 DEF Bound
<1>20. Kept'
  <2>1. SUFFICES ASSUME ~stolen PROVE Kept'
    BY <1>1 DEF Kept
  <2>2. ASSUME NEW x \in DOMAIN apply.next, NEW y \in DOMAIN apply.next, x # y,
               Listens(apply.next[x]), Listens(apply.next[y]), NEW p \in apply.next[x].ports \cap apply.next[y].ports
        PROVE  FALSE
    <3>1. Rule(apply.next[x].gen) = Rule(apply.next[y].gen)
      BY <1>15, <2>1, <2>2
    <3> QED BY <1>12, <2>2, <3>1, OwnersDiffer
  <2> QED BY <1>1, <1>15, <1>16, <2>1, <2>2 DEF Kept, Settled, Listens
<1>21. RunsConfigured' /\ Progress' /\ Caused'
  BY <1>1, <1>12 DEF RunsConfigured, Progress, Caused
<1> QED BY <1>17, <1>18, <1>19, <1>20, <1>21 DEF EngineInv
---------------------------------------------------------------------------
LEMMA EngineStep == ASSUME EngineInv, [NextEngine]_engineVars PROVE EngineInv'
<1>1. CASE UNCHANGED engineVars
  BY <1>1, Unmoved DEF engineVars, EngineInv, EngineTypes
<1>2. ASSUME NEW cfg \in Configs, Begin(cfg) \/ Disable(cfg) PROVE EngineInv'
  BY <1>2, Begins, Disables
<1>3. CASE Refuse
  BY <1>3, Unmoved DEF Refuse, EngineInv, EngineTypes
<1>4. CASE ListenNext
  <2>1. PICK id \in apply.todo :
          \/ KeepRule(id) \/ CannotListen(id)
          \/ \E ports \in WantedPorts(NewForwarder(id), Stopped(id)) : ListenOn(id, ports)
    BY <1>4 DEF ListenNext
  <2>2. apply.phase = "listen" /\ UNCHANGED <<run, gates, effective, closed, streams, stolen>>
    BY <1>4 DEF ListenNext
  <2> QED BY <2>1, <2>2, Keeps, Refused, Listened
<1>5. CASE Commit \/ GatesFail
  BY <1>5, Commits, GatesRefused
<1>6. CASE CloseCreated \/ Restart \/ GiveUp
  BY <1>6, ClosesCreated, Restarts, GivesUp
<1>7. CASE CloseEngine
  BY <1>7, Closes
<1>8. ASSUME NEW p \in Ports, TakePort(p) \/ LeavePort(p) PROVE EngineInv'
  BY <1>8, Takes, Leaves
<1>9. ASSUME NEW n \in 1 .. gen, Connect(n) \/ Hangup(n) PROVE EngineInv'
  BY <1>9, Unmoved DEF Connect, Hangup, EngineInv, EngineTypes
<1> QED BY <1>1, <1>2, <1>3, <1>4, <1>5, <1>6, <1>7, <1>8, <1>9 DEF NextEngine, ApplyStep, Outside

\* What the invariant says of sockets and rules between two Apply.
LEMMA EngineSound == ASSUME EngineInv PROVE TypeEngine /\ SocketsMatch /\ RunsEffective
<1>1. TypeEngine
  BY DEF EngineInv, EngineTypes, ForwarderSet, Owners, TypeEngine
<1>2. RunsEffective
  BY DEF EngineInv, RunsConfigured, RunsEffective
<1>3. SocketsMatch
  <2> SUFFICES ASSUME apply = NoApply PROVE SocketsMatch
    BY DEF SocketsMatch
  <2>1. PausedIds = {} /\ Created = {}
    BY DEF NoApply, PausedIds, Created
  <2>2. ASSUME NEW p \in Ports
        PROVE  \/ holder[p] \in {Free, Other}
               \/ \E id \in DOMAIN run : holder[p] = Rule(run[id].gen) /\ p \in run[id].ports
               \/ \E k \in DOMAIN gates : holder[p] = Gate(k) /\ gates[k] = p
    <3>1. holder[p] \in Owners
      BY DEF EngineInv, EngineTypes
    <3>2. ASSUME NEW n \in 1 .. gen, holder[p] = Rule(n)
          PROVE  \E id \in DOMAIN run : holder[p] = Rule(run[id].gen) /\ p \in run[id].ports
      BY <2>1, <3>2 DEF EngineInv, Bound
    <3>3. ASSUME NEW k \in GatewayKinds, holder[p] = Gate(k)
          PROVE  k \in DOMAIN gates /\ gates[k] = p
      BY <3>3 DEF EngineInv, Bound
    <3> QED BY <3>1, <3>2, <3>3 DEF Owners
  <2>3. \A k \in DOMAIN gates : holder[gates[k]] = Gate(k)
    BY DEF EngineInv, Bound
  <2>4. ASSUME ~stolen, NEW id \in DOMAIN run, Listens(run[id])
        PROVE  Held(Rule(run[id].gen)) = run[id].ports /\ run[id].ports # {}
    <3>1. /\ run[id].ports # {} /\ run[id].ports \subseteq Ports /\ run[id].gen \in 1 .. gen
          /\ \A p \in run[id].ports : holder[p] = Rule(run[id].gen)
      BY <2>1, <2>4 DEF EngineInv, EngineTypes, ForwarderSet, Kept, Settled
    <3>2. ASSUME NEW p \in Ports, holder[p] = Rule(run[id].gen) PROVE p \in run[id].ports
      <4>1. PICK x \in DOMAIN run : run[x].gen = run[id].gen /\ p \in run[x].ports
        BY <2>1, <3>1, <3>2 DEF EngineInv, Bound
      <4> QED BY <4>1 DEF EngineInv, Numbered
    <3> QED BY <3>1, <3>2 DEF Held
  <2> QED BY <2>2, <2>3, <2>4 DEF SocketsMatch
<1> QED BY <1>1, <1>2, <1>3

\* What a step may cut.
CutsForCause ==
  \A n \in streams \ streams' : n \in Forwarders =>
     \/ n \notin {run'[id].gen : id \in DOMAIN run'}
     \/ UNCHANGED <<holder, run, apply>>

LEMMA Cuts == ASSUME EngineInv, [NextEngine]_engineVars PROVE CutsForCause
<1>1. CASE UNCHANGED streams
  BY <1>1 DEF CutsForCause
<1>2. CASE DOMAIN run' = {}
  BY <1>2 DEF CutsForCause
<1>3. CASE Commit
  <2> DEFINE gone == {run[id].gen : id \in {x \in DOMAIN run :
                          ~(x \in DOMAIN apply.next /\ apply.next[x] = run[x])}}
  <2>1. apply.phase = "listen" /\ apply.todo = {} /\ streams' = streams \ gone /\ run' = apply.next
    BY <1>3 DEF Commit
  <2>2. ASSUME NEW x \in DOMAIN apply.next, apply.next[x].gen \in gone PROVE FALSE
    <3>1. PICK y \in DOMAIN run : /\ run[y].gen = apply.next[x].gen
                                  /\ ~(y \in DOMAIN apply.next /\ apply.next[y] = run[y])
      BY <2>2
    <3>2. run[y].gen \notin apply.created
      BY <2>1 DEF EngineInv, Numbered, Working
    <3>3. x \in DOMAIN run /\ apply.next[x] = run[x]
      BY <2>1, <3>1, <3>2 DEF EngineInv, Progress, Made
    <3>4. x = y
      BY <3>1, <3>3 DEF EngineInv, Numbered
    <3> QED BY <3>1, <3>3, <3>4
  <2> QED BY <2>1, <2>2 DEF CutsForCause
<1>4. CASE CloseCreated
  <2>1. apply.phase \in Working /\ streams' = streams \ apply.created
    BY <1>4 DEF CloseCreated, Working
  <2> QED BY <2>1 DEF EngineInv, Numbered, CutsForCause, Forwarders
<1>5. ASSUME NEW n, Hangup(n) PROVE CutsForCause
  BY <1>5 DEF Hangup, CutsForCause
<1>6. ASSUME NEW n, Connect(n) PROVE CutsForCause
  BY <1>6 DEF Connect, CutsForCause
<1>7. ASSUME NEW cfg \in Configs, Begin(cfg) \/ Disable(cfg) PROVE UNCHANGED streams \/ DOMAIN run' = {}
  BY <1>7 DEF Begin, Disable
<1>8. CASE Refuse \/ ListenNext \/ GatesFail \/ Restart \/ GiveUp
  BY <1>1, <1>8 DEF Refuse, ListenNext, GatesFail, Restart, GiveUp
<1>9. CASE CloseEngine
  BY <1>2, <1>9 DEF CloseEngine
<1>10. ASSUME NEW p \in Ports, TakePort(p) \/ LeavePort(p) PROVE UNCHANGED streams
  BY <1>10 DEF TakePort, LeavePort
<1>11. CASE UNCHANGED engineVars
  BY <1>1, <1>11 DEF engineVars
<1> QED BY <1>1, <1>2, <1>3, <1>4, <1>5, <1>6, <1>7, <1>8, <1>9, <1>10, <1>11
        DEF NextEngine, ApplyStep, Outside

\* A configuration takes effect on a node as a whole or not at all: between two Apply
\* the sockets bound are exactly those of the rules and gateways in force, no
\* stream of a rule that stays is cut, and a refusal has its cause in a port.
THEOREM AppliesWhole == EngineSpec => EngineFaithful
<1>1. InitEngine => EngineInv
  BY EngineInit
<1>2. EngineInv /\ [NextEngine]_engineVars => EngineInv'
  BY EngineStep
<1>3. EngineInv => TypeEngine /\ SocketsMatch /\ RunsEffective
  BY EngineSound
<1>4. EngineInv /\ [NextEngine]_engineVars =>
        [\A n \in streams \ streams' : n \in Forwarders =>
           \/ n \notin {run'[id].gen : id \in DOMAIN run'}
           \/ UNCHANGED <<holder, run, apply>>]_engineVars
  BY Cuts DEF CutsForCause
<1>5. EngineInv => [apply.phase = "restore" /\ apply' = NoApply => Clash]_engineVars
  BY DEF EngineInv, Caused
<1> QED BY <1>1, <1>2, <1>3, <1>4, <1>5, PTL DEF EngineSpec, EngineFaithful, StreamsSurvive, RefusedForCause

---------------------------------------------------------------------------
\* NodeUpgrade.

LockHeld ==
  /\ \A w \in Watchdogs : unit[w] \in {"restore", "save"} => lock = w /\ marker # NoMarker
  /\ \A w \in Watchdogs : unit[w] = "restore" => prev \in Releases
  /\ upgrade.pc \in {"backup", "mark"} => lock = Node
  /\ upgrade.pc = "mark" => prev \in Releases
  /\ upgrade.pc # "none" => up /\ upgrade.new \in Releases

Orderly == "torn" \notin Faults /\ "stall" \notin Faults /\ "overlap" \notin Faults

Alone ==
  /\ \A w, u \in Watchdogs : unit[w] # "none" /\ unit[u] # "none" => w = u
  /\ upgrade.pc \in {"backup", "mark", "launch"} => \A w \in Watchdogs : unit[w] = "none"

Early ==
  /\ upgrade.pc \in {"backup", "mark"} => marker = NoMarker
  /\ upgrade.pc = "mark" => prev = exe
  /\ upgrade.pc \in {"backup", "mark", "launch", "install", "stop"} => proven /\ ver = exe
  /\ upgrade.pc \in {"launch", "install", "stop"} =>
       IF marker = NoMarker
         THEN upgrade.new = exe \/ upgrade.pc = "stop"
         ELSE /\ marker.new = upgrade.new /\ prev = marker.old
              /\ ~marker.expired /\ ~marker.rolledBack

Watched ==
  \A w \in Watchdogs :
    /\ unit[w] \in {"restore", "save", "restart", "remove"} => marker # NoMarker /\ marker.expired
    /\ unit[w] = "restore" => exe = marker.new /\ ~marker.rolledBack /\ prev = marker.old
    /\ unit[w] = "save" => proven
    /\ unit[w] \in {"restart", "remove"} => marker.rolledBack
    /\ unit[w] = "remove" /\ up => ver = exe

MarkerTrue == marker # NoMarker /\ proven => exe = marker.old

Running ==
  up /\ ver # exe => /\ marker # NoMarker
                     /\ ~proven \/ marker.rolledBack \/ \E w \in Watchdogs : unit[w] = "save"

Stages == {"none", "backup", "mark", "launch", "install", "stop", "restart"}

Upgrades == [pc : Stages, new : Releases \cup {NoRelease}]

TInv == TypeOK /\ LockHeld
IInv == TypeOK /\ LockHeld /\ Guarded /\ Alone /\ Early /\ Watched /\ MarkerTrue /\ Running

USE NodeUpgradeAssumption
USE DEF vars, diskVars, nodeVars, Stages

LEMMA InitIInv == Init => IInv
<1> SUFFICES ASSUME Init PROVE IInv
  OBVIOUS
<1>1. TypeOK
  <2>1. NoUpgrade \in Upgrades /\ 0 \in 0 .. MaxUpgrades /\ 0 \in 0 .. MaxFaults
    BY DEF NoUpgrade, Upgrades
  <2> QED
    BY <2>1 DEF Init, TypeOK, Upgrades
<1>2. LockHeld /\ Guarded /\ Alone /\ Early /\ Watched /\ MarkerTrue /\ Running
  BY DEF Init, LockHeld, Guarded, Alone, Early, Watched, MarkerTrue, Running, NoUpgrade
<1> QED
  BY <1>1, <1>2 DEF IInv

LEMMA StepTypes ==
  ASSUME TypeOK
  PROVE  /\ NoUpgrade \in Upgrades
         /\ \A pc \in Stages : [upgrade EXCEPT !.pc = pc] \in Upgrades
         /\ \A kind : Fault(kind) => faults' \in 0 .. MaxFaults
         /\ marker # NoMarker => [marker EXCEPT !.rolledBack = TRUE] \in Markers
<1>1. NoUpgrade \in Upgrades
  BY DEF NoUpgrade, Upgrades, Stages
<1>2. \A pc \in Stages : [upgrade EXCEPT !.pc = pc] \in Upgrades
  BY DEF TypeOK, Upgrades, Stages
<1>3. ASSUME NEW kind, Fault(kind) PROVE faults' \in 0 .. MaxFaults
  BY <1>3 DEF Fault, TypeOK
<1>4. marker # NoMarker => [marker EXCEPT !.rolledBack = TRUE] \in Markers
  BY DEF TypeOK, Markers
<1> QED
  BY <1>1, <1>2, <1>3, <1>4

LEMMA TypeStep ==
  TInv /\ [Next]_vars => TypeOK'
<1> SUFFICES ASSUME TypeOK, LockHeld, [Next]_vars
             PROVE  TypeOK'
  BY DEF TInv
<1>1. CASE UNCHANGED vars
  BY <1>1 DEF TypeOK, LockHeld
<1>2. ASSUME NEW r \in Releases, begin(r) PROVE TypeOK'
  BY <1>2 DEF begin, At, Acquire, TypeOK, LockHeld
<1>3. ASSUME backupExecutable PROVE TypeOK'
  BY <1>3 DEF backupExecutable, At, Goto, Release, Fault, NoUpgrade, TypeOK, LockHeld
<1>4. ASSUME saveUpgradeMarker PROVE TypeOK'
  <2> DEFINE m == [new |-> upgrade.new, old |-> prev, expired |-> FALSE, rolledBack |-> FALSE]
  <2>1. m \in Markers
    BY <1>4 DEF saveUpgradeMarker, At, LockHeld, TypeOK, Markers
  <2>2. marker' \in {marker, m} /\ faults' \in 0 .. MaxFaults
    BY <1>4, StepTypes DEF saveUpgradeMarker, Saved, NotSaved, TypeOK
  <2>3. upgrade' \in Upgrades
    BY <1>4, StepTypes DEF saveUpgradeMarker, Goto
  <2> QED
    BY <1>4, <2>1, <2>2, <2>3 DEF saveUpgradeMarker, Release, TypeOK, Upgrades
<1>5. ASSUME launch PROVE TypeOK'
  BY <1>5 DEF launch, At, Goto, Fault, TypeOK, LockHeld
<1>6. ASSUME stopWatchdog PROVE TypeOK'
  BY <1>6 DEF stopWatchdog, At, Locked, NoUpgrade, TypeOK, LockHeld
<1>7. ASSUME install PROVE TypeOK'
  <2>1. upgrade' \in Upgrades /\ faults' \in 0 .. MaxFaults
    BY <1>7, StepTypes DEF install, Goto, TypeOK
  <2>2. exe' \in Releases /\ proven' \in BOOLEAN
    BY <1>7 DEF install, At, LockHeld, TypeOK
  <2> QED
    BY <1>7, <2>1, <2>2 DEF install, TypeOK, Upgrades
<1>8. ASSUME restart PROVE TypeOK'
  <2>1. upgrade' \in Upgrades /\ faults' \in 0 .. MaxFaults
    BY <1>8, StepTypes DEF restart, TypeOK
  <2> QED
    BY <1>8, <2>1 DEF restart, TypeOK, Upgrades
<1>9. ASSUME Start PROVE TypeOK'
  BY <1>9 DEF Start, TypeOK, LockHeld
<1>10. ASSUME Crash PROVE TypeOK'
  <2>1. upgrade' \in Upgrades /\ faults' \in 0 .. MaxFaults
    BY <1>10, StepTypes DEF Crash, Stop, TypeOK
  <2> QED
    BY <1>10, <2>1 DEF Crash, Stop, TypeOK, Upgrades
<1>11. ASSUME register PROVE TypeOK'
  BY <1>11 DEF register, Confirms, TypeOK, LockHeld
<1>12. ASSUME unregister PROVE TypeOK'
  BY <1>12 DEF unregister, TypeOK, LockHeld
<1>13. ASSUME Expire PROVE TypeOK'
  BY <1>13 DEF Expire, Markers, TypeOK, LockHeld
<1>14. ASSUME Reboot PROVE TypeOK'
  <2>1. upgrade' \in Upgrades /\ faults' \in 0 .. MaxFaults
    BY <1>14, StepTypes DEF Reboot, Stop, TypeOK
  <2> QED
    BY <1>14, <2>1 DEF Reboot, Stop, TypeOK, Upgrades
<1>15. ASSUME NEW w \in Watchdogs, finished(w) PROVE TypeOK'
  BY <1>15 DEF finished, Locked, Step, TypeOK, LockHeld
<1>16. ASSUME NEW w \in Watchdogs, recoverUpgrade(w) PROVE TypeOK'
  BY <1>16 DEF recoverUpgrade, Locked, Step, Acquire, Restorable, Restored, TypeOK, LockHeld
<1>17. ASSUME NEW w \in Watchdogs, restore(w) PROVE TypeOK'
  BY <1>17 DEF restore, Step, TypeOK, LockHeld
<1>18. ASSUME NEW w \in Watchdogs, saveRolledBack(w) PROVE TypeOK'
  <2>1. marker # NoMarker
    BY <1>18 DEF saveRolledBack, Step, LockHeld
  <2>2. marker' \in {marker, [marker EXCEPT !.rolledBack = TRUE]} /\ faults' \in 0 .. MaxFaults
    BY <1>18, StepTypes DEF saveRolledBack, Saved, NotSaved, TypeOK
  <2> QED
    BY ZenonT(30), <1>18, <2>1, <2>2, StepTypes DEF saveRolledBack, Release, Step, TypeOK
<1>19. ASSUME NEW w \in Watchdogs, restartService(w) PROVE TypeOK'
  <2>1. upgrade' \in Upgrades /\ faults' \in 0 .. MaxFaults
    BY <1>19, StepTypes DEF restartService, TypeOK, Upgrades, Stages
  <2> QED
    BY <1>19, <2>1 DEF restartService, Step, TypeOK, Upgrades
<1>20. ASSUME NEW w \in Watchdogs, removeMarker(w) PROVE TypeOK'
  BY <1>20 DEF removeMarker, Locked, Step, NotSaved, Fault, TypeOK, LockHeld
<1>21. ASSUME NEW w \in Watchdogs, Revive(w) PROVE TypeOK'
  BY <1>21 DEF Revive, Step, TypeOK, LockHeld
<1>22. ASSUME NEW w \in Watchdogs, Kill(w) PROVE TypeOK'
  BY <1>22 DEF Kill, Fault, TypeOK, LockHeld
<1> QED
  BY <1>1, <1>2, <1>3, <1>4, <1>5, <1>6, <1>7, <1>8, <1>9, <1>10, <1>11, <1>12, <1>13, <1>14,
     <1>15, <1>16, <1>17, <1>18, <1>19, <1>20, <1>21, <1>22 DEF Next, Install, Watchdog

LEMMA HeldStep ==
  TInv /\ [Next]_vars => LockHeld'
<1> SUFFICES ASSUME TypeOK, LockHeld, [Next]_vars
             PROVE  LockHeld'
  BY DEF TInv
<1>1. CASE UNCHANGED vars
  BY <1>1 DEF TypeOK, LockHeld
<1>2. ASSUME NEW r \in Releases, begin(r) PROVE LockHeld'
  BY <1>2 DEF begin, At, Acquire, TypeOK, LockHeld
<1>3. ASSUME backupExecutable PROVE LockHeld'
  BY <1>3 DEF backupExecutable, At, Goto, Release, Fault, NoUpgrade, TypeOK, LockHeld
<1>4. ASSUME saveUpgradeMarker PROVE LockHeld'
  BY <1>4 DEF saveUpgradeMarker, At, Release, Saved, NotSaved, Fault, Goto, NoUpgrade, Markers,
     TypeOK, LockHeld
<1>5. ASSUME launch PROVE LockHeld'
  BY <1>5 DEF launch, At, Goto, Fault, TypeOK, LockHeld
<1>6. ASSUME stopWatchdog PROVE LockHeld'
  BY <1>6 DEF stopWatchdog, At, Locked, NoUpgrade, TypeOK, LockHeld
<1>7. ASSUME install PROVE LockHeld'
  BY <1>7 DEF install, At, Goto, Fault, NoUpgrade, TypeOK, LockHeld
<1>8. ASSUME restart PROVE LockHeld'
  BY <1>8 DEF restart, At, Fault, NoUpgrade, TypeOK, LockHeld
<1>9. ASSUME Start PROVE LockHeld'
  BY <1>9 DEF Start, TypeOK, LockHeld
<1>10. ASSUME Crash PROVE LockHeld'
  BY <1>10 DEF Crash, Fault, Stop, NoUpgrade, TypeOK, LockHeld
<1>11. ASSUME register PROVE LockHeld'
  BY <1>11 DEF register, Confirms, TypeOK, LockHeld
<1>12. ASSUME unregister PROVE LockHeld'
  BY <1>12 DEF unregister, TypeOK, LockHeld
<1>13. ASSUME Expire PROVE LockHeld'
  BY <1>13 DEF Expire, Markers, TypeOK, LockHeld
<1>14. ASSUME Reboot PROVE LockHeld'
  BY <1>14 DEF Reboot, Fault, Stop, NoUpgrade, TypeOK, LockHeld
<1>15. ASSUME NEW w \in Watchdogs, finished(w) PROVE LockHeld'
  BY <1>15 DEF finished, Locked, Step, TypeOK, LockHeld
<1>16. ASSUME NEW w \in Watchdogs, recoverUpgrade(w) PROVE LockHeld'
  <2>1. /\ UNCHANGED <<marker, prev, upgrade, up>> /\ marker # NoMarker /\ lock = NoOne
        /\ \A u \in Watchdogs \ {w} : unit'[u] = unit[u]
    BY <1>16 DEF recoverUpgrade, Locked, Acquire, Step, TypeOK
  <2>2. unit'[w] = "failed" \/ (unit'[w] \in {"restore", "save"} /\ lock' = w)
    BY <1>16 DEF recoverUpgrade, Acquire, Step, TypeOK
  <2>3. unit'[w] = "restore" => prev = marker.old
    BY <1>16 DEF recoverUpgrade, Acquire, Locked, Step, TypeOK, Restorable
  <2>4. marker.old \in Releases
    BY <2>1 DEF TypeOK, Markers
  <2>5. \A u \in Watchdogs : unit[u] \notin {"restore", "save"}
    BY <2>1 DEF LockHeld
  <2> QED
    BY <2>1, <2>2, <2>3, <2>4, <2>5 DEF LockHeld
<1>17. ASSUME NEW w \in Watchdogs, restore(w) PROVE LockHeld'
  BY <1>17 DEF restore, Step, TypeOK, LockHeld
<1>18. ASSUME NEW w \in Watchdogs, saveRolledBack(w) PROVE LockHeld'
  BY <1>18 DEF saveRolledBack, Release, Saved, NotSaved, Step, Fault, Markers, TypeOK, LockHeld
<1>19. ASSUME NEW w \in Watchdogs, restartService(w) PROVE LockHeld'
  BY <1>19 DEF restartService, Step, Fault, NoUpgrade, TypeOK, LockHeld
<1>20. ASSUME NEW w \in Watchdogs, removeMarker(w) PROVE LockHeld'
  BY <1>20 DEF removeMarker, Locked, Step, NotSaved, Fault, TypeOK, LockHeld
<1>21. ASSUME NEW w \in Watchdogs, Revive(w) PROVE LockHeld'
  BY <1>21 DEF Revive, Step, TypeOK, LockHeld
<1>22. ASSUME NEW w \in Watchdogs, Kill(w) PROVE LockHeld'
  BY <1>22 DEF Kill, Fault, TypeOK, LockHeld
<1> QED
  BY <1>1, <1>2, <1>3, <1>4, <1>5, <1>6, <1>7, <1>8, <1>9, <1>10, <1>11, <1>12, <1>13, <1>14,
     <1>15, <1>16, <1>17, <1>18, <1>19, <1>20, <1>21, <1>22 DEF Next, Install, Watchdog

LEMMA GuardedStep ==
  ASSUME Orderly
  PROVE  IInv /\ [Next]_vars => Guarded'
<1> SUFFICES ASSUME TypeOK, LockHeld, Guarded, Alone, Early, Watched, MarkerTrue, Running, [Next]_vars
             PROVE  Guarded'
  BY DEF IInv
<1>1. CASE UNCHANGED vars
  BY <1>1 DEF TypeOK, LockHeld, Guarded, Early, Watched, Orderly
<1>2. ASSUME NEW r \in Releases, begin(r) PROVE Guarded'
  BY <1>2 DEF begin, At, Acquire, TypeOK, LockHeld, Guarded, Early, Watched, Orderly
<1>3. ASSUME backupExecutable PROVE Guarded'
  BY <1>3 DEF backupExecutable, At, Goto, TypeOK, LockHeld, Guarded, Early, Watched, Orderly
<1>4. ASSUME saveUpgradeMarker PROVE Guarded'
  BY <1>4 DEF saveUpgradeMarker, At, Release, Saved, NotSaved, Fault, Goto, NoUpgrade, Markers,
     TypeOK, LockHeld, Guarded, Early, Watched, Orderly
<1>5. ASSUME launch PROVE Guarded'
  BY <1>5 DEF launch, At, Goto, Fault, TypeOK, LockHeld, Guarded, Early, Watched, Orderly
<1>6. ASSUME stopWatchdog PROVE Guarded'
  BY <1>6 DEF stopWatchdog, At, Locked, NoUpgrade, TypeOK, LockHeld, Guarded, Early, Watched, Orderly
<1>7. ASSUME install PROVE Guarded'
  BY <1>7 DEF install, At, Goto, Fault, NoUpgrade, TypeOK, LockHeld, Guarded, Early, Watched, Orderly
<1>8. ASSUME restart PROVE Guarded'
  BY <1>8 DEF restart, At, Fault, NoUpgrade, TypeOK, LockHeld, Guarded, Early, Watched, Orderly
<1>9. ASSUME Start PROVE Guarded'
  BY <1>9 DEF Start, TypeOK, LockHeld, Guarded, Early, Watched, Orderly
<1>10. ASSUME Crash PROVE Guarded'
  BY <1>10 DEF Crash, Fault, Stop, NoUpgrade, TypeOK, LockHeld, Guarded, Early, Watched, Orderly
<1>11. ASSUME register PROVE Guarded'
  BY <1>11 DEF register, Confirms, TypeOK, LockHeld, Guarded, Early, Watched, Orderly
<1>12. ASSUME unregister PROVE Guarded'
  BY <1>12 DEF unregister, TypeOK, LockHeld, Guarded, Early, Watched, Orderly
<1>13. ASSUME Expire PROVE Guarded'
  BY <1>13 DEF Expire, Markers, TypeOK, LockHeld, Guarded, Early, Watched, Orderly
<1>14. ASSUME Reboot PROVE Guarded'
  BY <1>14 DEF Reboot, Fault, Stop, NoUpgrade, TypeOK, LockHeld, Guarded, Early, Watched, Orderly
<1>15. ASSUME NEW w \in Watchdogs, finished(w) PROVE Guarded'
  BY <1>15 DEF finished, Locked, Step, TypeOK, LockHeld, Guarded, Early, Watched, Orderly
<1>16. ASSUME NEW w \in Watchdogs, recoverUpgrade(w) PROVE Guarded'
  BY <1>16 DEF recoverUpgrade, Locked, Step, Acquire, Restorable, Restored, TypeOK, LockHeld,
     Guarded, Early, Watched, Orderly
<1>17. ASSUME NEW w \in Watchdogs, restore(w) PROVE Guarded'
  BY <1>17 DEF restore, Step, TypeOK, LockHeld, Guarded, Early, Watched, Orderly
<1>18. ASSUME NEW w \in Watchdogs, saveRolledBack(w) PROVE Guarded'
  BY <1>18 DEF saveRolledBack, Release, Saved, NotSaved, Step, Fault, Markers, TypeOK, LockHeld,
     Guarded, Early, Watched, Orderly
<1>19. ASSUME NEW w \in Watchdogs, restartService(w) PROVE Guarded'
  BY <1>19 DEF restartService, Step, Fault, NoUpgrade, TypeOK, LockHeld, Guarded, Early, Watched,
     Orderly
<1>20. ASSUME NEW w \in Watchdogs, removeMarker(w) PROVE Guarded'
  BY <1>20 DEF removeMarker, Locked, Step, NotSaved, Fault, TypeOK, LockHeld, Guarded, Early,
     Watched, Orderly
<1>21. ASSUME NEW w \in Watchdogs, Revive(w) PROVE Guarded'
  BY <1>21 DEF Revive, Step, TypeOK, LockHeld, Guarded, Early, Watched, Orderly
<1>22. ASSUME NEW w \in Watchdogs, Kill(w) PROVE Guarded'
  BY <1>22 DEF Kill, Fault, TypeOK, LockHeld, Guarded, Early, Watched, Orderly
<1> QED
  BY <1>1, <1>2, <1>3, <1>4, <1>5, <1>6, <1>7, <1>8, <1>9, <1>10, <1>11, <1>12, <1>13, <1>14,
     <1>15, <1>16, <1>17, <1>18, <1>19, <1>20, <1>21, <1>22 DEF Next, Install, Watchdog

LEMMA AloneStep ==
  ASSUME Orderly
  PROVE  IInv /\ [Next]_vars => Alone'
<1> SUFFICES ASSUME TypeOK, LockHeld, Guarded, Alone, Early, Watched, MarkerTrue, Running, [Next]_vars
             PROVE  Alone'
  BY DEF IInv
<1>1. CASE UNCHANGED vars
  BY <1>1 DEF TypeOK, LockHeld, Alone, Early, Orderly
<1>2. ASSUME NEW r \in Releases, begin(r) PROVE Alone'
  BY <1>2 DEF begin, At, Acquire, TypeOK, LockHeld, Alone, Early, Orderly
<1>3. ASSUME backupExecutable PROVE Alone'
  BY <1>3 DEF backupExecutable, At, Goto, TypeOK, LockHeld, Alone, Early, Orderly
<1>4. ASSUME saveUpgradeMarker PROVE Alone'
  BY <1>4 DEF saveUpgradeMarker, At, Release, Saved, NotSaved, Fault, Goto, NoUpgrade, Markers,
     TypeOK, LockHeld, Alone, Early, Orderly
<1>5. ASSUME launch PROVE Alone'
  BY <1>5 DEF launch, At, Goto, Fault, TypeOK, LockHeld, Alone, Early, Orderly
<1>6. ASSUME stopWatchdog PROVE Alone'
  BY <1>6 DEF stopWatchdog, At, Locked, NoUpgrade, TypeOK, LockHeld, Alone, Early, Orderly
<1>7. ASSUME install PROVE Alone'
  <2>1. unit' = unit /\ upgrade'.pc \in {"restart", "stop", "none"}
    BY <1>7, StepTypes DEF install, Goto, NoUpgrade, TypeOK
  <2> QED
    BY <2>1 DEF Alone
<1>8. ASSUME restart PROVE Alone'
  BY <1>8 DEF restart, At, Fault, NoUpgrade, TypeOK, LockHeld, Alone, Early, Orderly
<1>9. ASSUME Start PROVE Alone'
  BY <1>9 DEF Start, TypeOK, LockHeld, Alone, Early, Orderly
<1>10. ASSUME Crash PROVE Alone'
  BY <1>10 DEF Crash, Fault, Stop, NoUpgrade, TypeOK, LockHeld, Alone, Early, Orderly
<1>11. ASSUME register PROVE Alone'
  BY <1>11 DEF register, Confirms, TypeOK, LockHeld, Alone, Early, Orderly
<1>12. ASSUME unregister PROVE Alone'
  BY <1>12 DEF unregister, TypeOK, LockHeld, Alone, Early, Orderly
<1>13. ASSUME Expire PROVE Alone'
  BY <1>13 DEF Expire, Markers, TypeOK, LockHeld, Alone, Early, Orderly
<1>14. ASSUME Reboot PROVE Alone'
  BY <1>14 DEF Reboot, Fault, Stop, NoUpgrade, TypeOK, LockHeld, Alone, Early, Orderly
<1>15. ASSUME NEW w \in Watchdogs, finished(w) PROVE Alone'
  BY <1>15 DEF finished, Locked, Step, TypeOK, LockHeld, Alone, Early, Orderly
<1>16. ASSUME NEW w \in Watchdogs, recoverUpgrade(w) PROVE Alone'
  BY <1>16 DEF recoverUpgrade, Locked, Step, Acquire, Restorable, Restored, TypeOK, LockHeld, Alone,
     Early, Orderly
<1>17. ASSUME NEW w \in Watchdogs, restore(w) PROVE Alone'
  BY <1>17 DEF restore, Step, TypeOK, LockHeld, Alone, Early, Orderly
<1>18. ASSUME NEW w \in Watchdogs, saveRolledBack(w) PROVE Alone'
  BY <1>18 DEF saveRolledBack, Release, Saved, NotSaved, Step, Fault, Markers, TypeOK, LockHeld,
     Alone, Early, Orderly
<1>19. ASSUME NEW w \in Watchdogs, restartService(w) PROVE Alone'
  BY <1>19 DEF restartService, Step, Fault, NoUpgrade, TypeOK, LockHeld, Alone, Early, Orderly
<1>20. ASSUME NEW w \in Watchdogs, removeMarker(w) PROVE Alone'
  BY <1>20 DEF removeMarker, Locked, Step, NotSaved, Fault, TypeOK, LockHeld, Alone, Early, Orderly
<1>21. ASSUME NEW w \in Watchdogs, Revive(w) PROVE Alone'
  BY <1>21 DEF Revive, Step, TypeOK, LockHeld, Alone, Early, Orderly
<1>22. ASSUME NEW w \in Watchdogs, Kill(w) PROVE Alone'
  BY <1>22 DEF Kill, Fault, TypeOK, LockHeld, Alone, Early, Orderly
<1> QED
  BY <1>1, <1>2, <1>3, <1>4, <1>5, <1>6, <1>7, <1>8, <1>9, <1>10, <1>11, <1>12, <1>13, <1>14,
     <1>15, <1>16, <1>17, <1>18, <1>19, <1>20, <1>21, <1>22 DEF Next, Install, Watchdog

LEMMA EarlyStep ==
  ASSUME Orderly
  PROVE  IInv /\ [Next]_vars => Early'
<1> SUFFICES ASSUME TypeOK, LockHeld, Guarded, Alone, Early, Watched, MarkerTrue, Running, [Next]_vars
             PROVE  Early'
  BY DEF IInv
<1>1. CASE UNCHANGED vars
  BY <1>1 DEF TypeOK, LockHeld, Guarded, Alone, Early, Watched, MarkerTrue, Running, Orderly
<1>2. ASSUME NEW r \in Releases, begin(r) PROVE Early'
  BY <1>2 DEF begin, At, Acquire, TypeOK, LockHeld, Guarded, Alone, Early, Watched, MarkerTrue,
     Running, Orderly
<1>3. ASSUME backupExecutable PROVE Early'
  BY <1>3 DEF backupExecutable, At, Goto, NoUpgrade, TypeOK, LockHeld, Guarded, Alone, Early, Watched, MarkerTrue,
     Running, Orderly
<1>4. ASSUME saveUpgradeMarker PROVE Early'
  <2> DEFINE m == [new |-> upgrade.new, old |-> prev, expired |-> FALSE, rolledBack |-> FALSE]
  <2>1. CASE marker' = m /\ upgrade' = [upgrade EXCEPT !.pc = "launch"]
    <3>1. upgrade'.pc = "launch" /\ upgrade'.new = upgrade.new
      BY <2>1 DEF TypeOK
    <3>2. m \in Markers
      BY <1>4 DEF saveUpgradeMarker, At, LockHeld, TypeOK, Markers
    <3>3. proven /\ ver = exe /\ UNCHANGED <<proven, ver, exe, prev>>
      BY <1>4 DEF saveUpgradeMarker, At, Early
    <3> QED
      BY <2>1, <3>1, <3>2, <3>3 DEF Early
  <2>2. CASE upgrade' = NoUpgrade
    BY <2>2 DEF Early, NoUpgrade
  <2> QED
    BY <1>4, <2>1, <2>2 DEF saveUpgradeMarker, Saved, Goto
<1>5. ASSUME launch PROVE Early'
  BY <1>5 DEF launch, At, Goto, Fault, TypeOK, LockHeld, Guarded, Alone, Early, Watched, MarkerTrue,
     Running, Orderly
<1>6. ASSUME stopWatchdog PROVE Early'
  BY <1>6 DEF stopWatchdog, At, Locked, NoUpgrade, TypeOK, LockHeld, Guarded, Alone, Early, Watched,
     MarkerTrue, Running, Orderly
<1>7. ASSUME install PROVE Early'
  <2>1. CASE upgrade' = [upgrade EXCEPT !.pc = "restart"] \/ upgrade' = NoUpgrade
    <3>1. upgrade'.pc \in {"restart", "none"}
      BY <2>1 DEF NoUpgrade, TypeOK
    <3> QED
      BY <3>1 DEF Early
  <2>2. CASE upgrade' = [upgrade EXCEPT !.pc = "stop"] /\ UNCHANGED <<exe, proven>>
    <3>1. upgrade'.pc = "stop" /\ upgrade'.new = upgrade.new
      BY <2>2 DEF TypeOK
    <3> QED
      BY <1>7, <2>2, <3>1 DEF install, At, Early
  <2> QED
    BY <1>7, <2>1, <2>2 DEF install, Goto
<1>8. ASSUME restart PROVE Early'
  BY <1>8 DEF restart, At, Fault, NoUpgrade, TypeOK, LockHeld, Guarded, Alone, Early, Watched,
     MarkerTrue, Running, Orderly
<1>9. ASSUME Start PROVE Early'
  BY <1>9 DEF Start, TypeOK, LockHeld, Guarded, Alone, Early, Watched, MarkerTrue, Running, Orderly
<1>10. ASSUME Crash PROVE Early'
  BY <1>10 DEF Crash, Fault, Stop, NoUpgrade, TypeOK, LockHeld, Guarded, Alone, Early, Watched,
     MarkerTrue, Running, Orderly
<1>11. ASSUME register PROVE Early'
  BY <1>11 DEF register, Confirms, TypeOK, LockHeld, Guarded, Alone, Early, Watched, MarkerTrue,
     Running, Orderly
<1>12. ASSUME unregister PROVE Early'
  BY <1>12 DEF unregister, TypeOK, LockHeld, Guarded, Alone, Early, Watched, MarkerTrue, Running, Orderly
<1>13. ASSUME Expire PROVE Early'
  BY <1>13 DEF Expire, Markers, TypeOK, LockHeld, Guarded, Alone, Early, Watched, MarkerTrue, Running,
     Orderly
<1>14. ASSUME Reboot PROVE Early'
  BY <1>14 DEF Reboot, Fault, Stop, NoUpgrade, TypeOK, LockHeld, Guarded, Alone, Early, Watched,
     MarkerTrue, Running, Orderly
<1>15. ASSUME NEW w \in Watchdogs, finished(w) PROVE Early'
  BY <1>15 DEF finished, Locked, Step, TypeOK, LockHeld, Guarded, Alone, Early, Watched, MarkerTrue,
     Running, Orderly
<1>16. ASSUME NEW w \in Watchdogs, recoverUpgrade(w) PROVE Early'
  BY <1>16 DEF recoverUpgrade, Locked, Step, Acquire, Restorable, Restored, TypeOK, LockHeld,
     Guarded, Alone, Early, Watched, MarkerTrue, Running, Orderly
<1>17. ASSUME NEW w \in Watchdogs, restore(w) PROVE Early'
  BY <1>17 DEF restore, Step, TypeOK, LockHeld, Guarded, Alone, Early, Watched, MarkerTrue, Running,
     Orderly
<1>18. ASSUME NEW w \in Watchdogs, saveRolledBack(w) PROVE Early'
  BY <1>18 DEF saveRolledBack, Release, Saved, NotSaved, Step, Fault, Markers, TypeOK, LockHeld,
     Guarded, Alone, Early, Watched, MarkerTrue, Running, Orderly
<1>19. ASSUME NEW w \in Watchdogs, restartService(w) PROVE Early'
  BY <1>19 DEF restartService, Step, Fault, NoUpgrade, TypeOK, LockHeld, Guarded, Alone, Early,
     Watched, MarkerTrue, Running, Orderly
<1>20. ASSUME NEW w \in Watchdogs, removeMarker(w) PROVE Early'
  BY <1>20 DEF removeMarker, Locked, Step, NotSaved, Fault, TypeOK, LockHeld, Guarded, Alone, Early,
     Watched, MarkerTrue, Running, Orderly
<1>21. ASSUME NEW w \in Watchdogs, Revive(w) PROVE Early'
  BY <1>21 DEF Revive, Step, TypeOK, LockHeld, Guarded, Alone, Early, Watched, MarkerTrue, Running,
     Orderly
<1>22. ASSUME NEW w \in Watchdogs, Kill(w) PROVE Early'
  BY <1>22 DEF Kill, Fault, TypeOK, LockHeld, Guarded, Alone, Early, Watched, MarkerTrue, Running, Orderly
<1> QED
  BY <1>1, <1>2, <1>3, <1>4, <1>5, <1>6, <1>7, <1>8, <1>9, <1>10, <1>11, <1>12, <1>13, <1>14,
     <1>15, <1>16, <1>17, <1>18, <1>19, <1>20, <1>21, <1>22 DEF Next, Install, Watchdog

LEMMA WatchedStep ==
  ASSUME Orderly
  PROVE  IInv /\ [Next]_vars => Watched'
<1> SUFFICES ASSUME TypeOK, LockHeld, Guarded, Alone, Early, Watched, MarkerTrue, Running, [Next]_vars
             PROVE  Watched'
  BY DEF IInv
<1>1. CASE UNCHANGED vars
  BY <1>1 DEF TypeOK, LockHeld, Guarded, Alone, Early, Watched, MarkerTrue, Orderly
<1>2. ASSUME NEW r \in Releases, begin(r) PROVE Watched'
  BY <1>2 DEF begin, At, Acquire, TypeOK, LockHeld, Guarded, Alone, Early, Watched, MarkerTrue, Orderly
<1>3. ASSUME backupExecutable PROVE Watched'
  BY <1>3 DEF backupExecutable, At, Goto, TypeOK, LockHeld, Guarded, Alone, Early, Watched, MarkerTrue,
     Orderly
<1>4. ASSUME saveUpgradeMarker PROVE Watched'
  BY <1>4 DEF saveUpgradeMarker, At, Release, Saved, NotSaved, Fault, Goto, NoUpgrade, Markers,
     TypeOK, LockHeld, Guarded, Alone, Early, Watched, MarkerTrue, Orderly
<1>5. ASSUME launch PROVE Watched'
  BY <1>5 DEF launch, At, Goto, Fault, TypeOK, LockHeld, Guarded, Alone, Early, Watched, MarkerTrue,
     Orderly
<1>6. ASSUME stopWatchdog PROVE Watched'
  BY <1>6 DEF stopWatchdog, At, Locked, NoUpgrade, TypeOK, LockHeld, Guarded, Alone, Early, Watched,
     MarkerTrue, Orderly
<1>7. ASSUME install PROVE Watched'
  BY <1>7 DEF install, At, Goto, Fault, NoUpgrade, TypeOK, LockHeld, Guarded, Alone, Early, Watched,
     MarkerTrue, Orderly
<1>8. ASSUME restart PROVE Watched'
  BY <1>8 DEF restart, At, Fault, NoUpgrade, TypeOK, LockHeld, Guarded, Alone, Early, Watched,
     MarkerTrue, Orderly
<1>9. ASSUME Start PROVE Watched'
  BY <1>9 DEF Start, TypeOK, LockHeld, Guarded, Alone, Early, Watched, MarkerTrue, Orderly
<1>10. ASSUME Crash PROVE Watched'
  BY <1>10 DEF Crash, Fault, Stop, NoUpgrade, TypeOK, LockHeld, Guarded, Alone, Early, Watched,
     MarkerTrue, Orderly
<1>11. ASSUME register PROVE Watched'
  BY <1>11 DEF register, Confirms, TypeOK, LockHeld, Guarded, Alone, Early, Watched, MarkerTrue, Orderly
<1>12. ASSUME unregister PROVE Watched'
  BY <1>12 DEF unregister, TypeOK, LockHeld, Guarded, Alone, Early, Watched, MarkerTrue, Orderly
<1>13. ASSUME Expire PROVE Watched'
  BY <1>13 DEF Expire, Markers, TypeOK, LockHeld, Guarded, Alone, Early, Watched, MarkerTrue, Orderly
<1>14. ASSUME Reboot PROVE Watched'
  BY <1>14 DEF Reboot, Fault, Stop, NoUpgrade, TypeOK, LockHeld, Guarded, Alone, Early, Watched,
     MarkerTrue, Orderly
<1>15. ASSUME NEW w \in Watchdogs, finished(w) PROVE Watched'
  BY <1>15 DEF finished, Locked, Step, TypeOK, LockHeld, Guarded, Alone, Early, Watched, MarkerTrue,
     Orderly
<1>16. ASSUME NEW w \in Watchdogs, recoverUpgrade(w) PROVE Watched'
  BY <1>16 DEF recoverUpgrade, Locked, Step, Acquire, Restorable, Restored, TypeOK, LockHeld,
     Guarded, Alone, Early, Watched, MarkerTrue, Orderly
<1>17. ASSUME NEW w \in Watchdogs, restore(w) PROVE Watched'
  BY <1>17 DEF restore, Step, TypeOK, LockHeld, Guarded, Alone, Early, Watched, MarkerTrue, Orderly
<1>18. ASSUME NEW w \in Watchdogs, saveRolledBack(w) PROVE Watched'
  <2>1. unit[w] = "save" /\ marker' = [marker EXCEPT !.rolledBack = TRUE] /\ unit' = [unit EXCEPT ![w] = "restart"]
    BY <1>18 DEF saveRolledBack, Saved, NotSaved, Fault, Step, Orderly
  <2>2. marker \in Markers
    BY <2>1 DEF LockHeld, TypeOK
  <2>3. /\ marker' # NoMarker /\ marker'.rolledBack /\ marker'.expired = marker.expired
        /\ marker'.new = marker.new /\ marker'.old = marker.old
    BY <2>1, <2>2 DEF Markers
  <2>4. unit'[w] = "restart" /\ \A u \in Watchdogs \ {w} : unit'[u] = "none"
    BY <2>1 DEF Alone, TypeOK
  <2>5. marker.expired
    BY <2>1 DEF Watched
  <2> QED
    BY <1>18, <2>3, <2>4, <2>5 DEF saveRolledBack, Watched
<1>19. ASSUME NEW w \in Watchdogs, restartService(w) PROVE Watched'
  BY <1>19 DEF restartService, Step, Fault, NoUpgrade, TypeOK, LockHeld, Guarded, Alone, Early,
     Watched, MarkerTrue, Orderly
<1>20. ASSUME NEW w \in Watchdogs, removeMarker(w) PROVE Watched'
  BY <1>20 DEF removeMarker, Locked, Step, NotSaved, Fault, TypeOK, LockHeld, Guarded, Alone, Early,
     Watched, MarkerTrue, Orderly
<1>21. ASSUME NEW w \in Watchdogs, Revive(w) PROVE Watched'
  BY <1>21 DEF Revive, Step, TypeOK, LockHeld, Guarded, Alone, Early, Watched, MarkerTrue, Orderly
<1>22. ASSUME NEW w \in Watchdogs, Kill(w) PROVE Watched'
  BY <1>22 DEF Kill, Fault, TypeOK, LockHeld, Guarded, Alone, Early, Watched, MarkerTrue, Orderly
<1> QED
  BY <1>1, <1>2, <1>3, <1>4, <1>5, <1>6, <1>7, <1>8, <1>9, <1>10, <1>11, <1>12, <1>13, <1>14,
     <1>15, <1>16, <1>17, <1>18, <1>19, <1>20, <1>21, <1>22 DEF Next, Install, Watchdog

LEMMA BalancedStep ==
  ASSUME Orderly
  PROVE  IInv /\ [Next]_vars => MarkerTrue'
<1> SUFFICES ASSUME TypeOK, LockHeld, Guarded, Alone, Early, Watched, MarkerTrue, Running, [Next]_vars
             PROVE  MarkerTrue'
  BY DEF IInv
<1>1. CASE UNCHANGED vars
  BY <1>1 DEF TypeOK, LockHeld, Guarded, Early, Watched, MarkerTrue, Orderly
<1>2. ASSUME NEW r \in Releases, begin(r) PROVE MarkerTrue'
  BY <1>2 DEF begin, At, Acquire, TypeOK, LockHeld, Guarded, Early, Watched, MarkerTrue, Orderly
<1>3. ASSUME backupExecutable PROVE MarkerTrue'
  BY <1>3 DEF backupExecutable, At, Goto, TypeOK, LockHeld, Guarded, Early, Watched, MarkerTrue, Orderly
<1>4. ASSUME saveUpgradeMarker PROVE MarkerTrue'
  BY <1>4 DEF saveUpgradeMarker, At, Release, Saved, NotSaved, Fault, Goto, NoUpgrade, Markers,
     TypeOK, LockHeld, Guarded, Early, Watched, MarkerTrue, Orderly
<1>5. ASSUME launch PROVE MarkerTrue'
  BY <1>5 DEF launch, At, Goto, Fault, TypeOK, LockHeld, Guarded, Early, Watched, MarkerTrue, Orderly
<1>6. ASSUME stopWatchdog PROVE MarkerTrue'
  BY <1>6 DEF stopWatchdog, At, Locked, NoUpgrade, TypeOK, LockHeld, Guarded, Early, Watched,
     MarkerTrue, Orderly
<1>7. ASSUME install PROVE MarkerTrue'
  BY <1>7 DEF install, At, Goto, Fault, NoUpgrade, TypeOK, LockHeld, Guarded, Early, Watched,
     MarkerTrue, Orderly
<1>8. ASSUME restart PROVE MarkerTrue'
  BY <1>8 DEF restart, At, Fault, NoUpgrade, TypeOK, LockHeld, Guarded, Early, Watched, MarkerTrue,
     Orderly
<1>9. ASSUME Start PROVE MarkerTrue'
  BY <1>9 DEF Start, TypeOK, LockHeld, Guarded, Early, Watched, MarkerTrue, Orderly
<1>10. ASSUME Crash PROVE MarkerTrue'
  BY <1>10 DEF Crash, Fault, Stop, NoUpgrade, TypeOK, LockHeld, Guarded, Early, Watched, MarkerTrue,
     Orderly
<1>11. ASSUME register PROVE MarkerTrue'
  BY <1>11 DEF register, Confirms, TypeOK, LockHeld, Guarded, Early, Watched, MarkerTrue, Orderly
<1>12. ASSUME unregister PROVE MarkerTrue'
  BY <1>12 DEF unregister, TypeOK, LockHeld, Guarded, Early, Watched, MarkerTrue, Orderly
<1>13. ASSUME Expire PROVE MarkerTrue'
  BY <1>13 DEF Expire, Markers, TypeOK, LockHeld, Guarded, Early, Watched, MarkerTrue, Orderly
<1>14. ASSUME Reboot PROVE MarkerTrue'
  BY <1>14 DEF Reboot, Fault, Stop, NoUpgrade, TypeOK, LockHeld, Guarded, Early, Watched, MarkerTrue,
     Orderly
<1>15. ASSUME NEW w \in Watchdogs, finished(w) PROVE MarkerTrue'
  BY <1>15 DEF finished, Locked, Step, TypeOK, LockHeld, Guarded, Early, Watched, MarkerTrue, Orderly
<1>16. ASSUME NEW w \in Watchdogs, recoverUpgrade(w) PROVE MarkerTrue'
  BY <1>16 DEF recoverUpgrade, Locked, Step, Acquire, Restorable, Restored, TypeOK, LockHeld,
     Guarded, Early, Watched, MarkerTrue, Orderly
<1>17. ASSUME NEW w \in Watchdogs, restore(w) PROVE MarkerTrue'
  BY <1>17 DEF restore, Step, TypeOK, LockHeld, Guarded, Early, Watched, MarkerTrue, Orderly
<1>18. ASSUME NEW w \in Watchdogs, saveRolledBack(w) PROVE MarkerTrue'
  BY <1>18 DEF saveRolledBack, Release, Saved, NotSaved, Step, Fault, Markers, TypeOK, LockHeld,
     Guarded, Early, Watched, MarkerTrue, Orderly
<1>19. ASSUME NEW w \in Watchdogs, restartService(w) PROVE MarkerTrue'
  BY <1>19 DEF restartService, Step, Fault, NoUpgrade, TypeOK, LockHeld, Guarded, Early, Watched,
     MarkerTrue, Orderly
<1>20. ASSUME NEW w \in Watchdogs, removeMarker(w) PROVE MarkerTrue'
  BY <1>20 DEF removeMarker, Locked, Step, NotSaved, Fault, TypeOK, LockHeld, Guarded, Early,
     Watched, MarkerTrue, Orderly
<1>21. ASSUME NEW w \in Watchdogs, Revive(w) PROVE MarkerTrue'
  BY <1>21 DEF Revive, Step, TypeOK, LockHeld, Guarded, Early, Watched, MarkerTrue, Orderly
<1>22. ASSUME NEW w \in Watchdogs, Kill(w) PROVE MarkerTrue'
  BY <1>22 DEF Kill, Fault, TypeOK, LockHeld, Guarded, Early, Watched, MarkerTrue, Orderly
<1> QED
  BY <1>1, <1>2, <1>3, <1>4, <1>5, <1>6, <1>7, <1>8, <1>9, <1>10, <1>11, <1>12, <1>13, <1>14,
     <1>15, <1>16, <1>17, <1>18, <1>19, <1>20, <1>21, <1>22 DEF Next, Install, Watchdog

LEMMA RunningStep ==
  ASSUME Orderly
  PROVE  IInv /\ [Next]_vars => Running'
<1> SUFFICES ASSUME TypeOK, LockHeld, Guarded, Alone, Early, Watched, MarkerTrue, Running, [Next]_vars
             PROVE  Running'
  BY DEF IInv
<1>1. CASE UNCHANGED vars
  BY <1>1 DEF TypeOK, LockHeld, Guarded, Early, Watched, MarkerTrue, Running, Orderly
<1>2. ASSUME NEW r \in Releases, begin(r) PROVE Running'
  BY <1>2 DEF begin, At, Acquire, TypeOK, LockHeld, Guarded, Early, Watched, MarkerTrue, Running, Orderly
<1>3. ASSUME backupExecutable PROVE Running'
  BY <1>3 DEF backupExecutable, At, Goto, TypeOK, LockHeld, Guarded, Early, Watched, MarkerTrue,
     Running, Orderly
<1>4. ASSUME saveUpgradeMarker PROVE Running'
  BY <1>4 DEF saveUpgradeMarker, At, Release, Saved, NotSaved, Fault, Goto, NoUpgrade, Markers,
     TypeOK, LockHeld, Guarded, Early, Watched, MarkerTrue, Running, Orderly
<1>5. ASSUME launch PROVE Running'
  BY <1>5 DEF launch, At, Goto, Fault, TypeOK, LockHeld, Guarded, Early, Watched, MarkerTrue, Running,
     Orderly
<1>6. ASSUME stopWatchdog PROVE Running'
  BY <1>6 DEF stopWatchdog, At, Locked, NoUpgrade, TypeOK, LockHeld, Guarded, Early, Watched,
     MarkerTrue, Running, Orderly
<1>7. ASSUME install PROVE Running'
  BY <1>7 DEF install, At, Goto, Fault, NoUpgrade, TypeOK, LockHeld, Guarded, Early, Watched,
     MarkerTrue, Running, Orderly
<1>8. ASSUME restart PROVE Running'
  BY <1>8 DEF restart, At, Fault, NoUpgrade, TypeOK, LockHeld, Guarded, Early, Watched, MarkerTrue,
     Running, Orderly
<1>9. ASSUME Start PROVE Running'
  BY <1>9 DEF Start, TypeOK, LockHeld, Guarded, Early, Watched, MarkerTrue, Running, Orderly
<1>10. ASSUME Crash PROVE Running'
  BY <1>10 DEF Crash, Fault, Stop, NoUpgrade, TypeOK, LockHeld, Guarded, Early, Watched, MarkerTrue,
     Running, Orderly
<1>11. ASSUME register PROVE Running'
  BY <1>11 DEF register, Confirms, TypeOK, LockHeld, Guarded, Early, Watched, MarkerTrue, Running, Orderly
<1>12. ASSUME unregister PROVE Running'
  BY <1>12 DEF unregister, TypeOK, LockHeld, Guarded, Early, Watched, MarkerTrue, Running, Orderly
<1>13. ASSUME Expire PROVE Running'
  BY <1>13 DEF Expire, Markers, TypeOK, LockHeld, Guarded, Early, Watched, MarkerTrue, Running, Orderly
<1>14. ASSUME Reboot PROVE Running'
  BY <1>14 DEF Reboot, Fault, Stop, NoUpgrade, TypeOK, LockHeld, Guarded, Early, Watched, MarkerTrue,
     Running, Orderly
<1>15. ASSUME NEW w \in Watchdogs, finished(w) PROVE Running'
  BY <1>15 DEF finished, Locked, Step, TypeOK, LockHeld, Guarded, Early, Watched, MarkerTrue, Running,
     Orderly
<1>16. ASSUME NEW w \in Watchdogs, recoverUpgrade(w) PROVE Running'
  BY <1>16 DEF recoverUpgrade, Locked, Step, Acquire, Restorable, Restored, TypeOK, LockHeld,
     Guarded, Early, Watched, MarkerTrue, Running, Orderly
<1>17. ASSUME NEW w \in Watchdogs, restore(w) PROVE Running'
  BY <1>17 DEF restore, Step, TypeOK, LockHeld, Guarded, Early, Watched, MarkerTrue, Running, Orderly
<1>18. ASSUME NEW w \in Watchdogs, saveRolledBack(w) PROVE Running'
  <2>1. unit[w] = "save" /\ marker' = [marker EXCEPT !.rolledBack = TRUE] /\ unit' = [unit EXCEPT ![w] = "restart"]
    BY <1>18 DEF saveRolledBack, Saved, NotSaved, Fault, Step, Orderly
  <2>2. marker \in Markers
    BY <2>1 DEF LockHeld, TypeOK
  <2>3. /\ marker' # NoMarker /\ marker'.rolledBack /\ marker'.expired = marker.expired
        /\ marker'.new = marker.new /\ marker'.old = marker.old
    BY <2>1, <2>2 DEF Markers
  <2> QED
    BY <1>18, <2>3 DEF saveRolledBack, Running
<1>19. ASSUME NEW w \in Watchdogs, restartService(w) PROVE Running'
  BY <1>19 DEF restartService, Step, Fault, NoUpgrade, TypeOK, LockHeld, Guarded, Early, Watched,
     MarkerTrue, Running, Orderly
<1>20. ASSUME NEW w \in Watchdogs, removeMarker(w) PROVE Running'
  BY <1>20 DEF removeMarker, Locked, Step, NotSaved, Fault, TypeOK, LockHeld, Guarded, Early,
     Watched, MarkerTrue, Running, Orderly
<1>21. ASSUME NEW w \in Watchdogs, Revive(w) PROVE Running'
  BY <1>21 DEF Revive, Step, TypeOK, LockHeld, Guarded, Early, Watched, MarkerTrue, Running, Orderly
<1>22. ASSUME NEW w \in Watchdogs, Kill(w) PROVE Running'
  BY <1>22 DEF Kill, Fault, TypeOK, LockHeld, Guarded, Early, Watched, MarkerTrue, Running, Orderly
<1> QED
  BY <1>1, <1>2, <1>3, <1>4, <1>5, <1>6, <1>7, <1>8, <1>9, <1>10, <1>11, <1>12, <1>13, <1>14,
     <1>15, <1>16, <1>17, <1>18, <1>19, <1>20, <1>21, <1>22 DEF Next, Install, Watchdog

LEMMA Invariance == ASSUME Orderly PROVE Spec => []IInv
<1>1. IInv /\ [Next]_vars => IInv'
  <2>1. IInv => TInv
    BY DEF IInv, TInv
  <2> QED
    BY <2>1, TypeStep, HeldStep, GuardedStep, AloneStep, EarlyStep, WatchedStep, BalancedStep,
       RunningStep DEF IInv
<1> QED
  BY InitIInv, <1>1, PTL DEF Spec

\* Every variable keeps its type, whatever fails: the executable, in particular, is
\* always a whole release (upgrade.go:124, watchdog_linux.go:221).
THEOREM TypeCorrect == Spec => []TypeOK
<1>1. Init => TInv
  BY InitIInv DEF IInv, TInv
<1>2. TInv /\ [Next]_vars => TInv'
  BY TypeStep, HeldStep DEF TInv
<1>3. TInv => TypeOK
  BY DEF TInv
<1> QED
  BY <1>1, <1>2, <1>3, PTL DEF Spec

\* In orderly runs a release on trial is installed only beside its marker and the
\* backup of the release it replaced (watchdog_linux.go:118-132).
THEOREM TrialsGuarded == ASSUME Orderly PROVE Spec => []Guarded
<1>1. IInv => Guarded
  BY DEF IInv
<1> QED
  BY <1>1, Invariance, PTL

\* In orderly runs the process that confirms an upgrade runs what is installed
\* (watchdog_linux.go:155-191).
THEOREM OnlyInstalledConfirmed == ASSUME Orderly PROVE Spec => ConfirmsInstalled
<1> DEFINE P == proven' /\ ~registered /\ registered' /\ marker' # marker => exe = ver \/ prev = NoRelease
<1>1. IInv /\ [Next]_vars => [P]_vars
  <2> SUFFICES ASSUME TypeOK, LockHeld, Guarded, MarkerTrue, Running, Next, ~registered, registered', marker' # marker
               PROVE  exe = ver
    BY DEF IInv
  <2>1. register
    BY DEF Next, Install, Watchdog, begin, backupExecutable, saveUpgradeMarker, launch,
       stopWatchdog,
       install, restart, Start, Crash, unregister, Expire, Reboot, Stop, finished, recoverUpgrade,
       restore, saveRolledBack, restartService, removeMarker, Revive, Kill
  <2>2. /\ marker # NoMarker /\ marker.new = ver /\ ~marker.rolledBack /\ lock = NoOne /\ up
    BY <2>1 DEF register, Confirms
  <2>3. \A w \in Watchdogs : unit[w] # "save"
    BY <2>2 DEF LockHeld
  <2> QED
    BY <2>2, <2>3 DEF Guarded, Running
<1> QED
  BY <1>1, Invariance, PTL DEF Spec, ConfirmsInstalled

LEMMA TrialStep ==
  ASSUME Orderly
  PROVE  IInv /\ [Next]_vars => [Trial!Next]_Trial!vars
<1> DEFINE Good == IF proven THEN exe ELSE marker.old
<1> SUFFICES ASSUME TypeOK, LockHeld, Guarded, Early, Watched, MarkerTrue, Running, [Next]_vars
             PROVE  Trial!Next \/ (UNCHANGED <<exe, proven>> /\ Good' = Good)
  BY DEF IInv, Trial!vars
<1> USE DEF Trial!Next, Trial!Try, Trial!Accept, Trial!Reject
<1>1. CASE UNCHANGED vars
  BY <1>1 DEF TypeOK, LockHeld, Guarded, Early, Watched, MarkerTrue, Orderly
<1>2. ASSUME NEW r \in Releases, begin(r) PROVE Trial!Next \/ (UNCHANGED <<exe, proven>> /\ Good' = Good)
  BY <1>2 DEF begin, At, Acquire, TypeOK, LockHeld, Guarded, Early, Watched, MarkerTrue, Orderly
<1>3. ASSUME backupExecutable PROVE Trial!Next \/ (UNCHANGED <<exe, proven>> /\ Good' = Good)
  BY <1>3 DEF backupExecutable, At, Goto, TypeOK, LockHeld, Guarded, Early, Watched, MarkerTrue, Orderly
<1>4. ASSUME saveUpgradeMarker PROVE Trial!Next \/ (UNCHANGED <<exe, proven>> /\ Good' = Good)
  BY <1>4 DEF saveUpgradeMarker, At, Release, Saved, NotSaved, Fault, Goto, NoUpgrade, Markers,
     TypeOK, LockHeld, Guarded, Early, Watched, MarkerTrue, Orderly
<1>5. ASSUME launch PROVE Trial!Next \/ (UNCHANGED <<exe, proven>> /\ Good' = Good)
  BY <1>5 DEF launch, At, Goto, Fault, TypeOK, LockHeld, Guarded, Early, Watched, MarkerTrue, Orderly
<1>6. ASSUME stopWatchdog PROVE Trial!Next \/ (UNCHANGED <<exe, proven>> /\ Good' = Good)
  BY <1>6 DEF stopWatchdog, At, Locked, NoUpgrade, TypeOK, LockHeld, Guarded, Early, Watched,
     MarkerTrue, Orderly
<1>7. ASSUME install PROVE Trial!Next \/ (UNCHANGED <<exe, proven>> /\ Good' = Good)
  BY <1>7 DEF install, At, Goto, Fault, NoUpgrade, TypeOK, LockHeld, Guarded, Early, Watched,
     MarkerTrue, Orderly
<1>8. ASSUME restart PROVE Trial!Next \/ (UNCHANGED <<exe, proven>> /\ Good' = Good)
  BY <1>8 DEF restart, At, Fault, NoUpgrade, TypeOK, LockHeld, Guarded, Early, Watched, MarkerTrue,
     Orderly
<1>9. ASSUME Start PROVE Trial!Next \/ (UNCHANGED <<exe, proven>> /\ Good' = Good)
  BY <1>9 DEF Start, TypeOK, LockHeld, Guarded, Early, Watched, MarkerTrue, Orderly
<1>10. ASSUME Crash PROVE Trial!Next \/ (UNCHANGED <<exe, proven>> /\ Good' = Good)
  BY <1>10 DEF Crash, Fault, Stop, NoUpgrade, TypeOK, LockHeld, Guarded, Early, Watched, MarkerTrue,
     Orderly
<1>11. ASSUME register PROVE Trial!Next \/ (UNCHANGED <<exe, proven>> /\ Good' = Good)
  BY <1>11 DEF register, Confirms, TypeOK, LockHeld, Guarded, Early, Watched, MarkerTrue, Orderly
<1>12. ASSUME unregister PROVE Trial!Next \/ (UNCHANGED <<exe, proven>> /\ Good' = Good)
  BY <1>12 DEF unregister, TypeOK, LockHeld, Guarded, Early, Watched, MarkerTrue, Orderly
<1>13. ASSUME Expire PROVE Trial!Next \/ (UNCHANGED <<exe, proven>> /\ Good' = Good)
  BY <1>13 DEF Expire, Markers, TypeOK, LockHeld, Guarded, Early, Watched, MarkerTrue, Orderly
<1>14. ASSUME Reboot PROVE Trial!Next \/ (UNCHANGED <<exe, proven>> /\ Good' = Good)
  BY <1>14 DEF Reboot, Fault, Stop, NoUpgrade, TypeOK, LockHeld, Guarded, Early, Watched, MarkerTrue,
     Orderly
<1>15. ASSUME NEW w \in Watchdogs, finished(w) PROVE Trial!Next \/ (UNCHANGED <<exe, proven>> /\ Good' = Good)
  BY <1>15 DEF finished, Locked, Step, TypeOK, LockHeld, Guarded, Early, Watched, MarkerTrue, Orderly
<1>16. ASSUME NEW w \in Watchdogs, recoverUpgrade(w) PROVE Trial!Next \/ (UNCHANGED <<exe, proven>> /\ Good' = Good)
  BY <1>16 DEF recoverUpgrade, Locked, Step, Acquire, Restorable, Restored, TypeOK, LockHeld,
     Guarded, Early, Watched, MarkerTrue, Orderly
<1>17. ASSUME NEW w \in Watchdogs, restore(w) PROVE Trial!Next \/ (UNCHANGED <<exe, proven>> /\ Good' = Good)
  <2>1. exe = marker.new /\ ~marker.rolledBack /\ prev = marker.old /\ marker # NoMarker
    BY <1>17 DEF restore, Step, Watched
  <2>2. exe' = marker.old /\ proven' = TRUE /\ marker' = marker
    BY <1>17, <2>1 DEF restore
  <2>3. CASE proven
    BY <2>1, <2>2, <2>3 DEF MarkerTrue
  <2>4. CASE ~proven
    BY <2>1, <2>2, <2>4
  <2> QED
    BY <2>3, <2>4
<1>18. ASSUME NEW w \in Watchdogs, saveRolledBack(w) PROVE Trial!Next \/ (UNCHANGED <<exe, proven>> /\ Good' = Good)
  BY <1>18 DEF saveRolledBack, Release, Saved, NotSaved, Step, Fault, Markers, TypeOK, LockHeld,
     Guarded, Early, Watched, MarkerTrue, Orderly
<1>19. ASSUME NEW w \in Watchdogs, restartService(w) PROVE Trial!Next \/ (UNCHANGED <<exe, proven>> /\ Good' = Good)
  BY <1>19 DEF restartService, Step, Fault, NoUpgrade, TypeOK, LockHeld, Guarded, Early, Watched,
     MarkerTrue, Orderly
<1>20. ASSUME NEW w \in Watchdogs, removeMarker(w) PROVE Trial!Next \/ (UNCHANGED <<exe, proven>> /\ Good' = Good)
  BY <1>20 DEF removeMarker, Locked, Step, NotSaved, Fault, TypeOK, LockHeld, Guarded, Early,
     Watched, MarkerTrue, Orderly
<1>21. ASSUME NEW w \in Watchdogs, Revive(w) PROVE Trial!Next \/ (UNCHANGED <<exe, proven>> /\ Good' = Good)
  BY <1>21 DEF Revive, Step, TypeOK, LockHeld, Guarded, Early, Watched, MarkerTrue, Orderly
<1>22. ASSUME NEW w \in Watchdogs, Kill(w) PROVE Trial!Next \/ (UNCHANGED <<exe, proven>> /\ Good' = Good)
  BY <1>22 DEF Kill, Fault, TypeOK, LockHeld, Guarded, Early, Watched, MarkerTrue, Orderly
<1> QED
  BY <1>1, <1>2, <1>3, <1>4, <1>5, <1>6, <1>7, <1>8, <1>9, <1>10, <1>11, <1>12, <1>13, <1>14,
     <1>15, <1>16, <1>17, <1>18, <1>19, <1>20, <1>21, <1>22 DEF Next, Install, Watchdog

\* In orderly runs the marker, the backup and the watchdog implement the abstract
\* upgrade: what is rejected is replaced by the release before it, what is accepted
\* stays.
THEOREM ImplementsSafeUpgrade == ASSUME Orderly PROVE Spec => TrialSpec
<1>1. Init => Trial!Init
  BY DEF Init, Trial!Init
<1>2. IInv /\ [Next]_vars => [Trial!Next]_Trial!vars
  BY TrialStep
<1> QED
  BY <1>1, <1>2, Invariance, PTL DEF Spec, TrialSpec, Trial!Spec

---------------------------------------------------------------------------
\* Dialing.

\* What is left of the deadline is enough for an even share for each address
\* not tried, and those tried in vain had at least that.
ShareLeft == Timeout - used >= Cardinality(untried) * EvenShare
TriedInVain ==
  \A i \in tried : addresses[i].accepts => addresses[i].takes >= EvenShare
DialTypes ==
  /\ netType \in {"tcp", "tcp4", "tcp6"}
  /\ addresses \in UNION { [1..n -> Remotes] : n \in 0..MaxRemotes }
  /\ dial \in {"resolve", "try", "connected", "failed", "closed"}
  /\ used \in 0..Timeout /\ resolved \in 0..Timeout
  /\ tried \subseteq candidates
DialingInv ==
  /\ DialTypes
  /\ dial = "resolve" => tried = {}
  /\ dial \in {"try", "failed"} /\ candidates # {} => ShareLeft /\ TriedInVain
  /\ dial = "failed" => untried = {} \/ used = Timeout
---------------------------------------------------------------------------
\* Arithmetic: a whole share for each of n, and what is left after one of them.
LEMMA Divided ==
  ASSUME NEW a \in Nat, NEW n \in Nat \ {0}
  PROVE  /\ a \div n \in Nat
         /\ n * (a \div n) <= a
         /\ a \div n <= a
         /\ \A s \in Nat : n * s <= a => s <= a \div n
<1>1. a \div n \in Nat /\ n * (a \div n) <= a /\ a < n * (a \div n) + n
  BY SMT
<1>2. a \div n <= a
  BY <1>1, SMT
<1>3. ASSUME NEW s \in Nat, n * s <= a PROVE s <= a \div n
  <2> DEFINE q == a \div n
  <2>1. ASSUME s >= q + 1 PROVE FALSE
    <3>1. n * s >= n * (q + 1)
      BY <1>1, <2>1, SMT
    <3>2. n * (q + 1) = n * q + n
      BY <1>1, SMT
    <3> QED BY <1>1, <1>3, <3>1, <3>2, SMT
  <2> QED BY <1>1, <2>1, SMT
<1> QED BY <1>1, <1>2, <1>3

LEMMA OneShareLess ==
  ASSUME NEW a \in Nat, NEW n \in Nat \ {0}, NEW s \in Nat, NEW t \in Nat,
         n * s <= a, t <= a \div n
  PROVE  a - t >= (n - 1) * s
<1> DEFINE q == a \div n
<1>1. q \in Nat /\ n * q <= a /\ s <= q
  BY Divided
<1>2. (n - 1) * s <= (n - 1) * q
  BY <1>1, SMT
<1>3. PICK m \in Nat, k \in Nat : m = n - 1 /\ n = m + 1 /\ k = q
  BY <1>1
<1>4. (m + 1) * k = m * k + k
  OBVIOUS
<1>5. (n - 1) * q = n * q - q
  <2>1. n * q = m * q + q /\ m * q \in Nat
    BY <1>3, <1>4
  <2> QED BY <1>1, <1>3, <2>1
<1> QED BY <1>1, <1>2, <1>5, SMT
---------------------------------------------------------------------------
\* The positions of the addresses, and of those of the family, are finitely many.
LEMMA DialPositions ==
  ASSUME DialTypes
  PROVE  /\ IsFiniteSet(candidates) /\ Cardinality(candidates) \in Nat
         /\ IsFiniteSet(untried) /\ Cardinality(untried) \in Nat
         /\ \A i \in candidates : addresses[i] \in [family : {4, 6}, takes : Nat, accepts : BOOLEAN]
         /\ candidates # {} => Cardinality(candidates) # 0 /\ EvenShare \in Nat
         /\ untried # {} => Cardinality(untried) # 0 /\ Share \in Nat /\ Share <= Timeout - used
<1>1. PICK n \in 0..MaxRemotes : addresses \in [1..n -> Remotes]
  BY DEF DialTypes
<1>2. candidates \subseteq 1..n /\ untried \subseteq candidates
  BY <1>1 DEF candidates, untried
<1>3. IsFiniteSet(1..n)
  BY <1>1, FS_Interval, DialBounds
<1>4. IsFiniteSet(candidates) /\ IsFiniteSet(untried)
  BY <1>2, <1>3, FS_Subset
<1>5. Cardinality(candidates) \in Nat /\ Cardinality(untried) \in Nat
  BY <1>4, FS_CardinalityType
<1>6. (candidates # {} => Cardinality(candidates) # 0) /\ (untried # {} => Cardinality(untried) # 0)
  BY <1>4, FS_EmptySet
<1>7. Timeout - used \in Nat /\ Timeout - resolved \in Nat
  BY DialBounds DEF DialTypes
<1>8. candidates # {} => EvenShare \in Nat
  BY <1>5, <1>6, <1>7, Divided DEF EvenShare
<1>9. untried # {} => Share \in Nat /\ Share <= Timeout - used
  BY <1>5, <1>6, <1>7, Divided DEF Share
<1>10. \A i \in candidates : addresses[i] \in [family : {4, 6}, takes : Nat, accepts : BOOLEAN]
  BY <1>1, <1>2, RemotesAnswer
<1> QED BY <1>4, <1>5, <1>6, <1>8, <1>9, <1>10

LEMMA DialingInit == InitDialing => DialingInv
BY DialBounds DEF InitDialing, DialingInv, DialTypes, ShareLeft, TriedInVain

\* The resolver takes a tick at most; before the first attempt nothing was tried.
LEMMA DialResolved ==
  ASSUME DialingInv, LookupIPAddr PROVE DialingInv'
<1>1. PICK ticks \in 0..1 : /\ resolved' = ticks /\ used' = ticks
                            /\ dial' = IF candidates = {} THEN "failed" ELSE "try"
  BY DEF LookupIPAddr
<1>2. tried = {} /\ UNCHANGED <<netType, addresses, tried>>
  BY DEF DialingInv, LookupIPAddr
<1>3. candidates' = candidates /\ untried = candidates /\ untried' = candidates
  BY <1>2 DEF candidates, untried
<1>4. DialTypes'
  BY <1>1, <1>2, <1>3, DialBounds DEF DialingInv, DialTypes
<1>5. candidates # {} => ShareLeft'
  <2> SUFFICES ASSUME candidates # {} PROVE ShareLeft'
    OBVIOUS
  <2>1. Cardinality(candidates) \in Nat \ {0}
    BY DialPositions DEF DialingInv
  <2>2. Timeout - ticks \in Nat
    BY <1>1, DialBounds
  <2>3. Cardinality(candidates) * ((Timeout - ticks) \div Cardinality(candidates)) <= Timeout - ticks
    BY <2>1, <2>2, Divided
  <2>4. EvenShare' = (Timeout - ticks) \div Cardinality(candidates)
    BY <1>1, <1>3 DEF EvenShare
  <2>5. (Timeout - ticks) \div Cardinality(candidates) \in Nat
    BY <2>1, <2>2, Divided
  <2> QED BY <1>1, <1>3, <2>1, <2>2, <2>3, <2>4, <2>5 DEF ShareLeft
<1> QED BY <1>1, <1>2, <1>3, <1>4, <1>5 DEF DialingInv, TriedInVain

\* An attempt that fails had its share, which is no less than an even one.
LEMMA DialAttempted ==
  ASSUME DialingInv, dialIPCandidates PROVE DialingInv'
<1>1. PICK i \in untried : Attempt(i)
  BY DEF dialIPCandidates
<1>2. dial = "try" /\ UNCHANGED <<netType, addresses, resolved>>
  BY DEF dialIPCandidates
<1>3. DialTypes
  BY DEF DialingInv
<1>4. candidates' = candidates /\ i \in candidates /\ untried' = untried \ {i}
  BY <1>1, <1>2 DEF candidates, untried, Attempt
<1>5. ShareLeft /\ TriedInVain
  BY <1>2, <1>4 DEF DialingInv
<1>6. EvenShare' = EvenShare /\ EvenShare \in Nat
  BY <1>2, <1>3, <1>4, DialPositions DEF EvenShare
<1> DEFINE n == Cardinality(untried)
           a == Timeout - used
           t == used' - used
<1>7. n \in Nat \ {0} /\ a \in Nat /\ Share \in Nat /\ Share <= a /\ Share = a \div n
  BY <1>1, <1>3, DialPositions, DialBounds DEF DialTypes, Share
<1>8. Cardinality(untried') = n - 1
  BY <1>1, <1>3, <1>4, DialPositions, FS_RemoveElement
<1>9. addresses[i].takes \in Nat
  BY <1>3, <1>4, DialPositions
<1>10. t \in Nat /\ t <= Share /\ used' = used + t
  BY SMTT(30), <1>1, <1>3, <1>7, <1>9 DEF Attempt, DialTypes
<1>11. used' \in 0..Timeout /\ Timeout - used' = a - t
  BY <1>3, <1>7, <1>10, DialBounds DEF DialTypes
<1>12. ShareLeft'
  <2>1. n * EvenShare <= a
    BY <1>5, <1>6, <1>7 DEF ShareLeft
  <2>2. a - t >= (n - 1) * EvenShare
    BY <1>6, <1>7, <1>10, <2>1, OneShareLess
  <2> QED BY <1>6, <1>8, <1>11, <2>2 DEF ShareLeft
<1>13. Share >= EvenShare
  BY <1>5, <1>6, <1>7, Divided DEF ShareLeft
<1>14. dial' # "connected" => TriedInVain'
  <2> SUFFICES ASSUME dial' # "connected", NEW j \in tried \cup {i}, addresses[j].accepts
               PROVE  addresses[j].takes >= EvenShare
    BY <1>1, <1>2, <1>6 DEF TriedInVain, Attempt
  <2>1. CASE j \in tried
    BY <1>5, <2>1 DEF TriedInVain
  <2>2. CASE j = i
    BY <1>1, <1>6, <1>7, <1>9, <1>13, <2>2 DEF Attempt
  <2> QED BY <2>1, <2>2
<1>15. DialTypes'
  BY <1>1, <1>2, <1>3, <1>4, <1>11 DEF DialTypes, Attempt
<1>16. dial' \in {"connected", "failed", "try"}
  BY <1>1 DEF Attempt
<1>17. dial' = "failed" => untried' = {} \/ used' = Timeout
  BY <1>1, <1>4, <1>11, DialBounds DEF Attempt
<1> QED BY <1>12, <1>14, <1>15, <1>16, <1>17 DEF DialingInv

LEMMA DialingStep == DialingInv /\ [NextDialing]_dialVars => DialingInv'
<1> SUFFICES ASSUME DialingInv, [NextDialing]_dialVars PROVE DialingInv'
  OBVIOUS
<1>1. CASE LookupIPAddr
  BY <1>1, DialResolved
<1>2. CASE dialIPCandidates
  BY <1>2, DialAttempted
<1>3. CASE Cancel
  BY <1>3 DEF Cancel, DialingInv, DialTypes, candidates
<1>4. CASE UNCHANGED dialVars
  BY <1>4 DEF dialVars, DialingInv, DialTypes, candidates, untried, ShareLeft, TriedInVain, EvenShare
<1> QED BY <1>1, <1>2, <1>3, <1>4 DEF NextDialing

\* A dial fails only if no address of the family would have accepted within an
\* even share of the deadline (dialIPCandidates: "a blackholed first address must
\* not consume the time reserved for reachable alternatives").
THEOREM NoneStarved == DialingSpec => []ReachableReached
<1>1. DialingInv => ReachableReached
  <2> SUFFICES ASSUME DialingInv, dial = "failed", NEW i \in candidates, addresses[i].accepts
               PROVE  addresses[i].takes >= EvenShare
    BY DEF ReachableReached
  <2>1. DialTypes /\ ShareLeft /\ TriedInVain
    BY DEF DialingInv
  <2>2. CASE i \in tried
    BY <2>1, <2>2 DEF TriedInVain
  <2>3. CASE i \notin tried
    <3>1. used = Timeout /\ untried # {}
      BY <2>3 DEF DialingInv, untried
    <3>2. Cardinality(untried) \in Nat \ {0} /\ EvenShare \in Nat /\ addresses[i].takes \in Nat
      BY <2>1, <3>1, DialPositions
    <3>3. 0 >= Cardinality(untried) * EvenShare
      BY <2>1, <3>1, DialBounds DEF ShareLeft
    <3>4. EvenShare = 0
      BY <3>2, <3>3, SMT
    <3> QED BY <3>2, <3>4
  <2> QED BY <2>2, <2>3
<1> QED BY <1>1, DialingInit, DialingStep, PTL DEF DialingSpec
---------------------------------------------------------------------------
\* Native UDP.

NearEnds == [pc : {"none", "dialling", "open", "closed"}, send : Nat, last : Nat]
FarEnds == [pc : {"none", "opening", "open"}, send : Nat, last : Nat]
Datagrams == [id : Ids, back : BOOLEAN, kind : {"open", "data"}, seq : Nat]
Consent(id) == Datagram(id, TRUE, "open", 1)

UdpTypes ==
  /\ near \in [Ids -> NearEnds] /\ far \in [Ids -> FarEnds]
  /\ nonces \subseteq Ids /\ network \subseteq Datagrams
  /\ uplink \in [Ids -> Seq(Nat)] /\ downlink \in [Ids -> Seq(Nat)]

Increasing(s) == \A i, j \in DOMAIN s : i < j => s[i] < s[j]
UpTo(s, n) == \A i \in DOMAIN s : s[i] <= n

\* What an end was given is in order and not newer than the last number it keeps; it is
\* given nothing before it is open.
NearInv(id) ==
  /\ Increasing(downlink[id]) /\ UpTo(downlink[id], near[id].last)
  /\ near[id].pc \in {"none", "dialling"} => downlink[id] = <<>>
\* A gateway forgets that number with the session, but its request is remembered, so
\* that a session which was ever given something is not opened again; nor is one to
\* which the gateway has consented.
FarInv(id) ==
  /\ Increasing(uplink[id])
  /\ far[id].pc = "open" => UpTo(uplink[id], far[id].last)
  /\ far[id].pc = "opening" \/ id \notin nonces => uplink[id] = <<>> /\ Consent(id) \notin network
  /\ far[id].pc # "none" => id \in nonces

UdpInv ==
  /\ UdpTypes
  /\ IsFiniteSet(Ends(far, "open")) /\ TableBounded
  /\ \A id \in Ids : NearInv(id) /\ FarInv(id)
---------------------------------------------------------------------------
\* A number newer than all that were given keeps what is given in order.
LEMMA Appended ==
  ASSUME NEW s \in Seq(Nat), NEW n \in Nat, NEW m \in Nat, Increasing(s), UpTo(s, n), m > n
  PROVE  Append(s, m) \in Seq(Nat) /\ Increasing(Append(s, m)) /\ UpTo(Append(s, m), m)
<1> DEFINE t == Append(s, m)
<1>1. /\ t \in Seq(Nat) /\ DOMAIN t = 1 .. Len(s) + 1 /\ DOMAIN s = 1 .. Len(s)
      /\ t[Len(s) + 1] = m /\ Len(s) \in Nat
      /\ \A i \in 1 .. Len(s) : t[i] = s[i]
  OBVIOUS
<1> HIDE DEF t
<1>2. \A i \in 1 .. Len(s) : s[i] \in Nat /\ s[i] < m
  <2> TAKE i \in 1 .. Len(s)
  <2>1. s[i] \in Nat
    OBVIOUS
  <2>2. s[i] <= n
    BY <1>1 DEF UpTo
  <2> QED BY <2>1, <2>2
<1>3. \A i \in DOMAIN t : t[i] <= m
  BY <1>1, <1>2
<1>4. \A i, j \in DOMAIN t : i < j => t[i] < t[j]
  <2> SUFFICES ASSUME NEW i \in DOMAIN t, NEW j \in DOMAIN t, i < j PROVE t[i] < t[j]
    OBVIOUS
  <2>1. i \in 1 .. Len(s) /\ t[i] = s[i]
    BY <1>1
  <2>2. CASE j = Len(s) + 1
    BY <1>1, <1>2, <2>1, <2>2
  <2>3. CASE j \in 1 .. Len(s)
    BY <1>1, <2>1, <2>3 DEF Increasing
  <2> QED BY <1>1, <2>2, <2>3
<1> QED BY <1>1, <1>3, <1>4 DEF Increasing, UpTo, t

LEMMA DatagramType ==
  ASSUME NEW id \in Ids, NEW back \in BOOLEAN, NEW kind \in {"open", "data"}, NEW seq \in Nat
  PROVE  Datagram(id, back, kind, seq) \in Datagrams
BY DEF Datagram, Datagrams

LEMMA NothingGiven == Increasing(<<>>) /\ \A n \in Nat : UpTo(<<>>, n)
BY DEF Increasing, UpTo

LEMMA UdpInit == InitUdp => UdpInv
<1> SUFFICES ASSUME InitUdp PROVE UdpInv
  OBVIOUS
<1>1. UdpTypes
  BY DEF InitUdp, UdpTypes, NearEnds, FarEnds, NoSession
<1>2. Ends(far, "open") = {}
  BY DEF InitUdp, Ends, NoSession
<1>3. IsFiniteSet(Ends(far, "open")) /\ TableBounded
  BY <1>2, FS_EmptySet, UdpBounds DEF TableBounded
<1>4. ASSUME NEW id \in Ids PROVE NearInv(id) /\ FarInv(id)
  <2>1. /\ uplink[id] = <<>> /\ downlink[id] = <<>> /\ network = {} /\ nonces = {}
        /\ near[id] = NoSession /\ far[id] = NoSession
    BY DEF InitUdp
  <2> QED BY <2>1, NothingGiven DEF NearInv, FarInv, NoSession
<1> QED BY <1>1, <1>3, <1>4 DEF UdpInv

\* A step that leaves the gateway's ends, requests and history alone, and adds no
\* consent, keeps what is said of the gateway.
LEMMA GatewayKept ==
  ASSUME UdpInv, UNCHANGED <<far, nonces, uplink>>,
         \A id \in Ids : Consent(id) \in network' => Consent(id) \in network
  PROVE  /\ IsFiniteSet(Ends(far, "open"))' /\ TableBounded'
         /\ \A id \in Ids : FarInv(id)'
<1>1. IsFiniteSet(Ends(far, "open"))' /\ TableBounded'
  BY DEF UdpInv, Ends, TableBounded
<1>2. ASSUME NEW id \in Ids PROVE FarInv(id)'
  BY DEF UdpInv, FarInv, Increasing, UpTo, Consent, Datagram
<1> QED BY <1>1, <1>2

LEMMA EntranceKept ==
  ASSUME UdpInv, NEW id \in Ids, near'[id] = near[id], downlink'[id] = downlink[id]
  PROVE  NearInv(id)'
BY DEF UdpInv, NearInv, Increasing, UpTo

LEMMA UdpDials == ASSUME UdpInv, NEW x \in Ids, DialNativeUDP(x) PROVE UdpInv'
<1>1. /\ near[x].pc = "none" /\ near' = [near EXCEPT ![x] = [pc |-> "dialling", send |-> 1, last |-> 0]]
      /\ network' = network \cup {Datagram(x, FALSE, "open", 1)}
      /\ UNCHANGED <<far, nonces, uplink, downlink>>
  BY DEF DialNativeUDP
<1>2. UdpTypes'
  <2>1. near \in [Ids -> NearEnds] /\ near[x].send + 1 \in Nat
    BY DEF UdpInv, UdpTypes, NearEnds
  <2>2. network' \subseteq Datagrams
    BY <1>1, <2>1, DatagramType DEF UdpInv, UdpTypes
  <2>3. near' \in [Ids -> NearEnds]
    BY <1>1, <2>1 DEF NearEnds
  <2> QED BY <1>1, <2>2, <2>3 DEF UdpInv, UdpTypes
<1>3. \A id \in Ids : Consent(id) \in network' => Consent(id) \in network
  BY <1>1 DEF Consent, Datagram
<1>4. ASSUME NEW id \in Ids PROVE NearInv(id)'
  <2>1. CASE id = x
    <3>1. downlink'[x] = <<>> /\ near'[x].last = 0
      BY <1>1 DEF UdpInv, UdpTypes, NearInv
    <3> QED BY <2>1, <3>1, NothingGiven DEF NearInv
  <2>2. CASE id # x
    BY <1>1, <2>2, EntranceKept DEF UdpInv, UdpTypes
  <2> QED BY <2>1, <2>2
<1> QED BY <1>1, <1>2, <1>3, <1>4, GatewayKept DEF UdpInv

\* The first answer is taken while nothing has been given.
LEMMA UdpAnswers == ASSUME UdpInv, NEW x \in Ids, Dialled(x) PROVE UdpInv'
<1>1. PICK d \in network :
        /\ near[x].pc = "dialling"
        /\ near' = [near EXCEPT ![x] = IF d.kind = "open" THEN [@ EXCEPT !.pc = "open", !.last = d.seq]
                                       ELSE [@ EXCEPT !.pc = "closed"]]
        /\ UNCHANGED <<far, nonces, network, uplink, downlink>>
  BY DEF Dialled
<1>2. d.seq \in Nat
  BY DEF UdpInv, UdpTypes, Datagrams
<1>3. near'[x] \in NearEnds /\ near' \in [Ids -> NearEnds]
  <2>1. near \in [Ids -> NearEnds]
    BY DEF UdpInv, UdpTypes
  <2> QED BY <1>1, <1>2, <2>1 DEF NearEnds
<1>4. UdpTypes'
  BY <1>1, <1>3 DEF UdpInv, UdpTypes
<1>5. ASSUME NEW id \in Ids PROVE NearInv(id)'
  <2>1. CASE id = x
    <3>1. downlink'[x] = <<>> /\ near'[x].last \in Nat
      BY <1>1, <1>3 DEF UdpInv, NearInv, NearEnds
    <3> QED BY <2>1, <3>1, NothingGiven DEF NearInv
  <2>2. CASE id # x
    BY <1>1, <2>2, EntranceKept DEF UdpInv, UdpTypes
  <2> QED BY <2>1, <2>2
<1> QED BY <1>1, <1>4, <1>5, GatewayKept DEF UdpInv

LEMMA UdpHangsUp == ASSUME UdpInv, NEW x \in Ids, HangUpNear(x) PROVE UdpInv'
<1>1. /\ near' = [near EXCEPT ![x].pc = "closed"]
      /\ UNCHANGED <<far, nonces, network, uplink, downlink>>
  BY DEF HangUpNear
<1>2. UdpTypes'
  BY <1>1 DEF UdpInv, UdpTypes, NearEnds
<1>3. ASSUME NEW id \in Ids PROVE NearInv(id)'
  <2>1. near'[id].last = near[id].last /\ (near'[id].pc = near[id].pc \/ near'[id].pc = "closed")
    BY <1>1 DEF UdpInv, UdpTypes, NearEnds
  <2> QED BY <1>1, <2>1 DEF UdpInv, NearInv, Increasing, UpTo
<1> QED BY <1>1, <1>2, <1>3, GatewayKept DEF UdpInv

LEMMA UdpWrites == ASSUME UdpInv, NEW x \in Ids, Write(x) PROVE UdpInv'
<1>1. /\ near' = [near EXCEPT ![x].send = @ + 1]
      /\ network' = network \cup {Datagram(x, FALSE, "data", near[x].send + 1)}
      /\ UNCHANGED <<far, nonces, uplink, downlink>>
  BY DEF Write
<1>2. UdpTypes'
  <2>1. near \in [Ids -> NearEnds] /\ near[x].send + 1 \in Nat
    BY DEF UdpInv, UdpTypes, NearEnds
  <2>2. network' \subseteq Datagrams
    BY <1>1, <2>1, DatagramType DEF UdpInv, UdpTypes
  <2>3. near' \in [Ids -> NearEnds]
    BY <1>1, <2>1 DEF NearEnds
  <2> QED BY <1>1, <2>2, <2>3 DEF UdpInv, UdpTypes
<1>3. \A id \in Ids : Consent(id) \in network' => Consent(id) \in network
  BY <1>1 DEF Consent, Datagram
<1>4. ASSUME NEW id \in Ids PROVE NearInv(id)'
  <2>1. near'[id].last = near[id].last /\ near'[id].pc = near[id].pc
    BY <1>1 DEF UdpInv, UdpTypes, NearEnds
  <2> QED BY <1>1, <2>1 DEF UdpInv, NearInv, Increasing, UpTo
<1> QED BY <1>1, <1>2, <1>3, <1>4, GatewayKept DEF UdpInv

LEMMA UdpReads == ASSUME UdpInv, NEW d \in network, Read(d) PROVE UdpInv'
<1> DEFINE x == d.id
<1>1. /\ near[x].pc = "open" /\ d.seq > near[x].last
      /\ near' = [near EXCEPT ![x].last = d.seq]
      /\ downlink' = [downlink EXCEPT ![x] = Append(@, d.seq)]
      /\ UNCHANGED <<far, nonces, network, uplink>>
  BY DEF Read, Newer
<1>2. x \in Ids /\ d.seq \in Nat
  BY DEF UdpInv, UdpTypes, Datagrams
<1> HIDE DEF x
<1>3. /\ Append(downlink[x], d.seq) \in Seq(Nat) /\ Increasing(Append(downlink[x], d.seq))
      /\ UpTo(Append(downlink[x], d.seq), d.seq)
  <2>1. /\ downlink[x] \in Seq(Nat) /\ near[x].last \in Nat
        /\ Increasing(downlink[x]) /\ UpTo(downlink[x], near[x].last)
    BY <1>2 DEF UdpInv, UdpTypes, NearEnds, NearInv
  <2> QED BY <1>1, <1>2, <2>1, Appended
<1>4. UdpTypes'
  BY <1>1, <1>2, <1>3 DEF UdpInv, UdpTypes, NearEnds
<1>5. ASSUME NEW id \in Ids PROVE NearInv(id)'
  <2>1. CASE id = x
    <3>1. downlink'[x] = Append(downlink[x], d.seq) /\ near'[x].last = d.seq /\ near'[x].pc = "open"
      BY <1>1, <1>2 DEF UdpInv, UdpTypes, NearEnds
    <3> QED BY <1>3, <2>1, <3>1 DEF NearInv
  <2>2. CASE id # x
    BY <1>1, <2>2, EntranceKept DEF UdpInv, UdpTypes
  <2> QED BY <2>1, <2>2
<1> QED BY <1>1, <1>4, <1>5, GatewayKept DEF UdpInv

\* What a step of the gateway for one session leaves alone of the others.
LEMMA OthersKept ==
  ASSUME UdpInv, NEW id \in Ids, far'[id] = far[id], uplink'[id] = uplink[id],
         id \in nonces' <=> id \in nonces, Consent(id) \in network' => Consent(id) \in network
  PROVE  FarInv(id)'
BY DEF UdpInv, FarInv, Increasing, UpTo, Consent, Datagram

LEMMA UdpOpens == ASSUME UdpInv, NEW d \in network, OpenSession(d) PROVE UdpInv'
<1> DEFINE x == d.id
<1>1. /\ x \notin nonces /\ far[x].pc # "open" /\ nonces' = nonces \cup {x}
      /\ \/ far' = [far EXCEPT ![x] = [pc |-> "opening", send |-> 0, last |-> d.seq]]
         \/ UNCHANGED far
      /\ UNCHANGED <<near, network, uplink, downlink>>
  BY DEF OpenSession, Replayed
<1>2. x \in Ids /\ d.seq \in Nat
  BY DEF UdpInv, UdpTypes, Datagrams
<1> HIDE DEF x
<1>0. far \in [Ids -> FarEnds]
  BY DEF UdpInv, UdpTypes
<1>3. UdpTypes'
  <2>1. far' \in [Ids -> FarEnds]
    BY <1>0, <1>1, <1>2 DEF FarEnds
  <2>2. nonces' \subseteq Ids
    BY <1>1, <1>2 DEF UdpInv, UdpTypes
  <2> QED BY <1>1, <2>1, <2>2 DEF UdpInv, UdpTypes
<1>4. Ends(far, "open")' = Ends(far, "open")
  <2>1. \A id \in Ids : far'[id].pc = "open" <=> far[id].pc = "open"
    BY <1>0, <1>1, <1>2
  <2> QED BY <2>1 DEF Ends
<1>5. ASSUME NEW id \in Ids PROVE FarInv(id)'
  <2>1. CASE id = x
    <3>1. uplink'[x] = <<>> /\ Consent(x) \notin network' /\ x \in nonces' /\ far'[x].pc # "open"
      BY <1>1, <1>2 DEF UdpInv, UdpTypes, FarInv
    <3> QED BY <2>1, <3>1, NothingGiven DEF FarInv, Consent, Datagram
  <2>2. CASE id # x
    BY <1>1, <2>2, OthersKept DEF UdpInv, UdpTypes
  <2> QED BY <2>1, <2>2
<1>6. \A id \in Ids : NearInv(id)'
  BY <1>1, EntranceKept DEF UdpInv
<1> QED BY <1>3, <1>4, <1>5, <1>6 DEF UdpInv, TableBounded

\* The table has room, or the session that was being opened is dropped.
LEMMA UdpStarts == ASSUME UdpInv, NEW x \in Ids, NEW ok \in BOOLEAN, StartUDPSession(x, ok) PROVE UdpInv'
<1>1. far[x].pc = "opening" /\ UNCHANGED <<near, nonces, uplink, downlink>>
  BY DEF StartUDPSession
<1>2. /\ far \in [Ids -> FarEnds] /\ uplink[x] = <<>> /\ x \in nonces
      /\ Consent(x) \notin network /\ far[x].last \in Nat
  BY <1>1 DEF UdpInv, UdpTypes, FarInv, FarEnds
<1>3. \A id \in Ids : NearInv(id)'
  BY <1>1, EntranceKept DEF UdpInv
<1>4. ASSUME NEW id \in Ids, id # x PROVE FarInv(id)'
  <2>1. far'[id] = far[id] /\ (Consent(id) \in network' => Consent(id) \in network)
    BY <1>2, <1>4 DEF StartUDPSession, Consent, Datagram
  <2> QED BY <1>1, <2>1, OthersKept
<1>5. CASE ok /\ ~Full
  <2>1. /\ far' = [far EXCEPT ![x].pc = "open", ![x].send = 1]
        /\ network' = network \cup {Consent(x)}
    BY <1>5 DEF StartUDPSession, Consent
  <2>2. UdpTypes'
    <3>1. network' \subseteq Datagrams
      BY <2>1, DatagramType DEF UdpInv, UdpTypes, Consent
    <3>2. far' \in [Ids -> FarEnds]
      BY <1>2, <2>1 DEF FarEnds
    <3> QED BY <1>1, <3>1, <3>2 DEF UdpInv, UdpTypes
  <2>3. Ends(far, "open")' = Ends(far, "open") \cup {x} /\ x \notin Ends(far, "open")
    BY <1>1, <1>2, <2>1 DEF Ends, FarEnds
  <2>4. IsFiniteSet(Ends(far, "open"))' /\ TableBounded'
    <3>1. /\ IsFiniteSet(Ends(far, "open")) /\ Cardinality(Ends(far, "open")) \in Nat
          /\ Cardinality(Ends(far, "open")) < Capacity /\ Capacity \in Nat
      BY <1>5, FS_CardinalityType, UdpBounds DEF UdpInv, Full
    <3>2. /\ IsFiniteSet(Ends(far, "open") \cup {x})
          /\ Cardinality(Ends(far, "open") \cup {x}) = Cardinality(Ends(far, "open")) + 1
      BY <2>3, <3>1, FS_AddElement
    <3> QED BY <2>3, <3>1, <3>2 DEF TableBounded
  <2>5. FarInv(x)'
    <3>1. far'[x].pc = "open" /\ far'[x].last = far[x].last /\ far'[x].last \in Nat
      BY <1>2, <2>1 DEF FarEnds
    <3> QED BY <1>1, <1>2, <3>1, NothingGiven DEF FarInv
  <2> QED BY <1>3, <1>4, <2>2, <2>4, <2>5 DEF UdpInv
<1>6. CASE ~(ok /\ ~Full)
  <2>1. far' = [far EXCEPT ![x].pc = "none"] /\ UNCHANGED network
    BY <1>6 DEF StartUDPSession
  <2>2. UdpTypes'
    BY <1>1, <2>1 DEF UdpInv, UdpTypes, FarEnds
  <2>3. Ends(far, "open")' = Ends(far, "open")
    BY <1>1, <1>2, <2>1 DEF Ends, FarEnds
  <2>4. FarInv(x)'
    <3>1. far'[x].pc = "none"
      BY <1>2, <2>1 DEF FarEnds
    <3> QED BY <1>1, <1>2, <2>1, <3>1, NothingGiven DEF FarInv, Consent, Datagram
  <2> QED BY <1>3, <1>4, <2>2, <2>3, <2>4 DEF UdpInv, TableBounded
<1> QED BY <1>5, <1>6

LEMMA UdpForwards == ASSUME UdpInv, NEW d \in network, Forward(d) PROVE UdpInv'
<1> DEFINE x == d.id
<1>1. /\ far[x].pc = "open" /\ d.seq > far[x].last
      /\ far' = [far EXCEPT ![x].last = d.seq]
      /\ uplink' = [uplink EXCEPT ![x] = Append(@, d.seq)]
      /\ UNCHANGED <<near, nonces, network, downlink>>
  BY DEF Forward, Newer
<1>2. x \in Ids /\ d.seq \in Nat
  BY DEF UdpInv, UdpTypes, Datagrams
<1> HIDE DEF x
<1>3. /\ Append(uplink[x], d.seq) \in Seq(Nat) /\ Increasing(Append(uplink[x], d.seq))
      /\ UpTo(Append(uplink[x], d.seq), d.seq)
  <2>1. /\ uplink[x] \in Seq(Nat) /\ far[x].last \in Nat
        /\ Increasing(uplink[x]) /\ UpTo(uplink[x], far[x].last)
    BY <1>1, <1>2 DEF UdpInv, UdpTypes, FarEnds, FarInv
  <2> QED BY <1>1, <1>2, <2>1, Appended
<1>4. UdpTypes'
  BY <1>1, <1>2, <1>3 DEF UdpInv, UdpTypes, FarEnds
<1>5. Ends(far, "open")' = Ends(far, "open")
  BY <1>1, <1>2 DEF UdpInv, UdpTypes, FarEnds, Ends
<1>6. ASSUME NEW id \in Ids PROVE FarInv(id)'
  <2>1. CASE id = x
    <3>1. /\ uplink'[x] = Append(uplink[x], d.seq) /\ far'[x].last = d.seq
          /\ far'[x].pc = "open" /\ x \in nonces'
      BY <1>1, <1>2 DEF UdpInv, UdpTypes, FarEnds, FarInv
    <3> QED BY <1>3, <2>1, <3>1 DEF FarInv
  <2>2. CASE id # x
    BY <1>1, <2>2, OthersKept DEF UdpInv, UdpTypes
  <2> QED BY <2>1, <2>2
<1>7. \A id \in Ids : NearInv(id)'
  BY <1>1, EntranceKept DEF UdpInv
<1> QED BY <1>4, <1>5, <1>6, <1>7 DEF UdpInv, TableBounded

LEMMA UdpResponds == ASSUME UdpInv, NEW x \in Ids, Respond(x) PROVE UdpInv'
<1>1. /\ far[x].pc = "open" /\ far' = [far EXCEPT ![x].send = @ + 1]
      /\ network' = network \cup {Datagram(x, TRUE, "data", far[x].send + 1)}
      /\ UNCHANGED <<near, nonces, uplink, downlink>>
  BY DEF Respond
<1>2. far \in [Ids -> FarEnds] /\ far[x].send + 1 \in Nat
  BY DEF UdpInv, UdpTypes, FarEnds
<1>3. UdpTypes'
  <2>1. network' \subseteq Datagrams
    BY <1>1, <1>2, DatagramType DEF UdpInv, UdpTypes
  <2>2. far' \in [Ids -> FarEnds]
    BY <1>1, <1>2 DEF FarEnds
  <2> QED BY <1>1, <2>1, <2>2 DEF UdpInv, UdpTypes
<1>4. \A id \in Ids : far'[id].pc = far[id].pc /\ far'[id].last = far[id].last
  BY <1>1, <1>2 DEF FarEnds
<1>5. Ends(far, "open")' = Ends(far, "open")
  BY <1>4 DEF Ends
<1>6. ASSUME NEW id \in Ids PROVE FarInv(id)'
  <2>1. Consent(id) \in network' => Consent(id) \in network
    BY <1>1 DEF Consent, Datagram
  <2>2. Consent(id)' = Consent(id)
    BY DEF Consent, Datagram
  <2> QED BY <1>1, <1>4, <2>1, <2>2 DEF UdpInv, FarInv
<1>7. \A id \in Ids : NearInv(id)'
  BY <1>1, EntranceKept DEF UdpInv
<1> QED BY <1>3, <1>5, <1>6, <1>7 DEF UdpInv, TableBounded

LEMMA UdpEnded == ASSUME UdpInv, NEW x \in Ids, EndSession(x) PROVE UdpInv'
<1>1. /\ far[x].pc = "open" /\ far' = [far EXCEPT ![x] = [pc |-> "none", send |-> 0, last |-> 0]]
      /\ UNCHANGED <<near, nonces, network, uplink, downlink>>
  BY DEF EndSession, NoSession
<1>2. far \in [Ids -> FarEnds]
  BY DEF UdpInv, UdpTypes
<1>3. UdpTypes'
  BY <1>1, <1>2 DEF UdpInv, UdpTypes, FarEnds
<1>4. Ends(far, "open")' = Ends(far, "open") \ {x} /\ x \in Ends(far, "open")
  BY <1>1, <1>2 DEF Ends
<1>5. IsFiniteSet(Ends(far, "open"))' /\ TableBounded'
  <2>1. /\ IsFiniteSet(Ends(far, "open")) /\ Cardinality(Ends(far, "open")) \in Nat
        /\ Cardinality(Ends(far, "open")) <= Capacity /\ Capacity \in Nat
    BY FS_CardinalityType, UdpBounds DEF UdpInv, TableBounded
  <2>2. /\ IsFiniteSet(Ends(far, "open") \ {x})
        /\ Cardinality(Ends(far, "open") \ {x}) = Cardinality(Ends(far, "open")) - 1
    BY <1>4, <2>1, FS_RemoveElement
  <2>3. PICK n \in Nat, room \in Nat : n = Cardinality(Ends(far, "open")) /\ room = Capacity /\ n <= room
    BY <2>1
  <2>4. Cardinality(Ends(far, "open")') = n - 1
    BY <1>4, <2>2, <2>3, Zenon
  <2>5. Cardinality(Ends(far, "open")') <= Capacity
    BY <2>3, <2>4
  <2> QED BY <1>4, <2>2, <2>5 DEF TableBounded
<1>6. ASSUME NEW id \in Ids PROVE FarInv(id)'
  <2>1. CASE id = x
    <3>1. far'[x].pc = "none" /\ x \in nonces /\ Increasing(uplink[x])
      BY <1>1, <1>2 DEF UdpInv, FarInv
    <3> QED BY <1>1, <2>1, <3>1 DEF FarInv
  <2>2. CASE id # x
    BY <1>1, <1>2, <2>2, OthersKept
  <2> QED BY <2>1, <2>2
<1>7. \A id \in Ids : NearInv(id)'
  BY <1>1, EntranceKept DEF UdpInv
<1> QED BY <1>3, <1>5, <1>6, <1>7 DEF UdpInv

LEMMA UdpStep == UdpInv /\ [NextUdp]_udpVars => UdpInv'
<1> SUFFICES ASSUME UdpInv, [NextUdp]_udpVars PROVE UdpInv'
  OBVIOUS
<1>1. ASSUME NEW id \in Ids, DialNativeUDP(id) PROVE UdpInv'
  BY <1>1, UdpDials
<1>2. ASSUME NEW id \in Ids, Dialled(id) PROVE UdpInv'
  BY <1>2, UdpAnswers
<1>3. ASSUME NEW id \in Ids, HangUpNear(id) PROVE UdpInv'
  BY <1>3, UdpHangsUp
<1>4. ASSUME NEW id \in Ids, Write(id) PROVE UdpInv'
  BY <1>4, UdpWrites
<1>5. ASSUME NEW id \in Ids, Respond(id) PROVE UdpInv'
  BY <1>5, UdpResponds
<1>6. ASSUME NEW id \in Ids, EndSession(id) PROVE UdpInv'
  BY <1>6, UdpEnded
<1>7. ASSUME NEW id \in Ids, NEW ok \in BOOLEAN, StartUDPSession(id, ok) PROVE UdpInv'
  BY <1>7, UdpStarts
<1>8. ASSUME NEW d \in network, Read(d) PROVE UdpInv'
  BY <1>8, UdpReads
<1>9. ASSUME NEW d \in network, OpenSession(d) PROVE UdpInv'
  BY <1>9, UdpOpens
<1>10. ASSUME NEW d \in network, Forward(d) PROVE UdpInv'
  BY <1>10, UdpForwards
<1>11. CASE UNCHANGED udpVars
  BY <1>11 DEF udpVars, UdpInv, UdpTypes, TableBounded, Ends, NearInv, FarInv, Increasing, UpTo,
               Consent, Datagram
<1> QED BY <1>1, <1>2, <1>3, <1>4, <1>5, <1>6, <1>7, <1>8, <1>9, <1>10, <1>11 DEF NextUdp

\* A session becomes open only by StartUDPSession, which finds it opening: the gateway
\* has not consented to it before.
LEMMA OpenedOnce ==
  ASSUME UdpInv, [NextUdp]_udpVars, NEW x \in Ids, far[x].pc # "open", far'[x].pc = "open"
  PROVE  Consent(x) \notin network
<1>1. far \in [Ids -> FarEnds]
  BY DEF UdpInv, UdpTypes
<1>2. far[x].pc = "opening"
  <2>1. CASE UNCHANGED far
    BY <2>1
  <2>2. ASSUME NEW id \in Ids, Respond(id) PROVE far'[x].pc = far[x].pc
    BY <1>1, <2>2 DEF Respond, FarEnds
  <2>3. ASSUME NEW id \in Ids, EndSession(id) PROVE far'[x].pc # "open"
    BY <1>1, <2>3 DEF EndSession, NoSession
  <2>4. ASSUME NEW id \in Ids, NEW ok \in BOOLEAN, StartUDPSession(id, ok)
        PROVE  far[x].pc = "opening"
    BY <1>1, <2>4 DEF StartUDPSession
  <2>5. ASSUME NEW d \in network, OpenSession(d) PROVE far'[x].pc # "open"
    BY <1>1, <2>5 DEF OpenSession
  <2>6. ASSUME NEW d \in network, Forward(d) PROVE far'[x].pc = far[x].pc
    BY <1>1, <2>6 DEF Forward, FarEnds
  <2> QED BY <2>1, <2>2, <2>3, <2>4, <2>5, <2>6
          DEF NextUdp, udpVars, DialNativeUDP, Dialled, HangUpNear, Write, Read
<1> QED BY <1>2 DEF UdpInv, FarInv

\* Native UDP is a faithful session service: each end is given the other's datagrams in
\* order and once, the gateway's table keeps its capacity, and no session comes back
\* (serveNativeUDP, startUDPSession, nativePacketConn).
THEOREM UdpIsFaithful == UdpSpec => UdpFaithful
<1>1. UdpInv => InOrder /\ TableBounded
  BY DEF UdpInv, InOrder, NearInv, FarInv, Increasing
<1>2. UdpInv /\ [NextUdp]_udpVars =>
        [\A id \in Ids : far[id].pc # "open" /\ far'[id].pc = "open" =>
           Datagram(id, TRUE, "open", 1) \notin network]_udpVars
  BY OpenedOnce DEF Consent
<1> QED BY <1>1, <1>2, UdpInit, UdpStep, PTL DEF UdpSpec, UdpFaithful, NoRevival

---------------------------------------------------------------------------
\* Reverse tunnels.

Pipes == [era : Nat, age : Nat, near : BOOLEAN, far : {"open", "hung up", "died"}, acquired : BOOLEAN]
ClientStates == [pc : {"idle", "wait", "ask", "served"}, era : Nat, wait : Nat, pipe : Nat]
ReverseTypes ==
  /\ era \in Nat \ {0} /\ pipes \in Seq(Pipes) /\ queue \in Seq(Nat)
  /\ worker \in [Workers -> Nat] /\ fresh \subseteq 1..made
  /\ client \in [Clients -> ClientStates]
\* A connection is on its way into the queue, in the queue once, or out of it, and then
\* it is a client's at most.
QueuedOnce ==
  /\ Len(queue) <= Pool
  /\ \A i \in DOMAIN queue : /\ queue[i] \in 1..made /\ queue[i] \notin fresh
                             /\ ~pipes[queue[i]].acquired
  /\ \A i, j \in DOMAIN queue : queue[i] = queue[j] => i = j
  /\ \A p \in fresh : ~pipes[p].acquired
TakenOnce ==
  /\ \A w \in Workers : worker[w] \in 0..made
  /\ \A c \in Clients : /\ client[c].pc \in {"ask", "served"} => client[c].pipe # 0
                        /\ client[c].pipe # 0 => client[c].pipe \in 1..made /\ pipes[client[c].pipe].acquired
  /\ \A c, d \in Clients : client[c].pipe = client[d].pipe /\ client[c].pipe # 0 => c = d
\* The exit hangs up on a connection that is open here only when it has waited too
\* long to be taken; and the ones open here are the present forwarder's.
ByExit(end) == end = "hung up"
LeftBy(ps, p) == ps[p].near /\ ByExit(ps[p].far)
HungUpLate ==
  \A p \in 1..made : LeftBy(pipes, p) => pipes[p].age >= ExitAge /\ ~pipes[p].acquired
OpenAreOwn ==
  /\ \A p \in 1..made : /\ pipes[p].era <= era
                        /\ pipes[p].near /\ p \notin fresh => pipes[p].era = era
  /\ \A c \in Clients : /\ client[c].era <= era
                        /\ client[c].pc = "served" => pipes[client[c].pipe].era >= client[c].era
ReverseInv == ReverseTypes /\ QueuedOnce /\ TakenOnce /\ HungUpLate /\ OpenAreOwn

LEMMA ReverseInit == InitReverse => ReverseInv
<1> SUFFICES ASSUME InitReverse PROVE ReverseInv
  OBVIOUS
<1>1. ReverseTypes
  BY DEF InitReverse, ReverseTypes, ClientStates, Idle, made
<1>2. QueuedOnce /\ TakenOnce
  BY ReverseBounds DEF InitReverse, QueuedOnce, TakenOnce, Idle, made
<1>3. HungUpLate /\ OpenAreOwn
  BY DEF InitReverse, HungUpLate, OpenAreOwn, Idle, made
<1> QED BY <1>1, <1>2, <1>3 DEF ReverseInv

\* Connections only change one field of a time, and never come back.
LEMMA PipeTypes == ASSUME ReverseTypes
  PROVE  /\ made \in Nat /\ DOMAIN pipes = 1..made
         /\ \A p \in 1..made : /\ pipes[p] \in Pipes /\ pipes[p].era \in Nat /\ pipes[p].age \in Nat
                               /\ pipes[p].near \in BOOLEAN /\ pipes[p].acquired \in BOOLEAN
<1>1. pipes \in Seq(Pipes) /\ made \in Nat /\ DOMAIN pipes = 1..made
  BY DEF ReverseTypes, made
<1>2. \A p \in 1..made : pipes[p] \in Pipes
  BY <1>1
<1> QED BY <1>1, <1>2 DEF Pipes

LEMMA PipesShut ==
  ASSUME ReverseTypes, NEW p \in 1..made
  PROVE  /\ Shut(p) \in Seq(Pipes) /\ Len(Shut(p)) = made
         /\ \A q \in 1..made : /\ Shut(p)[q].era = pipes[q].era /\ Shut(p)[q].age = pipes[q].age
                               /\ Shut(p)[q].far = pipes[q].far /\ Shut(p)[q].acquired = pipes[q].acquired
                               /\ Shut(p)[q].near => pipes[q].near /\ q # p
                               /\ q # p => Shut(p)[q] = pipes[q]
<1> DEFINE shut == [pipes[p] EXCEPT !.near = FALSE]
<1>1. /\ shut \in Pipes /\ shut.era = pipes[p].era /\ shut.age = pipes[p].age /\ shut.far = pipes[p].far
      /\ shut.acquired = pipes[p].acquired /\ ~shut.near
  BY PipeTypes DEF Pipes
<1>2. Shut(p) = [pipes EXCEPT ![p] = shut]
  BY DEF Shut
<1> HIDE DEF shut
<1>3. pipes \in Seq(Pipes) /\ p \in 1..Len(pipes)
  BY DEF ReverseTypes, made
<1>4. Shut(p) \in Seq(Pipes) /\ Len(Shut(p)) = Len(pipes)
  BY <1>1, <1>2, <1>3, ExceptSeq
<1>5. \A q \in 1..made : Shut(p)[q] = IF q = p THEN shut ELSE pipes[q]
  BY <1>2, PipeTypes
<1> QED BY <1>1, <1>4, <1>5 DEF made

\* A step that at most closes connections, and lets go of clients.
LEMMA ReverseEnds ==
  ASSUME ReverseInv, UNCHANGED <<era, worker>>, QueuedOnce', queue' \in Seq(Nat), fresh' \subseteq fresh,
         pipes' \in Seq(Pipes), made' = made,
         \A p \in 1..made : /\ pipes'[p].era = pipes[p].era /\ pipes'[p].age = pipes[p].age
                            /\ pipes'[p].far = pipes[p].far /\ pipes'[p].acquired = pipes[p].acquired
                            /\ pipes'[p].near => pipes[p].near
                            /\ pipes'[p].near /\ p \notin fresh' => pipes[p].era = era,
         client' \in [Clients -> ClientStates],
         \A c \in Clients : \/ client'[c] = client[c]
                            \/ client'[c].pipe = 0 /\ client'[c].pc \in {"idle", "wait"} /\ client'[c].era <= era
  PROVE  ReverseInv'
<1>1. ReverseTypes' /\ made \in Nat
  BY DEF ReverseInv, ReverseTypes, made
<1>2. TakenOnce'
  <2>1. \A c \in Clients : client'[c].pipe = client[c].pipe \/ client'[c].pipe = 0
    OBVIOUS
  <2>2. \A c \in Clients : client'[c].pc \in {"ask", "served"} => client'[c] = client[c]
    OBVIOUS
  <2>3. /\ \A w \in Workers : worker'[w] \in 0..made'
        /\ \A c \in Clients : client'[c].pc \in {"ask", "served"} => client'[c].pipe # 0
    BY <2>2 DEF ReverseInv, TakenOnce
  <2>4. \A c \in Clients : client'[c].pipe # 0 => client'[c].pipe \in 1..made' /\ pipes'[client'[c].pipe].acquired
    BY <2>1 DEF ReverseInv, TakenOnce
  <2>5. \A c, d \in Clients : client'[c].pipe = client'[d].pipe /\ client'[c].pipe # 0 => c = d
    BY <2>1 DEF ReverseInv, TakenOnce
  <2> QED BY <2>3, <2>4, <2>5 DEF TakenOnce
<1>3. HungUpLate'
  BY DEF ReverseInv, HungUpLate, LeftBy, ByExit
<1>4. OpenAreOwn'
  <2>1. ASSUME NEW c \in Clients
        PROVE  client'[c].era <= era /\ (client'[c].pc = "served" => pipes'[client'[c].pipe].era >= client'[c].era)
    <3>1. CASE client'[c] = client[c]
      BY <3>1 DEF ReverseInv, OpenAreOwn, TakenOnce
    <3>2. CASE client'[c] # client[c]
      BY <3>2
    <3> QED BY <3>1, <3>2
  <2> QED BY <2>1 DEF ReverseInv, OpenAreOwn
<1> QED BY <1>1, <1>2, <1>3, <1>4 DEF ReverseInv

\* What stays in the queue when its head is taken.
LEMMA QueueTaken ==
  ASSUME ReverseInv, queue # <<>>
  PROVE  /\ Head(queue) \in 1..made /\ Head(queue) \notin fresh /\ ~pipes[Head(queue)].acquired
         /\ Tail(queue) \in Seq(Nat) /\ Len(Tail(queue)) <= Pool
         /\ \A i \in DOMAIN Tail(queue) : /\ i + 1 \in DOMAIN queue /\ Tail(queue)[i] = queue[i + 1]
                                          /\ Tail(queue)[i] # Head(queue)
<1>1. queue \in Seq(Nat) /\ Len(queue) <= Pool /\ Pool \in Nat
  BY ReverseBounds DEF ReverseInv, ReverseTypes, QueuedOnce
<1>2. Head(queue) = queue[1] /\ 1 \in DOMAIN queue
  BY <1>1
<1>3. Tail(queue) \in Seq(Nat) /\ Len(Tail(queue)) = Len(queue) - 1
  BY <1>1
<1>4. \A i \in DOMAIN Tail(queue) : i + 1 \in DOMAIN queue /\ Tail(queue)[i] = queue[i + 1] /\ i + 1 # 1
  BY <1>1, <1>3
<1> QED BY SMTT(30), <1>1, <1>2, <1>3, <1>4 DEF ReverseInv, QueuedOnce

LEMMA ConnectionQueued == ASSUME ReverseInv, NEW p \in 1..made, acceptReverse(p) PROVE ReverseInv'
<1>1. /\ ReverseTypes /\ UNCHANGED <<era, worker, client>> /\ p \in fresh /\ fresh' = fresh \ {p}
      /\ queue \in Seq(Nat) /\ Pool \in Nat /\ Len(queue) <= Pool /\ pipes \in Seq(Pipes)
  BY ReverseBounds DEF acceptReverse, ReverseInv, ReverseTypes, QueuedOnce
<1>2. /\ pipes' \in Seq(Pipes) /\ made' = made
      /\ \A q \in 1..made : /\ pipes'[q].era = pipes[q].era /\ pipes'[q].age = pipes[q].age
                            /\ pipes'[q].far = pipes[q].far /\ pipes'[q].acquired = pipes[q].acquired
                            /\ pipes'[q].near => pipes[q].near /\ (q # p \/ pipes[p].era = era)
  <2>1. CASE pipes' = pipes /\ pipes[p].era = era
    BY <1>1, <2>1 DEF made
  <2>2. CASE pipes' = Shut(p)
    BY <1>1, <2>2, PipesShut DEF made
  <2> QED BY <2>1, <2>2 DEF acceptReverse
<1>3. \A q \in 1..made : pipes'[q].near /\ q \notin fresh' => pipes[q].era = era
  BY <1>1, <1>2 DEF ReverseInv, OpenAreOwn
<1>4. QueuedOnce' /\ queue' \in Seq(Nat)
  <2> USE <1>1, <1>2
  <2>3. \A q \in fresh' : q \in 1..made /\ q \in fresh /\ q # p /\ ~pipes'[q].acquired
    BY DEF ReverseInv, ReverseTypes, QueuedOnce
  <2>4. \A i \in DOMAIN queue : /\ queue[i] \in 1..made /\ queue[i] \notin fresh /\ queue[i] # p
                               /\ ~pipes'[queue[i]].acquired
    BY SMTT(30) DEF ReverseInv, QueuedOnce
  <2>1. CASE UNCHANGED queue
    BY <2>1, <2>3, <2>4 DEF ReverseInv, QueuedOnce
  <2>2. CASE Len(queue) < Pool /\ queue' = Append(queue, p)
    <3>1. /\ queue' \in Seq(Nat) /\ Len(queue') <= Pool
          /\ \A i \in DOMAIN queue' : \/ i \in DOMAIN queue /\ queue'[i] = queue[i]
                                      \/ i = Len(queue) + 1 /\ queue'[i] = p
      BY <1>1, <2>2
    <3>2. ~pipes'[p].acquired
      BY DEF ReverseInv, QueuedOnce
    <3>3. \A i \in DOMAIN queue' : queue'[i] \in 1..made' /\ queue'[i] \notin fresh' /\ ~pipes'[queue'[i]].acquired
      BY <2>4, <3>1, <3>2
    <3>4. \A i, j \in DOMAIN queue' : queue'[i] = queue'[j] => i = j
      BY ZenonT(30), <2>4, <3>1 DEF ReverseInv, QueuedOnce
    <3> QED BY <2>3, <3>1, <3>3, <3>4 DEF QueuedOnce
  <2> QED BY <2>1, <2>2 DEF acceptReverse
<1> QED BY <1>1, <1>2, <1>3, <1>4, ReverseEnds DEF ReverseInv, ReverseTypes

\* A client lets go of its connection, which is closed; or one in the queue is.
LEMMA ConnectionShut ==
  ASSUME ReverseInv, UNCHANGED <<era, queue, worker, fresh>>,
         pipes' = pipes \/ \E p \in 1..made : pipes' = Shut(p),
         client' \in [Clients -> ClientStates],
         \A c \in Clients : \/ client'[c] = client[c]
                            \/ client'[c].pipe = 0 /\ client'[c].pc \in {"idle", "wait"} /\ client'[c].era <= era
  PROVE  ReverseInv'
<1>1. /\ pipes' \in Seq(Pipes) /\ made' = made
      /\ \A q \in 1..made : /\ pipes'[q].era = pipes[q].era /\ pipes'[q].age = pipes[q].age
                            /\ pipes'[q].far = pipes[q].far /\ pipes'[q].acquired = pipes[q].acquired
                            /\ pipes'[q].near => pipes[q].near
  <2>1. CASE pipes' = pipes
    BY <2>1 DEF ReverseInv, ReverseTypes, made
  <2>2. ASSUME NEW p \in 1..made, pipes' = Shut(p)
        PROVE  /\ pipes' \in Seq(Pipes) /\ made' = made
               /\ \A q \in 1..made : /\ pipes'[q].era = pipes[q].era /\ pipes'[q].age = pipes[q].age
                                     /\ pipes'[q].far = pipes[q].far /\ pipes'[q].acquired = pipes[q].acquired
                                     /\ pipes'[q].near => pipes[q].near
    BY <2>2, PipesShut DEF ReverseInv, made
  <2> QED BY <2>1, <2>2
<1>2. QueuedOnce' /\ queue' \in Seq(Nat)
  BY <1>1 DEF ReverseInv, QueuedOnce, ReverseTypes
<1>3. \A q \in 1..made : pipes'[q].near /\ q \notin fresh' => pipes[q].era = era
  BY <1>1 DEF ReverseInv, OpenAreOwn
<1> QED BY <1>1, <1>2, <1>3, ReverseEnds

LEMMA ClientTypes ==
  ASSUME ReverseInv, NEW c \in Clients, NEW new \in ClientStates, client' = [client EXCEPT ![c] = new],
         new.pipe = 0 /\ new.pc \in {"idle", "wait"} /\ new.era <= era
  PROVE  /\ client' \in [Clients -> ClientStates]
         /\ \A d \in Clients : \/ client'[d] = client[d]
                               \/ client'[d].pipe = 0 /\ client'[d].pc \in {"idle", "wait"} /\ client'[d].era <= era
BY DEF ReverseInv, ReverseTypes

LEMMA ClientLetsGo ==
  ASSUME ReverseInv, NEW c \in Clients,
         Ask(c) \/ GiveUpWaiting(c) \/ NoAnswer(c) \/ FinishServed(c)
  PROVE  ReverseInv'
<1>1. /\ UNCHANGED <<era, queue, worker, fresh>> /\ era \in Nat
      /\ client \in [Clients -> ClientStates] /\ client[c].era <= era
      /\ client[c].pc \in {"ask", "served"} => client[c].pipe \in 1..made
  BY DEF Ask, GiveUpWaiting, NoAnswer, FinishServed, ReverseInv, ReverseTypes, OpenAreOwn, TakenOnce
<1>2. pipes' = pipes \/ \E p \in 1..made : pipes' = Shut(p)
  BY <1>1 DEF Ask, GiveUpWaiting, NoAnswer, FinishServed
<1>3. \E new \in ClientStates : /\ client' = [client EXCEPT ![c] = new]
                                /\ new.pipe = 0 /\ new.pc \in {"idle", "wait"} /\ new.era <= era
  <2>1. CASE GiveUpWaiting(c) \/ FinishServed(c)
    BY <1>1, <2>1 DEF GiveUpWaiting, FinishServed, Idle, ClientStates
  <2>2. CASE Ask(c)
    <3> DEFINE new == [pc |-> "wait", era |-> era, wait |-> 0, pipe |-> 0]
    <3>1. client' = [client EXCEPT ![c] = new]
      BY <2>2 DEF Ask
    <3>2. new \in ClientStates /\ new.pipe = 0 /\ new.pc = "wait" /\ new.era = era
      BY <1>1 DEF ClientStates
    <3> HIDE DEF new
    <3>3. new.era <= era
      BY <1>1, <3>2
    <3> QED BY <3>1, <3>2, <3>3
  <2>3. CASE NoAnswer(c)
    <3>1. /\ [client[c] EXCEPT !.pc = "wait", !.pipe = 0] \in ClientStates
          /\ [client[c] EXCEPT !.pc = "wait", !.pipe = 0].era = client[c].era
          /\ [client[c] EXCEPT !.pc = "wait", !.pipe = 0].pipe = 0
          /\ [client[c] EXCEPT !.pc = "wait", !.pipe = 0].pc = "wait"
      BY <1>1 DEF ClientStates
    <3>2. client' = [client EXCEPT ![c] = [client[c] EXCEPT !.pc = "wait", !.pipe = 0]]
      BY <1>1, <2>3 DEF NoAnswer
    <3> QED BY <1>1, <3>1, <3>2
  <2> QED BY <2>1, <2>2, <2>3
<1>4. /\ client' \in [Clients -> ClientStates]
      /\ \A d \in Clients : \/ client'[d] = client[d]
                            \/ client'[d].pipe = 0 /\ client'[d].pc \in {"idle", "wait"} /\ client'[d].era <= era
  BY <1>3, ClientTypes
<1> QED BY <1>1, <1>2, <1>4, ConnectionShut

\* A connection is made: nobody has it, and nothing refers to its number yet.
LEMMA ConnectionMade == ASSUME ReverseInv, NEW w \in Workers, DialEntrance(w) PROVE ReverseInv'
<1> DEFINE pipe == [era |-> era, age |-> 0, near |-> TRUE, far |-> "open", acquired |-> FALSE]
<1>1. /\ ReverseTypes /\ UNCHANGED <<era, queue, client>> /\ worker' = [worker EXCEPT ![w] = made + 1]
      /\ fresh' = fresh \cup {made + 1} /\ pipes' = Append(pipes, pipe) /\ era \in Nat
      /\ pipes \in Seq(Pipes) /\ made \in Nat /\ made = Len(pipes)
  BY DEF DialEntrance, ReverseInv, ReverseTypes, made
<1>2. pipe \in Pipes /\ pipe.era = era /\ pipe.far = "open" /\ ~pipe.acquired
  BY <1>1 DEF Pipes
<1> HIDE DEF pipe
<1>3. /\ pipes' \in Seq(Pipes) /\ made' = made + 1 /\ pipes'[made + 1] = pipe
      /\ \A p \in 1..made : pipes'[p] = pipes[p]
      /\ \A p \in 1..made' : p \in 1..made \/ p = made + 1
  BY <1>1, <1>2 DEF made
<1>4. ReverseTypes'
  <2>1. worker' \in [Workers -> Nat]
    BY <1>1 DEF ReverseTypes
  <2>2. fresh' \subseteq 1..made'
    <3>1. fresh \subseteq 1..made /\ made + 1 \in 1..made + 1 /\ 1..made \subseteq 1..made + 1
      BY <1>1 DEF ReverseTypes
    <3> QED BY <1>1, <1>3, <3>1
  <2> QED BY <1>1, <1>3, <2>1, <2>2 DEF ReverseTypes
<1>5. QueuedOnce'
  <2>1. \A i \in DOMAIN queue : queue[i] \in 1..made' /\ queue[i] \notin fresh' /\ ~pipes'[queue[i]].acquired
    BY <1>1, <1>3 DEF ReverseInv, QueuedOnce
  <2>2. \A p \in fresh' : ~pipes'[p].acquired
    BY <1>1, <1>2, <1>3 DEF ReverseInv, QueuedOnce, ReverseTypes
  <2> QED BY <1>1, <2>1, <2>2 DEF ReverseInv, QueuedOnce
<1>6. TakenOnce'
  <2>1. \A v \in Workers : worker'[v] \in 0..made'
    BY <1>1, <1>3 DEF ReverseInv, TakenOnce, ReverseTypes
  <2>2. \A c \in Clients : client[c].pipe # 0 => client[c].pipe \in 1..made' /\ pipes'[client[c].pipe].acquired
    BY <1>1, <1>3 DEF ReverseInv, TakenOnce
  <2> QED BY <1>1, <2>1, <2>2 DEF ReverseInv, TakenOnce
<1>7. HungUpLate'
  BY <1>2, <1>3 DEF ReverseInv, HungUpLate, LeftBy, ByExit
<1>8. OpenAreOwn'
  <2>1. \A p \in 1..made' : pipes'[p].era <= era /\ (pipes'[p].near /\ p \notin fresh' => pipes'[p].era = era)
    BY <1>1, <1>2, <1>3 DEF ReverseInv, OpenAreOwn
  <2>2. \A c \in Clients : client[c].pc = "served" => pipes'[client[c].pipe].era >= client[c].era
    BY <1>1, <1>3 DEF ReverseInv, OpenAreOwn, TakenOnce
  <2> QED BY <1>1, <2>1, <2>2 DEF ReverseInv, OpenAreOwn
<1> QED BY <1>4, <1>5, <1>6, <1>7, <1>8 DEF ReverseInv

\* The exit hangs up, too late for the connection to be taken, or its host dies.
LEMMA ExitGone ==
  ASSUME ReverseInv, UNCHANGED <<era, queue, fresh, client>>,
         worker' \in [Workers -> Nat], \A v \in Workers : worker'[v] = worker[v] \/ worker'[v] = 0,
         pipes' \in Seq(Pipes), made' = made,
         \A p \in 1..made : /\ pipes'[p].era = pipes[p].era /\ pipes'[p].age = pipes[p].age
                            /\ pipes'[p].near => pipes[p].near
                            /\ pipes'[p].acquired => pipes[p].acquired
                            /\ pipes[p].acquired => pipes'[p].acquired
                            /\ LeftBy(pipes', p) =>
                                 LeftBy(pipes, p) \/ (pipes[p].age >= ExitAge /\ ~pipes[p].acquired)
  PROVE  ReverseInv'
<1>1. made \in Nat
  BY DEF ReverseInv, ReverseTypes, made
<1>2. ReverseTypes'
  BY <1>1 DEF ReverseInv, ReverseTypes
<1>3. QueuedOnce'
  <2>1. \A q \in fresh : q \in 1..made /\ ~pipes[q].acquired
    BY DEF ReverseInv, ReverseTypes, QueuedOnce
  <2> QED BY <2>1 DEF ReverseInv, QueuedOnce
<1>4. TakenOnce'
  <2>1. \A v \in Workers : worker'[v] \in 0..made
    BY <1>1 DEF ReverseInv, TakenOnce
  <2> QED BY <2>1 DEF ReverseInv, TakenOnce
<1>5. HungUpLate'
  BY DEF ReverseInv, HungUpLate
<1>6. OpenAreOwn'
  <2>1. \A c \in Clients : client[c].pc = "served" => client[c].pipe \in 1..made
    BY DEF ReverseInv, TakenOnce
  <2> QED BY <2>1 DEF ReverseInv, OpenAreOwn
<1> QED BY <1>2, <1>3, <1>4, <1>5, <1>6 DEF ReverseInv

PipesWith(p, pipe) == [pipes EXCEPT ![p] = pipe]
LEMMA PipeLeft ==
  ASSUME ReverseTypes, NEW p \in 1..made, NEW end, NEW left \in Pipes,
         ByExit(end) /\ pipes[p].near => pipes[p].age >= ExitAge /\ ~pipes[p].acquired,
         left.era = pipes[p].era, left.age = pipes[p].age, left.near => pipes[p].near,
         left.acquired => pipes[p].acquired, pipes[p].acquired => left.acquired,
         left.far = end
  PROVE  /\ PipesWith(p, left) \in Seq(Pipes) /\ Len(PipesWith(p, left)) = made
         /\ \A q \in 1..made : /\ PipesWith(p, left)[q].era = pipes[q].era /\ PipesWith(p, left)[q].age = pipes[q].age
                               /\ PipesWith(p, left)[q].near => pipes[q].near
                               /\ PipesWith(p, left)[q].acquired => pipes[q].acquired
                               /\ pipes[q].acquired => PipesWith(p, left)[q].acquired
                               /\ LeftBy(PipesWith(p, left), q) =>
                                 LeftBy(pipes, q) \/ (pipes[q].age >= ExitAge /\ ~pipes[q].acquired)
<1>3. pipes \in Seq(Pipes) /\ p \in 1..Len(pipes)
  BY DEF ReverseTypes, made
<1>4. PipesWith(p, left) \in Seq(Pipes) /\ Len(PipesWith(p, left)) = Len(pipes)
  <2>1. [pipes EXCEPT ![p] = left] \in Seq(Pipes) /\ Len([pipes EXCEPT ![p] = left]) = Len(pipes)
    BY <1>3, ExceptSeq
  <2> QED BY <2>1 DEF PipesWith
<1>5. \A q \in 1..made : PipesWith(p, left)[q] = IF q = p THEN left ELSE pipes[q]
  BY PipeTypes DEF PipesWith
<1> QED BY <1>4, <1>5 DEF made, LeftBy

LEMMA ExitLeaves == ASSUME ReverseInv, NEW w \in Workers, HangUp(w) \/ Die(w) PROVE ReverseInv'
<1>1. /\ worker[w] # 0 /\ worker[w] \in 0..made /\ made \in Nat /\ ReverseTypes
      /\ UNCHANGED <<era, queue, fresh, client>> /\ worker' = [worker EXCEPT ![w] = 0]
  BY PipeTypes DEF HangUp, HungUp, Die, ReverseInv, TakenOnce
<1>2. worker' \in [Workers -> Nat] /\ \A v \in Workers : worker'[v] = worker[v] \/ worker'[v] = 0
  <2>1. worker \in [Workers -> Nat]
    BY <1>1 DEF ReverseTypes
  <2> QED BY <1>1, <2>1
<1>3. PICK p \in 1..made : p = worker[w]
  BY <1>1
<1>4. PICK end \in {"hung up", "died"} :
        /\ pipes' = [pipes EXCEPT ![p] = [pipes[p] EXCEPT !.far = end]]
        /\ ByExit(end) /\ pipes[p].near => pipes[p].age >= ExitAge /\ ~pipes[p].acquired
  BY <1>3, PipeTypes DEF ByExit, HangUp, HungUp, Die, Pipes, ReverseInv
<1> DEFINE left == [pipes[p] EXCEPT !.far = end]
<1>5. /\ left \in Pipes /\ left.era = pipes[p].era /\ left.age = pipes[p].age
      /\ left.near => pipes[p].near
      /\ left.acquired => pipes[p].acquired
      /\ pipes[p].acquired => left.acquired
      /\ left.far = end
  BY <1>1, PipeTypes DEF Pipes
<1>6. pipes' = PipesWith(p, left)
  BY <1>4 DEF PipesWith
<1> HIDE DEF left
<1>7. /\ pipes' \in Seq(Pipes) /\ Len(pipes') = made
      /\ \A q \in 1..made : /\ pipes'[q].era = pipes[q].era /\ pipes'[q].age = pipes[q].age
                            /\ pipes'[q].near => pipes[q].near
                            /\ pipes'[q].acquired => pipes[q].acquired
                            /\ pipes[q].acquired => pipes'[q].acquired
                            /\ LeftBy(pipes', q) =>
                                 LeftBy(pipes, q) \/ (pipes[q].age >= ExitAge /\ ~pipes[q].acquired)
  <2>1. ByExit(end) /\ pipes[p].near => pipes[p].age >= ExitAge /\ ~pipes[p].acquired
    BY <1>4
  <2>2. left \in Pipes /\ left.far = end
    BY <1>5
  <2>3. /\ PipesWith(p, left) \in Seq(Pipes) /\ Len(PipesWith(p, left)) = made
        /\ \A q \in 1..made : /\ PipesWith(p, left)[q].era = pipes[q].era /\ PipesWith(p, left)[q].age = pipes[q].age
                              /\ PipesWith(p, left)[q].near => pipes[q].near
                              /\ PipesWith(p, left)[q].acquired => pipes[q].acquired
                              /\ pipes[q].acquired => PipesWith(p, left)[q].acquired
                              /\ LeftBy(PipesWith(p, left), q) =>
                                   LeftBy(pipes, q) \/ (pipes[q].age >= ExitAge /\ ~pipes[q].acquired)
    BY <1>1, <1>5, <2>1, <2>2, PipeLeft
  <2> QED BY <1>6, <2>3
<1> QED BY <1>1, <1>2, <1>7, ExitGone DEF made

\* A client takes the head of the queue, which is open to nobody else.
LEMMA Taking == ASSUME ReverseInv, NEW c \in Clients, Take(c) PROVE ReverseInv'
<1>1. /\ UNCHANGED <<era, worker, fresh>> /\ client[c].pc = "wait" /\ queue # <<>> /\ queue' = Tail(queue)
      /\ ReverseTypes /\ pipes \in Seq(Pipes) /\ made = Len(pipes) /\ made \in Nat
      /\ client \in [Clients -> ClientStates] /\ queue \in Seq(Nat)
  BY DEF Take, ReverseInv, ReverseTypes, made
<1>2. PICK p \in 1..made : p = Head(queue) /\ p \notin fresh /\ ~pipes[p].acquired
  BY <1>1, QueueTaken
<1>3. /\ queue' \in Seq(Nat) /\ Len(queue') <= Pool
      /\ \A i \in DOMAIN queue' : /\ i + 1 \in DOMAIN queue /\ queue'[i] = queue[i + 1] /\ queue'[i] # p
                                  /\ i \in Nat /\ queue'[i] \in 1..made /\ queue'[i] \notin fresh
                                  /\ ~pipes[queue'[i]].acquired
      /\ \A i, j \in DOMAIN queue' : queue'[i] = queue'[j] => i = j
  <2>1. /\ queue' \in Seq(Nat) /\ Len(queue') <= Pool
        /\ \A i \in DOMAIN queue' : i + 1 \in DOMAIN queue /\ queue'[i] = queue[i + 1] /\ queue'[i] # p
    BY <1>1, <1>2, QueueTaken
  <2>2. DOMAIN queue' \subseteq Nat
    BY <2>1
  <2>3. \A i \in DOMAIN queue' : queue'[i] \in 1..made /\ queue'[i] \notin fresh /\ ~pipes[queue'[i]].acquired
    BY <2>1 DEF ReverseInv, QueuedOnce
  <2>4. \A i, j \in DOMAIN queue' : queue'[i] = queue'[j] => i = j
    BY <2>1, <2>2 DEF ReverseInv, QueuedOnce
  <2> QED BY <2>1, <2>2, <2>3, <2>4
<1>4. CASE ~Usable(p)
  <2>1. pipes' = Shut(p) /\ UNCHANGED client
    BY <1>2, <1>4 DEF Take
  <2>2. /\ pipes' \in Seq(Pipes) /\ made' = made
        /\ \A q \in 1..made : /\ pipes'[q].era = pipes[q].era /\ pipes'[q].age = pipes[q].age
                              /\ pipes'[q].far = pipes[q].far /\ pipes'[q].acquired = pipes[q].acquired
                              /\ pipes'[q].near => pipes[q].near
    BY <1>1, <2>1, PipesShut DEF made
  <2>3. QueuedOnce'
    <3>1. \A q \in fresh : q \in 1..made /\ ~pipes[q].acquired
      BY DEF ReverseInv, ReverseTypes, QueuedOnce
    <3> QED BY <1>1, <1>3, <2>2, <3>1 DEF QueuedOnce
  <2>4. \A q \in 1..made : pipes'[q].near /\ q \notin fresh' => pipes[q].era = era
    BY <1>1, <2>2 DEF ReverseInv, OpenAreOwn
  <2> QED BY <1>1, <1>3, <2>1, <2>2, <2>3, <2>4, ReverseEnds
<1>5. CASE Usable(p)
  <2> DEFINE handed == [pipes[p] EXCEPT !.acquired = TRUE]
             asking == [client[c] EXCEPT !.pc = "ask", !.pipe = p]
  <2>1. /\ pipes' = [pipes EXCEPT ![p] = handed] /\ client' = [client EXCEPT ![c] = asking]
    BY <1>1, <1>2, <1>5 DEF Take
  <2>2. /\ handed \in Pipes /\ handed.era = pipes[p].era /\ handed.age = pipes[p].age /\ handed.far = pipes[p].far
        /\ handed.near => pipes[p].near
        /\ handed.acquired
    BY <1>1, PipeTypes DEF Pipes
  <2>3. asking \in ClientStates /\ asking.pc = "ask" /\ asking.pipe = p /\ asking.era = client[c].era
    <3>1. client[c] \in ClientStates /\ p \in Nat
      BY <1>1
    <3> QED BY <3>1 DEF ClientStates
  <2> HIDE DEF handed, asking
  <2>4. pipes' \in Seq(Pipes) /\ made' = made
    <3>1. [pipes EXCEPT ![p] = handed] \in Seq(Pipes) /\ Len([pipes EXCEPT ![p] = handed]) = Len(pipes)
      BY <1>1, <2>2, ExceptSeq
    <3> QED BY <2>1, <3>1 DEF made
  <2>5. \A q \in 1..made : /\ pipes'[q].era = pipes[q].era /\ pipes'[q].age = pipes[q].age
                           /\ pipes'[q].far = pipes[q].far
                           /\ pipes'[q].near => pipes[q].near
                           /\ pipes[q].acquired => pipes'[q].acquired
                           /\ q # p /\ pipes'[q].acquired => pipes[q].acquired
                           /\ q = p => pipes'[q].acquired
    <3>1. \A q \in 1..made : pipes'[q] = IF q = p THEN handed ELSE pipes[q]
      BY <1>1, <2>1
    <3> QED BY <2>2, <3>1
  <2>6. /\ client' \in [Clients -> ClientStates] /\ client'[c] = asking
        /\ \A d \in Clients : d # c => client'[d] = client[d]
    BY <1>1, <2>1, <2>3
  <2>7. ReverseTypes'
    BY <1>1, <1>3, <2>4, <2>6 DEF ReverseTypes
  <2>8. QueuedOnce'
    <3>1. \A q \in fresh : q \in 1..made /\ ~pipes[q].acquired
      BY DEF ReverseInv, ReverseTypes, QueuedOnce
    <3>2. \A q \in fresh : q \in 1..made /\ ~pipes'[q].acquired
      BY <1>2, <2>5, <3>1
    <3>3. \A i \in DOMAIN queue' : queue'[i] \in 1..made /\ ~pipes'[queue'[i]].acquired
      <4> TAKE i \in DOMAIN queue'
      <4>1. /\ queue'[i] \in 1..made /\ queue'[i] # p /\ ~pipes[queue'[i]].acquired
        BY <1>3
      <4> QED BY <2>5, <4>1
    <3>4. fresh' = fresh /\ made' = made
      BY <1>1, <2>4
    <3> QED BY <1>3, <3>2, <3>3, <3>4 DEF QueuedOnce
  <2>9. TakenOnce'
    <3>1. \A d \in Clients : d # c => client'[d].pipe # p
      BY <1>2, <2>6 DEF ReverseInv, TakenOnce
    <3>2. \A d \in Clients : /\ client'[d].pc \in {"ask", "served"} => client'[d].pipe # 0
                             /\ client'[d].pipe # 0 => client'[d].pipe \in 1..made' /\ pipes'[client'[d].pipe].acquired
      BY <1>2, <2>3, <2>4, <2>5, <2>6 DEF ReverseInv, TakenOnce
    <3>3. \A d, e \in Clients : client'[d].pipe = client'[e].pipe /\ client'[d].pipe # 0 => d = e
      BY <2>3, <2>6, <3>1 DEF ReverseInv, TakenOnce
    <3> QED BY <1>1, <2>4, <3>2, <3>3 DEF ReverseInv, TakenOnce
  <2>10. HungUpLate'
    <3>1. pipes[p].age \in Nat /\ ExitAge \in Nat /\ TakeAge \in Nat /\ TakeAge < ExitAge /\ pipes[p].age <= TakeAge
      <4>1. pipes[p].age \in Nat
        BY <1>1, PipeTypes
      <4>2. ExitAge \in Nat /\ TakeAge \in Nat /\ TakeAge < ExitAge
        BY Clocks
      <4> QED BY <1>5, <4>1, <4>2 DEF Usable
    <3>2. ASSUME NEW q \in 1..made, LeftBy(pipes', q)
          PROVE  pipes'[q].age >= ExitAge /\ ~pipes'[q].acquired
      <4>1. LeftBy(pipes, q)
        BY <2>5, <3>2 DEF LeftBy, ByExit
      <4>2. pipes[q].age >= ExitAge /\ ~pipes[q].acquired
        BY <4>1 DEF ReverseInv, HungUpLate
      <4>3. q # p
        BY <3>1, <4>2
      <4> QED BY <2>5, <4>2, <4>3
    <3> QED BY <2>4, <3>2 DEF HungUpLate
  <2>11. OpenAreOwn'
    <3>1. \A d \in Clients : client[d].pc = "served" => client[d].pipe \in 1..made
      BY DEF ReverseInv, TakenOnce
    <3>2. \A d \in Clients : /\ client'[d].era = client[d].era
                             /\ client'[d].pc = "served" => client[d].pc = "served" /\ client'[d].pipe = client[d].pipe
      BY <2>3, <2>6
    <3>3. \A d \in Clients : client'[d].pc = "served" => pipes'[client'[d].pipe].era >= client'[d].era
      BY <2>5, <3>1, <3>2 DEF ReverseInv, OpenAreOwn
    <3>4. \A d \in Clients : client'[d].era <= era
      BY <3>2 DEF ReverseInv, OpenAreOwn
    <3>5. \A q \in 1..made : pipes'[q].era <= era /\ (pipes'[q].near /\ q \notin fresh => pipes'[q].era = era)
      BY <2>5 DEF ReverseInv, OpenAreOwn
    <3> QED BY <1>1, <2>4, <3>3, <3>4, <3>5 DEF OpenAreOwn
  <2> QED BY <2>7, <2>8, <2>9, <2>10, <2>11 DEF ReverseInv
<1> QED BY <1>4, <1>5

LEMMA Answering == ASSUME ReverseInv, NEW c \in Clients, Answer(c) PROVE ReverseInv'
<1> DEFINE serving == [client[c] EXCEPT !.pc = "served"]
<1>1. /\ UNCHANGED <<era, pipes, queue, worker, fresh>> /\ client \in [Clients -> ClientStates]
      /\ client[c].pc = "ask" /\ pipes[client[c].pipe].near /\ client' = [client EXCEPT ![c] = serving]
  BY DEF Answer, ReverseInv, ReverseTypes
<1>2. /\ serving \in ClientStates /\ serving.pc = "served" /\ serving.pipe = client[c].pipe
      /\ serving.era = client[c].era
  BY <1>1 DEF ClientStates
<1> HIDE DEF serving
<1>3. /\ client' \in [Clients -> ClientStates] /\ client'[c] = serving
      /\ \A d \in Clients : d # c => client'[d] = client[d]
      /\ \A d \in Clients : client'[d].pipe = client[d].pipe /\ client'[d].era = client[d].era
  BY <1>1, <1>2
<1>4. ReverseTypes' /\ QueuedOnce' /\ HungUpLate'
  BY <1>1, <1>3 DEF ReverseInv, ReverseTypes, QueuedOnce, HungUpLate, made
<1>5. TakenOnce'
  <2>1. client[c].pipe # 0
    BY <1>1 DEF ReverseInv, TakenOnce
  <2> QED BY <1>1, <1>3, <2>1 DEF ReverseInv, TakenOnce, made
<1>6. OpenAreOwn'
  <2>1. client[c].pipe \in 1..made /\ client[c].pipe \notin fresh /\ client[c].era <= era /\ era \in Nat
    BY <1>1 DEF ReverseInv, TakenOnce, QueuedOnce, OpenAreOwn, ReverseTypes
  <2>2. pipes[client[c].pipe].era = era
    BY <1>1, <2>1 DEF ReverseInv, OpenAreOwn
  <2> QED BY <1>1, <1>2, <1>3, <2>1, <2>2 DEF ReverseInv, OpenAreOwn, made
<1> QED BY <1>4, <1>5, <1>6 DEF ReverseInv

\* The forwarder is replaced: what it accepted is closed, and nothing in the queue is
\* open any more, until the next one accepts.
LEMMA Replacing == ASSUME ReverseInv, Replace PROVE ReverseInv'
<1> DEFINE pipe(p) == [pipes[p] EXCEPT !.near = pipes[p].near /\ p \in fresh]
<1>1. /\ UNCHANGED <<queue, worker, fresh, client>> /\ era' = era + 1 /\ era \in Nat \ {0} /\ made \in Nat
      /\ pipes' = [p \in 1..made |-> pipe(p)] /\ ReverseTypes
  BY DEF Replace, ReverseInv, ReverseTypes, made
<1>2. \A p \in 1..made : /\ pipe(p) \in Pipes /\ pipe(p).era = pipes[p].era /\ pipe(p).age = pipes[p].age
                         /\ pipe(p).far = pipes[p].far
                         /\ pipe(p).acquired => pipes[p].acquired
                         /\ pipes[p].acquired => pipe(p).acquired
                         /\ pipe(p).near => pipes[p].near /\ p \in fresh
  <2> SUFFICES ASSUME NEW p \in 1..made
               PROVE  /\ pipe(p) \in Pipes /\ pipe(p).era = pipes[p].era /\ pipe(p).age = pipes[p].age
                      /\ pipe(p).far = pipes[p].far
                      /\ pipe(p).acquired => pipes[p].acquired
                      /\ pipes[p].acquired => pipe(p).acquired
                      /\ pipe(p).near => pipes[p].near /\ p \in fresh
    OBVIOUS
  <2> DEFINE kept == pipes[p].near /\ p \in fresh
  <2>1. kept \in BOOLEAN
    OBVIOUS
  <2>2. kept => pipes[p].near /\ p \in fresh
    OBVIOUS
  <2>3. pipe(p) = [pipes[p] EXCEPT !.near = kept] /\ pipes[p] \in Pipes
    BY <1>1, PipeTypes
  <2> HIDE DEF pipe, kept
  <2> QED BY <2>1, <2>2, <2>3 DEF Pipes
<1> HIDE DEF pipe
<1>3. /\ pipes' \in Seq(Pipes) /\ made' = made
      /\ \A p \in 1..made : pipes'[p] = pipe(p)
  BY <1>1, <1>2 DEF made
<1>4. ReverseTypes'
  BY <1>1, <1>3 DEF ReverseTypes
<1>5. QueuedOnce'
  <2>1. \A q \in fresh : q \in 1..made /\ ~pipes[q].acquired
    BY DEF ReverseInv, ReverseTypes, QueuedOnce
  <2> QED BY <1>1, <1>2, <1>3, <2>1 DEF ReverseInv, QueuedOnce
<1>6. TakenOnce'
  BY <1>1, <1>2, <1>3 DEF ReverseInv, TakenOnce
<1>7. HungUpLate'
  BY <1>2, <1>3 DEF ReverseInv, HungUpLate, LeftBy
<1>8. OpenAreOwn'
  <2>1. \A c \in Clients : /\ client[c].pc = "served" => client[c].pipe \in 1..made
                           /\ client[c].era <= era /\ client[c].era \in Nat
    BY <1>1 DEF ReverseInv, TakenOnce, OpenAreOwn, ReverseTypes, ClientStates
  <2>2. \A p \in 1..made : pipes[p].era <= era /\ pipes[p].era \in Nat
    BY <1>1, PipeTypes DEF ReverseInv, OpenAreOwn
  <2>3. \A p \in 1..made : pipes'[p].era <= era' /\ (pipes'[p].near /\ p \notin fresh => pipes'[p].era = era')
    BY <1>1, <1>2, <1>3, <2>2
  <2>4. \A c \in Clients : client[c].pc = "served" => pipes'[client[c].pipe].era >= client[c].era
    BY <1>2, <1>3, <2>1 DEF ReverseInv, OpenAreOwn
  <2> QED BY <1>1, <1>3, <2>1, <2>3, <2>4 DEF OpenAreOwn
<1> QED BY <1>4, <1>5, <1>6, <1>7, <1>8 DEF ReverseInv

LEMMA Ticking == ASSUME ReverseInv, Tick PROVE ReverseInv'
<1> DEFINE age(p) == IF Pooled(p) THEN pipes[p].age + 1 ELSE pipes[p].age
           pipe(p) == [pipes[p] EXCEPT !.age = age(p)]
           state(c) == IF client[c].pc \in {"wait", "ask"} THEN [client[c] EXCEPT !.wait = client[c].wait + 1]
                       ELSE client[c]
<1>1. /\ UNCHANGED <<era, queue, worker, fresh>> /\ made \in Nat /\ ReverseTypes
      /\ client \in [Clients -> ClientStates]
  BY DEF Tick, ReverseInv, ReverseTypes, made
<1>2. pipes' = [p \in 1..made |-> pipe(p)] /\ client' = [c \in Clients |-> state(c)]
  <2>1. client' = [c \in Clients |-> state(c)]
    BY DEF Tick
  <2>2. \A p \in 1..made : pipes[p] \in Pipes
    BY <1>1, PipeTypes
  <2>3. pipes' = [p \in 1..made |-> pipe(p)]
    BY <2>2 DEF Tick, Pipes
  <2> QED BY <2>1, <2>3
<1>3. \A p \in 1..made : age(p) \in Nat /\ age(p) >= pipes[p].age
  BY <1>1, PipeTypes
<1> HIDE DEF age
<1>4. \A p \in 1..made : /\ pipe(p) \in Pipes /\ pipe(p).era = pipes[p].era /\ pipe(p).age = age(p)
                         /\ pipe(p).far = pipes[p].far
                         /\ pipe(p).acquired => pipes[p].acquired
                         /\ pipes[p].acquired => pipe(p).acquired
                         /\ pipe(p).near => pipes[p].near
  BY <1>1, <1>3, PipeTypes DEF Pipes
<1>5. \A c \in Clients : /\ state(c) \in ClientStates /\ state(c).pc = client[c].pc /\ state(c).era = client[c].era
                         /\ state(c).pipe = client[c].pipe
  BY <1>1 DEF ClientStates
<1> HIDE DEF pipe, state
<1>6. /\ pipes' \in Seq(Pipes) /\ made' = made
      /\ \A p \in 1..made : pipes'[p] = pipe(p)
  BY <1>1, <1>2, <1>4 DEF made
<1>7. client' \in [Clients -> ClientStates] /\ \A c \in Clients : client'[c] = state(c)
  BY <1>2, <1>5
<1>8. ReverseTypes'
  BY <1>1, <1>6, <1>7 DEF ReverseTypes
<1>9. QueuedOnce'
  <2>1. \A q \in fresh : q \in 1..made /\ ~pipes[q].acquired
    BY DEF ReverseInv, ReverseTypes, QueuedOnce
  <2> QED BY <1>1, <1>4, <1>6, <2>1 DEF ReverseInv, QueuedOnce
<1>10. TakenOnce'
  BY <1>1, <1>4, <1>5, <1>6, <1>7 DEF ReverseInv, TakenOnce
<1>11. HungUpLate'
  <2> SUFFICES ASSUME NEW p \in 1..made, LeftBy(pipes', p) PROVE pipes'[p].age >= ExitAge /\ ~pipes'[p].acquired
    BY <1>6 DEF HungUpLate
  <2>1. LeftBy(pipes, p)
    BY <1>4, <1>6 DEF LeftBy
  <2>2. pipes[p].age >= ExitAge /\ ~pipes[p].acquired
    BY <2>1 DEF ReverseInv, HungUpLate
  <2>3. pipes[p].age \in Nat /\ ExitAge \in Nat
    BY <1>1, PipeTypes, Clocks
  <2> QED BY <1>3, <1>4, <1>6, <2>2, <2>3
<1>12. OpenAreOwn'
  <2>1. \A c \in Clients : client[c].pc = "served" => client[c].pipe \in 1..made
    BY DEF ReverseInv, TakenOnce
  <2>2. \A c \in Clients : client'[c].pc = "served" => pipes'[client'[c].pipe].era >= client'[c].era
    BY <1>4, <1>5, <1>6, <1>7, <2>1 DEF ReverseInv, OpenAreOwn
  <2>3. \A p \in 1..made : pipes'[p].era <= era /\ (pipes'[p].near /\ p \notin fresh => pipes'[p].era = era)
    BY <1>4, <1>6 DEF ReverseInv, OpenAreOwn
  <2>4. \A c \in Clients : client'[c].era <= era
    BY <1>5, <1>7 DEF ReverseInv, OpenAreOwn
  <2> QED BY <1>1, <1>6, <2>2, <2>3, <2>4 DEF OpenAreOwn
<1> QED BY <1>8, <1>9, <1>10, <1>11, <1>12 DEF ReverseInv

LEMMA ReverseStep == ReverseInv /\ [NextReverse]_reverseVars => ReverseInv'
<1> SUFFICES ASSUME ReverseInv, [NextReverse]_reverseVars PROVE ReverseInv'
  OBVIOUS
<1>1. CASE UNCHANGED reverseVars
  BY <1>1 DEF reverseVars, ReverseInv, ReverseTypes, QueuedOnce, TakenOnce, HungUpLate, LeftBy, OpenAreOwn, made
<1>2. CASE NextReverse
  <2>1. ASSUME NEW p \in 1..made, DropPooled(p) PROVE ReverseInv'
    <3>1. /\ UNCHANGED <<era, queue, worker, fresh, client>> /\ pipes' = Shut(p)
          /\ client' \in [Clients -> ClientStates]
      BY <2>1 DEF DropPooled, ReverseInv, ReverseTypes
    <3> QED BY <3>1, ConnectionShut
  <2> QED BY <1>2, <2>1, ConnectionMade, ExitLeaves, ConnectionQueued, ClientLetsGo, Taking, Answering, Replacing, Ticking
          DEF NextReverse, ServeClient
<1> QED BY <1>1, <1>2

\* What the pool hands out is open at the other end unless its host died, is one
\* client's, and is not older than the forwarder the client asked: for any clocks in
\* their order, any workers, clients and capacity, and any number of forwarders.
THEOREM PoolServes == ReverseSpec => []ReverseServes
<1>1. ReverseInv => TypeReverse
  <2> SUFFICES ASSUME ReverseInv PROVE TypeReverse
    OBVIOUS
  <2>1. Len(queue) <= Pool /\ IsInjective(queue)
    BY DEF ReverseInv, QueuedOnce, IsInjective
  <2>2. Range(queue) \subseteq 1..made
    BY DEF ReverseInv, QueuedOnce, Range
  <2>3. /\ \A w \in Workers : worker[w] \in 0..made
        /\ \A c \in Clients : client[c].pc \in {"idle", "wait", "ask", "served"}
    BY DEF ReverseInv, TakenOnce, ReverseTypes, ClientStates
  <2> QED BY <2>1, <2>2, <2>3 DEF TypeReverse
<1>2. ReverseInv => TakenListens
  BY DEF ReverseInv, TakenOnce, HungUpLate, LeftBy, ByExit, TakenListens
<1>3. ReverseInv => ServedByOwn
  BY DEF ReverseInv, OpenAreOwn, ServedByOwn
<1> QED BY <1>1, <1>2, <1>3, ReverseInit, ReverseStep, PTL DEF ReverseSpec, ReverseServes

---------------------------------------------------------------------------
\* Admission, failover, quota.

Scopes == Rules \cup {User}
Places == {"out", "accepted", "counted", "within quota", "release rule", "admitted", "choosing",
           "dialling", "opened", "relaying", "release exit", "release user", "user left"}
GroupNames == DOMAIN Groups \cup {0}
ConnStates == [pc : Places, rule : Rules \cup {0}, ip : Addresses \cup {0}, group : GroupNames,
               seen : SUBSET GroupNames, todo : SUBSET Exits, exit : Exits \cup {0}]
Usages == [n : Nat, seen : [Addresses -> {"no", "now", "long ago"}], act : [Addresses -> Nat]]
Placed(c) ==
  /\ ~ConnAt(c, "out") => conn[c].rule \in Rules /\ conn[c].ip \in Addresses
  /\ HoldsExit(c) => conn[c].exit \in Exits
RelayTypes ==
  /\ setup \in Setups
  /\ conn \in [Conns -> ConnStates]
  /\ usage \in [Scopes -> Usages]
  /\ active \in [Exits -> Int]
  /\ count \in [bytes : Nat, reported : Nat, own : Nat] /\ total \in Nat
  /\ \A c \in Conns : Placed(c)

\* A rule's or a user's counters are its connections, an address that is in use is known,
\* and as many connections are counted and addresses known as the limits allow.
Holders(s) == {c \in Conns : Of(s, c)}
HoldersAt(s, a) == {c \in Conns : Of(s, c) /\ conn[c].ip = a}
Users(x) == {c \in Conns : HoldsExit(c) /\ conn[c].exit = x}
ScopeInv(s) ==
  /\ usage[s].n = Cardinality(Holders(s))
  /\ \A a \in Addresses : usage[s].act[a] = Cardinality(HoldersAt(s, a))
  /\ \A a \in Addresses : usage[s].act[a] > 0 => usage[s].seen[a] # "no"
  /\ Limits[s].conns > 0 => usage[s].n <= Limits[s].conns
  /\ Limits[s].ips > 0 => Cardinality(Known(usage[s])) <= Limits[s].ips
ExitInv(x) ==
  /\ active[x] = Cardinality(Users(x))
  /\ x \in Peers => (setup.maxConn[x] > 0 => active[x] <= setup.maxConn[x])
RelayInv ==
  /\ RelayTypes
  /\ \A s \in Scopes : ScopeInv(s)
  /\ \A x \in Exits : ExitInv(x)
  /\ QuotaEnforced

---------------------------------------------------------------------------
LEMMA SetupTypes ==
  ASSUME setup \in Setups
  PROVE  /\ IsFiniteSet(Conns) /\ IsFiniteSet(Addresses) /\ User \notin Rules
         /\ Route \in [Rules -> GroupNames] /\ \A g \in DOMAIN Groups : Groups[g].next \in GroupNames
         /\ Limits \in [Scopes -> [conns : Nat, ips : Nat]]
         /\ setup.maxConn \in [Peers -> Nat] /\ setup.targets \cap Peers = {}
         /\ Quota \in Nat
BY RelayAssumption DEF Addresses, Rules, Route, GroupNames, Groups, Limits, Scopes, Peers, Quota

LEMMA ScopesKept ==
  ASSUME UNCHANGED setup
  PROVE  /\ Scopes' = Scopes /\ Rules' = Rules /\ Addresses' = Addresses /\ Limits' = Limits
         /\ Exits' = Exits /\ Peers' = Peers /\ GroupNames' = GroupNames /\ Groups' = Groups
         /\ ConnStates' = ConnStates /\ Usages' = Usages /\ Quota' = Quota
BY DEF Scopes, Rules, Route, Addresses, Limits, Exits, Peers, GroupNames, Groups, ConnStates, Usages, Quota

LEMMA NoneCounted == \A S : S = {} => Cardinality(S) = 0
BY FS_EmptySet

LEMMA RelayInit == InitRelay => RelayInv
<1> SUFFICES ASSUME InitRelay PROVE RelayInv
  OBVIOUS
<1>1. setup \in Setups /\ conn = [c \in Conns |-> Out]
  BY DEF InitRelay
<1>2. Out \in ConnStates
  BY DEF Out, ConnStates, Places, GroupNames
<1>3. \A c \in Conns : conn[c].pc = "out" /\ ~HoldsExit(c) /\ \A s : ~Of(s, c)
  BY <1>1 DEF Out, HoldsExit, Of, HoldsUser, HoldsRule
<1>4. /\ usage \in [Scopes -> Usages]
      /\ \A s \in Scopes : /\ usage[s].n = 0
                           /\ \A a \in Addresses : usage[s].act[a] = 0 /\ usage[s].seen[a] = "no"
  BY DEF InitRelay, Scopes, Usages
<1>5. RelayTypes
  <2>1. active \in [Exits -> Int] /\ count \in [bytes : Nat, reported : Nat, own : Nat] /\ total \in Nat
    BY DEF InitRelay
  <2> QED BY <1>1, <1>2, <1>3, <1>4, <2>1 DEF RelayTypes, Placed, ConnAt
<1>6. ASSUME NEW s \in Scopes PROVE ScopeInv(s)
  <2>1. Holders(s) = {} /\ \A a \in Addresses : HoldersAt(s, a) = {}
    BY <1>3 DEF Holders, HoldersAt
  <2>2. Known(usage[s]) = {}
    BY <1>4 DEF Known
  <2>3. Limits[s].conns \in Nat /\ Limits[s].ips \in Nat
    BY <1>1, SetupTypes
  <2> QED BY <1>4, <2>1, <2>2, <2>3, NoneCounted DEF ScopeInv
<1>7. ASSUME NEW x \in Exits PROVE ExitInv(x)
  <2>1. Users(x) = {} /\ active[x] = 0
    BY <1>3 DEF Users, InitRelay
  <2>2. x \in Peers => setup.maxConn[x] \in Nat
    BY <1>1, SetupTypes
  <2> QED BY <2>1, <2>2, NoneCounted DEF ExitInv
<1>8. QuotaEnforced
  BY <1>1, SetupTypes DEF InitRelay, QuotaEnforced
<1> QED BY <1>5, <1>6, <1>7, <1>8 DEF RelayInv

---------------------------------------------------------------------------
\* One connection moves, and a counter follows it.

\* Only c moves.
Moves(c) ==
  /\ c \in Conns /\ setup' = setup /\ conn' \in [Conns -> ConnStates]
  /\ \A d \in Conns \ {c} : conn'[d] = conn[d]

LEMMA OthersStay ==
  ASSUME NEW c, Moves(c), NEW d \in Conns \ {c}
  PROVE  /\ conn'[d] = conn[d] /\ HoldsExit(d)' = HoldsExit(d)
         /\ \A s : (Of(s, d)' <=> Of(s, d))
         /\ Placed(d) => Placed(d)'
<1>1. conn'[d] = conn[d]
  BY DEF Moves
<1>2. HoldsExit(d)' = HoldsExit(d) /\ HoldsRule(d)' = HoldsRule(d) /\ HoldsUser(d)' = HoldsUser(d)
  BY <1>1 DEF HoldsExit, HoldsRule, HoldsUser
<1>3. \A s : (Of(s, d)' <=> Of(s, d))
  BY <1>1, <1>2 DEF Of
<1>4. Placed(d) => Placed(d)'
  BY <1>1, <1>2, ScopesKept DEF Placed, Moves, ConnAt
<1> QED BY <1>1, <1>2, <1>3, <1>4

\* Sets of connections are finite, and one connection more or less counts as one.
LEMMA ConnsCounted ==
  ASSUME IsFiniteSet(Conns), NEW S \in SUBSET Conns
  PROVE  /\ Cardinality(S) \in Nat
         /\ \A c \in Conns \ S : Cardinality(S \cup {c}) = Cardinality(S) + 1
         /\ \A c \in S : Cardinality(S \ {c}) = Cardinality(S) - 1
         /\ S # {} => Cardinality(S) > 0
<1>1. IsFiniteSet(S) /\ Cardinality(S) \in Nat
  BY FS_Subset, FS_CardinalityType
<1>2. \A c \in Conns \ S : Cardinality(S \cup {c}) = Cardinality(S) + 1
  BY <1>1, FS_AddElement
<1>3. \A c \in S : Cardinality(S \ {c}) = Cardinality(S) - 1
  BY <1>1, FS_RemoveElement
<1>4. S # {} => Cardinality(S) > 0
  BY <1>1, FS_EmptySet
<1> QED BY <1>1, <1>2, <1>3, <1>4

\* A rule or the user that c held and holds, or did not and does not.
LEMMA ScopeQuiet ==
  ASSUME NEW s \in Scopes, ScopeInv(s), NEW c, Moves(c), usage'[s] = usage[s],
         (Of(s, c)' <=> Of(s, c)), Of(s, c) => conn'[c].ip = conn[c].ip
  PROVE  ScopeInv(s)'
<1>1. \A d \in Conns : (Of(s, d)' <=> Of(s, d)) /\ (Of(s, d) => conn'[d].ip = conn[d].ip)
  BY OthersStay
<1>2. Holders(s)' = Holders(s) /\ \A a : HoldersAt(s, a)' = HoldersAt(s, a)
  BY <1>1 DEF Holders, HoldersAt
<1>3. Known(usage[s])' = Known(usage[s]) /\ Limits' = Limits /\ Addresses' = Addresses
  BY ScopesKept DEF Known, Moves
<1> QED BY <1>2, <1>3 DEF ScopeInv

LEMMA UsageTypes ==
  ASSUME RelayTypes, NEW s \in Scopes
  PROVE  /\ usage[s] \in Usages /\ usage[s].n \in Nat
         /\ usage[s].seen \in [Addresses -> {"no", "now", "long ago"}]
         /\ usage[s].act \in [Addresses -> Nat]
         /\ Known(usage[s]) \subseteq Addresses
BY DEF RelayTypes, Usages, Known

LEMMA Raised ==
  ASSUME NEW S, NEW f \in [S -> Nat], NEW a \in S
  PROVE  LET g == [f EXCEPT ![a] = @ + 1] IN
         g \in [S -> Nat] /\ \A x \in S : g[x] = IF x = a THEN f[x] + 1 ELSE f[x]
OBVIOUS
LEMMA Lowered ==
  ASSUME NEW S, NEW f \in [S -> Nat], NEW a \in S, f[a] > 0
  PROVE  LET g == [f EXCEPT ![a] = @ - 1] IN
         g \in [S -> Nat] /\ \A x \in S : g[x] = IF x = a THEN f[x] - 1 ELSE f[x]
OBVIOUS

LEMMA Acquired ==
  ASSUME RelayTypes, NEW s \in Scopes, NEW a \in Addresses, acquire(s, a)
  PROVE  /\ usage' \in [Scopes -> Usages]
         /\ \A t \in Scopes \ {s} : usage'[t] = usage[t]
         /\ usage'[s].n = usage[s].n + 1
         /\ \A x \in Addresses :
              /\ usage'[s].act[x] = IF x = a THEN usage[s].act[x] + 1 ELSE usage[s].act[x]
              /\ usage'[s].seen[x] = IF x = a THEN "now"
                                     ELSE IF x \in Known(usage[s]) THEN usage[s].seen[x] ELSE "no"
<1> DEFINE u == usage[s]
           act == [u.act EXCEPT ![a] = @ + 1]
           seen == [x \in Addresses |-> IF x = a THEN "now"
                                        ELSE IF x \in Known(u) THEN u.seen[x] ELSE "no"]
           v == [n |-> u.n + 1, act |-> act, seen |-> seen]
<1>1. usage' = [usage EXCEPT ![s] = v] /\ usage \in [Scopes -> Usages]
  BY DEF acquire, RelayTypes
<1>2. /\ act \in [Addresses -> Nat]
      /\ \A x \in Addresses : act[x] = IF x = a THEN usage[s].act[x] + 1 ELSE usage[s].act[x]
  <2> HIDE DEF act
  <2>1. usage[s].act \in [Addresses -> Nat]
    BY UsageTypes
  <2>2. act = [usage[s].act EXCEPT ![a] = usage[s].act[a] + 1]
    BY Zenon DEF act
  <2> QED BY <2>1, <2>2, Raised
<1>3. /\ seen \in [Addresses -> {"no", "now", "long ago"}]
      /\ \A x \in Addresses : seen[x] = IF x = a THEN "now"
                                     ELSE IF x \in Known(usage[s]) THEN usage[s].seen[x] ELSE "no"
  BY UsageTypes
<1> HIDE DEF act, seen
<1>4. v \in Usages
  <2> HIDE DEF v
  <2>0. u.n \in Nat
    BY UsageTypes
  <2> HIDE DEF u
  <2>1. u.n + 1 \in Nat
    BY <2>0
  <2> USE DEF u, v
  <2>2. v \in [n : Nat, act : [Addresses -> Nat], seen : [Addresses -> {"no", "now", "long ago"}]]
    BY <1>2, <1>3, <2>1
  <2> QED BY <2>2 DEF Usages
<1> QED BY <1>1, <1>2, <1>3, <1>4

LEMMA GivenBack ==
  ASSUME RelayTypes, NEW s \in Scopes, NEW a \in Addresses, release(s, a), usage[s].n > 0, usage[s].act[a] > 0
  PROVE  /\ usage' \in [Scopes -> Usages]
         /\ \A t \in Scopes \ {s} : usage'[t] = usage[t]
         /\ usage'[s].n = usage[s].n - 1
         /\ \A x \in Addresses :
              /\ usage'[s].act[x] = IF x = a THEN usage[s].act[x] - 1 ELSE usage[s].act[x]
              /\ usage'[s].seen[x] = IF x = a THEN "now" ELSE usage[s].seen[x]
<1> DEFINE u == usage[s]
           act == [u.act EXCEPT ![a] = @ - 1]
           seen == [u.seen EXCEPT ![a] = "now"]
           v == [n |-> u.n - 1, act |-> act, seen |-> seen]
<1>1. usage' = [usage EXCEPT ![s] = v] /\ usage \in [Scopes -> Usages]
  BY DEF release, RelayTypes
<1>2. /\ act \in [Addresses -> Nat]
      /\ \A x \in Addresses : act[x] = IF x = a THEN usage[s].act[x] - 1 ELSE usage[s].act[x]
  <2> HIDE DEF act
  <2>1. usage[s].act \in [Addresses -> Nat]
    BY UsageTypes
  <2>2. act = [usage[s].act EXCEPT ![a] = usage[s].act[a] - 1]
    BY Zenon DEF act
  <2> QED BY <2>1, <2>2, Lowered
<1>3. /\ seen \in [Addresses -> {"no", "now", "long ago"}]
      /\ \A x \in Addresses : seen[x] = IF x = a THEN "now" ELSE usage[s].seen[x]
  BY UsageTypes, Zenon
<1> HIDE DEF act, seen
<1>4. v \in Usages
  <2> HIDE DEF v
  <2>0. u.n \in Nat /\ u.n > 0
    BY UsageTypes
  <2> HIDE DEF u
  <2>1. u.n - 1 \in Nat
    BY <2>0
  <2> USE DEF u, v
  <2>2. v \in [n : Nat, act : [Addresses -> Nat], seen : [Addresses -> {"no", "now", "long ago"}]]
    BY <1>2, <1>3, <2>1
  <2> QED BY <2>2 DEF Usages
<1> QED BY <1>1, <1>2, <1>3, <1>4

LEMMA ScopeJoined ==
  ASSUME RelayTypes, NEW s \in Scopes, ScopeInv(s), NEW c, Moves(c), NEW a \in Addresses,
         acquire(s, a), Admits(s, a), ~Of(s, c), Of(s, c)', conn'[c].ip = a
  PROVE  ScopeInv(s)'
<1> USE DEF Moves
<1>1. \A d \in Conns \ {c} : (Of(s, d)' <=> Of(s, d)) /\ conn'[d] = conn[d]
  BY OthersStay
<1>2. Holders(s)' = Holders(s) \cup {c} /\ c \notin Holders(s)
  BY <1>1 DEF Holders
<1>3. /\ HoldersAt(s, a)' = HoldersAt(s, a) \cup {c} /\ c \notin HoldersAt(s, a)
      /\ \A x \in Addresses \ {a} : HoldersAt(s, x)' = HoldersAt(s, x)
  BY <1>1 DEF HoldersAt
<1>4. IsFiniteSet(Conns) /\ Limits[s].conns \in Nat /\ Limits[s].ips \in Nat /\ IsFiniteSet(Addresses)
  BY SetupTypes DEF RelayTypes
<1>5. /\ Limits' = Limits /\ Addresses' = Addresses
  BY ScopesKept
<1>a. /\ usage'[s].n = usage[s].n + 1 /\ usage[s].n \in Nat /\ usage[s].n = Cardinality(Holders(s))
      /\ \A x \in Addresses :
           /\ usage[s].act[x] \in Nat /\ usage[s].act[x] = Cardinality(HoldersAt(s, x))
           /\ usage'[s].act[x] = IF x = a THEN usage[s].act[x] + 1 ELSE usage[s].act[x]
           /\ usage'[s].seen[x] = IF x = a THEN "now"
                                  ELSE IF x \in Known(usage[s]) THEN usage[s].seen[x] ELSE "no"
  <2>1. usage[s].n \in Nat /\ \A x \in Addresses : usage[s].act[x] \in Nat
    BY UsageTypes
  <2> QED BY <2>1, Acquired DEF ScopeInv
<1>6. usage'[s].n = Cardinality(Holders(s)')
  <2>1. Cardinality(Holders(s) \cup {c}) = Cardinality(Holders(s)) + 1
    BY <1>2, <1>4, ConnsCounted DEF Holders
  <2> QED BY <1>2, <1>a, <2>1
<1>7. \A x \in Addresses : usage'[s].act[x] = Cardinality(HoldersAt(s, x)')
  <2>1. Cardinality(HoldersAt(s, a) \cup {c}) = Cardinality(HoldersAt(s, a)) + 1
    BY <1>3, <1>4, ConnsCounted DEF HoldersAt
  <2> QED BY ZenonT(30), <1>3, <1>a, <2>1
<1>8. Known(usage[s])' = Known(usage[s]) \cup {a}
  <2>1. ASSUME NEW x \in Addresses PROVE x \in Known(usage[s])' <=> x \in Known(usage[s]) \/ x = a
    <3>1. /\ usage'[s].seen[x] = IF x = a THEN "now"
                                 ELSE IF x \in Known(usage[s]) THEN usage[s].seen[x] ELSE "no"
          /\ x # a => usage'[s].act[x] = usage[s].act[x]
      BY <1>a
    <3> QED BY <1>5, <3>1 DEF Known
  <2>2. Known(usage[s])' \subseteq Addresses /\ Known(usage[s]) \subseteq Addresses
    BY <1>5 DEF Known
  <2> QED BY <2>1, <2>2
<1>9. \A x \in Addresses : usage'[s].act[x] > 0 => usage'[s].seen[x] # "no"
  <2> SUFFICES ASSUME NEW x \in Addresses, usage'[s].act[x] > 0, x # a
               PROVE  usage'[s].seen[x] # "no"
    BY <1>a
  <2>1. usage[s].act[x] > 0 /\ usage[s].seen[x] # "no"
    BY <1>a DEF ScopeInv
  <2>2. usage[s].seen[x] \in {"no", "now", "long ago"}
    BY UsageTypes
  <2>3. x \in Known(usage[s])
    BY <2>1, <2>2 DEF Known
  <2> QED BY <2>1, <2>3, <1>a
<1>10. Limits[s].conns > 0 => usage'[s].n <= Limits[s].conns
  BY <1>4, <1>a DEF Admits
<1>11. Limits[s].ips > 0 => Cardinality(Known(usage[s])') <= Limits[s].ips
  <2>1. IsFiniteSet(Known(usage[s])) /\ Cardinality(Known(usage[s])) \in Nat
    BY <1>4, UsageTypes, FS_Subset, FS_CardinalityType
  <2>2. CASE a \in Known(usage[s])
    <3>1. Known(usage[s])' = Known(usage[s])
      BY <1>8, <2>2
    <3> QED BY <3>1 DEF ScopeInv
  <2>3. CASE a \notin Known(usage[s])
    <3>1. Cardinality(Known(usage[s])') = Cardinality(Known(usage[s])) + 1
      BY <1>8, <2>1, <2>3, FS_AddElement
    <3> QED BY <1>4, <2>1, <2>3, <3>1 DEF Admits
  <2> QED BY <2>2, <2>3
<1> QED BY <1>5, <1>6, <1>7, <1>9, <1>10, <1>11 DEF ScopeInv

LEMMA HolderCounted ==
  ASSUME RelayTypes, NEW s \in Scopes, ScopeInv(s), NEW c \in Conns, Of(s, c), NEW a \in Addresses, conn[c].ip = a
  PROVE  usage[s].n > 0 /\ usage[s].act[a] > 0
<1>1. Holders(s) # {} /\ HoldersAt(s, a) # {} /\ Holders(s) \subseteq Conns /\ HoldersAt(s, a) \subseteq Conns
  BY DEF Holders, HoldersAt
<1>2. IsFiniteSet(Conns)
  BY SetupTypes DEF RelayTypes
<1>3. Cardinality(Holders(s)) > 0 /\ Cardinality(HoldersAt(s, a)) > 0
  BY <1>1, <1>2, ConnsCounted
<1> QED BY <1>3 DEF ScopeInv

LEMMA ScopeLeft ==
  ASSUME RelayTypes, NEW s \in Scopes, ScopeInv(s), NEW c, Moves(c), NEW a \in Addresses,
         release(s, a), Of(s, c), ~Of(s, c)', conn[c].ip = a
  PROVE  ScopeInv(s)'
<1> USE DEF Moves
<1>0. usage[s].n > 0 /\ usage[s].act[a] > 0
  BY HolderCounted
<1>1. \A d \in Conns \ {c} : (Of(s, d)' <=> Of(s, d)) /\ conn'[d] = conn[d]
  BY OthersStay
<1>2. Holders(s)' = Holders(s) \ {c} /\ c \in Holders(s)
  BY <1>1 DEF Holders
<1>3. /\ HoldersAt(s, a)' = HoldersAt(s, a) \ {c} /\ c \in HoldersAt(s, a)
      /\ \A x \in Addresses \ {a} : HoldersAt(s, x)' = HoldersAt(s, x)
  BY <1>1 DEF HoldersAt
<1>4. IsFiniteSet(Conns) /\ Limits[s].conns \in Nat /\ Limits[s].ips \in Nat /\ IsFiniteSet(Addresses)
  BY SetupTypes DEF RelayTypes
<1>5. /\ Limits' = Limits /\ Addresses' = Addresses
  BY ScopesKept
<1>a. /\ usage'[s].n = usage[s].n - 1 /\ usage[s].n \in Nat /\ usage[s].n = Cardinality(Holders(s))
      /\ \A x \in Addresses :
           /\ usage[s].act[x] \in Nat /\ usage[s].act[x] = Cardinality(HoldersAt(s, x))
           /\ usage'[s].act[x] = IF x = a THEN usage[s].act[x] - 1 ELSE usage[s].act[x]
           /\ usage'[s].seen[x] = IF x = a THEN "now" ELSE usage[s].seen[x]
  <2>1. usage[s].n \in Nat /\ \A x \in Addresses : usage[s].act[x] \in Nat
    BY UsageTypes
  <2> QED BY <1>0, <2>1, GivenBack DEF ScopeInv
<1>6. usage'[s].n = Cardinality(Holders(s)')
  <2>1. Cardinality(Holders(s) \ {c}) = Cardinality(Holders(s)) - 1
    BY <1>2, <1>4, ConnsCounted DEF Holders
  <2> QED BY <1>2, <1>a, <2>1
<1>7. \A x \in Addresses : usage'[s].act[x] = Cardinality(HoldersAt(s, x)')
  <2>1. Cardinality(HoldersAt(s, a) \ {c}) = Cardinality(HoldersAt(s, a)) - 1
    BY <1>3, <1>4, ConnsCounted DEF HoldersAt
  <2> QED BY <1>3, <1>a, <2>1
<1>8. Known(usage[s])' \subseteq Known(usage[s])
  <2>1. a \in Known(usage[s])
    <3>1. usage[s].seen[a] # "no" /\ usage[s].seen[a] \in {"no", "now", "long ago"}
      BY <1>0, UsageTypes DEF ScopeInv
    <3> QED BY <1>0, <3>1 DEF Known
  <2>2. ASSUME NEW x \in Addresses, x # a, x \in Known(usage[s])' PROVE x \in Known(usage[s])
    <3>1. usage'[s].seen[x] = usage[s].seen[x] /\ usage'[s].act[x] = usage[s].act[x]
      BY <1>a, <2>2
    <3> QED BY <1>5, <2>2, <3>1 DEF Known
  <2>3. Known(usage[s])' \subseteq Addresses
    BY <1>5 DEF Known
  <2> QED BY <2>1, <2>2, <2>3
<1>9. \A x \in Addresses : usage'[s].act[x] > 0 => usage'[s].seen[x] # "no"
  BY <1>a DEF ScopeInv
<1>10. Limits[s].conns > 0 => usage'[s].n <= Limits[s].conns
  BY <1>4, <1>a DEF ScopeInv
<1>11. Limits[s].ips > 0 => Cardinality(Known(usage[s])') <= Limits[s].ips
  <2>1. IsFiniteSet(Known(usage[s])) /\ Cardinality(Known(usage[s])) \in Nat
    BY <1>4, UsageTypes, FS_Subset, FS_CardinalityType
  <2>2. Cardinality(Known(usage[s])') \in Nat /\ Cardinality(Known(usage[s])') <= Cardinality(Known(usage[s]))
    BY <1>8, <2>1, FS_Subset, FS_CardinalityType
  <2> QED BY <1>4, <2>1, <2>2 DEF ScopeInv
<1> QED BY <1>5, <1>6, <1>7, <1>9, <1>10, <1>11 DEF ScopeInv

\* An exit that c holds as before, takes or gives back.
ExitAsBefore(c) == (HoldsExit(c)' <=> HoldsExit(c)) /\ (HoldsExit(c) => conn'[c].exit = conn[c].exit)
LEMMA ExitQuiet ==
  ASSUME NEW x \in Exits, ExitInv(x), NEW c, Moves(c), active'[x] = active[x],
         HoldsExit(c)' /\ conn'[c].exit = x => HoldsExit(c) /\ conn[c].exit = x,
         HoldsExit(c) /\ conn[c].exit = x => HoldsExit(c)' /\ conn'[c].exit = x
  PROVE  ExitInv(x)'
<1>1. Users(x)' = Users(x)
  BY OthersStay DEF Users
<1> QED BY <1>1, ScopesKept DEF ExitInv, Moves

LEMMA ExitTaken ==
  ASSUME RelayTypes, NEW x \in Exits, ExitInv(x), NEW c, Moves(c), active'[x] = active[x] + 1,
         x \in Peers => (setup.maxConn[x] > 0 => active[x] < setup.maxConn[x]),
         ~HoldsExit(c), HoldsExit(c)', conn'[c].exit = x
  PROVE  ExitInv(x)'
<1>1. Users(x)' = Users(x) \cup {c} /\ c \notin Users(x) /\ c \in Conns
  BY OthersStay DEF Users, Moves
<1>2. IsFiniteSet(Conns) /\ (x \in Peers => setup.maxConn[x] \in Nat)
  BY SetupTypes DEF RelayTypes
<1>3. Cardinality(Users(x) \cup {c}) = Cardinality(Users(x)) + 1 /\ Cardinality(Users(x)) \in Nat
  BY <1>1, <1>2, ConnsCounted DEF Users
<1>4. active'[x] = Cardinality(Users(x)')
  BY <1>1, <1>3 DEF ExitInv
<1>5. x \in Peers => (setup.maxConn[x] > 0 => active'[x] <= setup.maxConn[x])
  BY <1>2, <1>3 DEF ExitInv
<1> QED BY <1>4, <1>5, ScopesKept DEF ExitInv, Moves

LEMMA ExitLeft ==
  ASSUME RelayTypes, NEW x \in Exits, ExitInv(x), NEW c, Moves(c), active'[x] = active[x] - 1,
         HoldsExit(c), conn[c].exit = x, ~HoldsExit(c)'
  PROVE  ExitInv(x)'
<1>1. Users(x)' = Users(x) \ {c} /\ c \in Users(x) /\ c \in Conns
  BY OthersStay DEF Users, Moves
<1>2. IsFiniteSet(Conns) /\ (x \in Peers => setup.maxConn[x] \in Nat)
  BY SetupTypes DEF RelayTypes
<1>3. Cardinality(Users(x) \ {c}) = Cardinality(Users(x)) - 1 /\ Cardinality(Users(x)) \in Nat
  BY <1>1, <1>2, ConnsCounted DEF Users
<1>4. active'[x] = Cardinality(Users(x)')
  BY <1>1, <1>3 DEF ExitInv
<1>5. x \in Peers => (setup.maxConn[x] > 0 => active'[x] <= setup.maxConn[x])
  BY <1>2, <1>3 DEF ExitInv
<1> QED BY <1>4, <1>5, ScopesKept DEF ExitInv, Moves

---------------------------------------------------------------------------
\* How a step is put together.

HeldAsBefore(c) ==
  /\ (HoldsRule(c)' <=> HoldsRule(c)) /\ (HoldsUser(c)' <=> HoldsUser(c))
  /\ HoldsRule(c) \/ HoldsUser(c) => conn'[c].rule = conn[c].rule /\ conn'[c].ip = conn[c].ip
LEMMA ScopesQuiet ==
  ASSUME RelayInv, NEW c, Moves(c), HeldAsBefore(c), usage' = usage
  PROVE  \A s \in Scopes : ScopeInv(s)'
<1> SUFFICES ASSUME NEW s \in Scopes PROVE ScopeInv(s)'
  OBVIOUS
<1>1. (Of(s, c)' <=> Of(s, c))
  BY DEF HeldAsBefore, Of
<1>2. Of(s, c) => conn'[c].ip = conn[c].ip
  BY DEF HeldAsBefore, Of
<1> QED BY <1>1, <1>2, ScopeQuiet DEF RelayInv

LEMMA ExitsQuiet ==
  ASSUME RelayInv, NEW c, Moves(c), ExitAsBefore(c), active' = active
  PROVE  \A x \in Exits : ExitInv(x)'
<1> SUFFICES ASSUME NEW x \in Exits PROVE ExitInv(x)'
  OBVIOUS
<1> QED BY ExitQuiet DEF RelayInv, ExitAsBefore

LEMMA TypesKept ==
  ASSUME RelayInv, NEW c, Moves(c), Placed(c)', UNCHANGED <<count, total>>,
         usage' \in [Scopes -> Usages], active' \in [Exits -> Int]
  PROVE  RelayTypes' /\ QuotaEnforced'
<1>1. \A d \in Conns : Placed(d)'
  BY OthersStay DEF RelayInv, RelayTypes
<1>2. setup' = setup /\ conn' \in [Conns -> ConnStates]
  BY DEF Moves
<1>3. RelayTypes'
  BY <1>1, <1>2, ScopesKept DEF RelayInv, RelayTypes
<1>4. QuotaEnforced'
  BY <1>2, ScopesKept DEF RelayInv, QuotaEnforced
<1> QED BY <1>3, <1>4

LEMMA StepKeeps ==
  ASSUME UNCHANGED setup, RelayTypes', QuotaEnforced',
         \A s \in Scopes : ScopeInv(s)', \A x \in Exits : ExitInv(x)'
  PROVE  RelayInv'
BY ScopesKept DEF RelayInv

LEMMA QuietStep ==
  ASSUME RelayInv, NEW c, Moves(c), Placed(c)', HeldAsBefore(c), ExitAsBefore(c),
         UNCHANGED <<usage, active, count, total>>
  PROVE  RelayInv'
<1>1. RelayTypes' /\ QuotaEnforced'
  BY TypesKept DEF RelayInv, RelayTypes
<1>2. (\A s \in Scopes : ScopeInv(s)') /\ \A x \in Exits : ExitInv(x)'
  BY ScopesQuiet, ExitsQuiet
<1> QED BY <1>1, <1>2, StepKeeps DEF Moves

LEMMA MovedTo ==
  ASSUME RelayTypes, NEW c \in Conns, UNCHANGED setup, NEW r \in ConnStates, conn' = [conn EXCEPT ![c] = r]
  PROVE  Moves(c) /\ conn'[c] = r
BY DEF RelayTypes, Moves
LEMMA ConnTypes ==
  ASSUME RelayTypes, NEW c \in Conns
  PROVE  /\ conn[c] \in ConnStates /\ conn[c].pc \in Places
         /\ conn[c].rule \in Rules \cup {0} /\ conn[c].ip \in Addresses \cup {0} /\ conn[c].group \in GroupNames
         /\ conn[c].seen \subseteq GroupNames /\ conn[c].todo \subseteq Exits /\ conn[c].exit \in Exits \cup {0}
BY DEF RelayTypes, ConnStates
LEMMA Went ==
  ASSUME RelayTypes, NEW c \in Conns, UNCHANGED setup, NEW pc \in Places, Go(c, pc)
  PROVE  /\ Moves(c) /\ conn'[c].pc = pc /\ conn'[c].rule = conn[c].rule /\ conn'[c].ip = conn[c].ip
         /\ conn'[c].exit = conn[c].exit
<1> DEFINE r == [conn[c] EXCEPT !.pc = pc]
<1>1. r \in ConnStates /\ r.pc = pc /\ r.rule = conn[c].rule /\ r.ip = conn[c].ip /\ r.exit = conn[c].exit
  BY ConnTypes DEF ConnStates
<1>2. conn' = [conn EXCEPT ![c] = r]
  BY DEF Go
<1> HIDE DEF r
<1> QED BY <1>1, <1>2, MovedTo

\* What a connection holds is a matter of where it is.
LEMMA HeldAt ==
  ASSUME NEW c
  PROVE  /\ HoldsRule(c) <=> ~ConnAt(c, "out") /\ ~ConnAt(c, "accepted") /\ ~ConnAt(c, "user left")
         /\ HoldsExit(c) <=> \/ ConnAt(c, "dialling") \/ ConnAt(c, "opened")
                             \/ ConnAt(c, "relaying") \/ ConnAt(c, "release exit")
         /\ HoldsUser(c) <=> \/ ConnAt(c, "admitted") \/ ConnAt(c, "choosing") \/ ConnAt(c, "dialling")
                             \/ ConnAt(c, "opened") \/ ConnAt(c, "relaying") \/ ConnAt(c, "release exit")
                             \/ ConnAt(c, "release user") \/ ConnAt(c, "user left")
BY DEF HoldsRule, HoldsExit, HoldsUser, ConnAt

LEMMA StepWithin ==
  ASSUME RelayInv, NEW c \in Conns, UNCHANGED <<setup, usage, active, count, total>>, NEW pc \in Places, Go(c, pc),
         \/ ConnAt(c, "counted") /\ pc \in {"release rule", "within quota"}
         \/ ConnAt(c, "within quota") /\ pc = "release rule"
         \/ ConnAt(c, "choosing") /\ pc = "release user"
         \/ ConnAt(c, "dialling") /\ pc = "opened"
         \/ ConnAt(c, "opened") /\ pc \in {"release exit", "relaying"}
         \/ ConnAt(c, "relaying") /\ pc = "release exit"
  PROVE  RelayInv'
<1> USE DEF RelayInv
<1>1. /\ Moves(c) /\ conn'[c].pc = pc /\ conn'[c].rule = conn[c].rule /\ conn'[c].ip = conn[c].ip
      /\ conn'[c].exit = conn[c].exit
  BY Went
<1>2. (HoldsRule(c)' <=> HoldsRule(c)) /\ (HoldsUser(c)' <=> HoldsUser(c)) /\ (HoldsExit(c)' <=> HoldsExit(c))
  BY <1>1 DEF HoldsRule, HoldsUser, HoldsExit, ConnAt
<1>3. Placed(c) /\ ~ConnAt(c, "out")
  BY DEF RelayTypes, ConnAt
<1>4. Placed(c)'
  BY <1>1, <1>2, <1>3, ScopesKept DEF Placed
<1> QED BY <1>1, <1>2, <1>4, QuietStep DEF HeldAsBefore, ExitAsBefore

LEMMA Accepting ==
  ASSUME RelayInv, NEW c \in Conns, NEW r \in Rules, NEW a \in Addresses, Accept(c, r, a), UNCHANGED setup
  PROVE  RelayInv'
<1> USE DEF RelayInv
<1> DEFINE s == [Out EXCEPT !.pc = "accepted", !.rule = r, !.ip = a]
<1>1. s \in ConnStates /\ s.pc = "accepted" /\ s.rule = r /\ s.ip = a
  BY DEF ConnStates, Out, Places, GroupNames
<1>2. conn' = [conn EXCEPT ![c] = s] /\ UNCHANGED <<usage, count, total, active>> /\ conn[c].pc = "out"
  BY DEF Accept, ConnAt
<1> HIDE DEF s
<1>3. Moves(c) /\ conn'[c].pc = "accepted" /\ conn'[c].rule = r /\ conn'[c].ip = a
  BY <1>1, <1>2, MovedTo
<1>4. /\ (HoldsRule(c)' <=> HoldsRule(c)) /\ (HoldsUser(c)' <=> HoldsUser(c)) /\ (HoldsExit(c)' <=> HoldsExit(c))
      /\ ~HoldsRule(c) /\ ~HoldsUser(c) /\ ~HoldsExit(c)
  BY <1>2, <1>3 DEF HoldsRule, HoldsUser, HoldsExit
<1>5. Placed(c)'
  BY <1>3, <1>4, ScopesKept DEF Placed
<1> QED BY <1>2, <1>3, <1>4, <1>5, QuietStep DEF HeldAsBefore, ExitAsBefore

LEMMA Leaving ==
  ASSUME RelayTypes, NEW c \in Conns, UNCHANGED setup, conn' = [conn EXCEPT ![c] = Out]
  PROVE  Moves(c) /\ Placed(c)' /\ ~HoldsRule(c)' /\ ~HoldsUser(c)' /\ ~HoldsExit(c)'
<1>1. Out \in ConnStates /\ Out.pc = "out"
  BY DEF ConnStates, Out, Places, GroupNames
<1>2. Moves(c) /\ conn'[c].pc = "out"
  BY <1>1, MovedTo
<1>3. ~HoldsRule(c)' /\ ~HoldsUser(c)' /\ ~HoldsExit(c)'
  BY <1>2 DEF HoldsRule, HoldsUser, HoldsExit
<1> QED BY <1>2, <1>3 DEF Placed, ConnAt

\* The rule's counters or the user's follow c, and the others stay.
LEMMA RuleFollows ==
  ASSUME RelayInv, NEW c, Moves(c), Placed(c)', NEW r \in Rules, conn[c].rule = r,
         usage' \in [Scopes -> Usages], \A t \in Scopes \ {r} : usage'[t] = usage[t], UNCHANGED <<count, total, active>>,
         ExitAsBefore(c), (HoldsUser(c)' <=> HoldsUser(c)), HoldsUser(c) => conn'[c].ip = conn[c].ip,
         HoldsRule(c)' => conn'[c].rule = r, ScopeInv(r)'
  PROVE  RelayInv'
<1>1. RelayTypes' /\ QuotaEnforced'
  BY TypesKept DEF RelayInv, RelayTypes
<1>2. ASSUME NEW s \in Scopes \ {r} PROVE ScopeInv(s)'
  <2>1. (Of(s, c)' <=> Of(s, c)) /\ (Of(s, c) => conn'[c].ip = conn[c].ip)
    <3>1. CASE s = User
      BY <3>1 DEF Of
    <3>2. CASE s # User
      BY <3>2 DEF Of
    <3> QED BY <3>1, <3>2
  <2> QED BY <2>1, ScopeQuiet DEF RelayInv
<1>3. \A x \in Exits : ExitInv(x)'
  BY ExitsQuiet
<1> QED BY <1>1, <1>2, <1>3, StepKeeps DEF Moves

LEMMA UserFollows ==
  ASSUME RelayInv, NEW c, Moves(c), Placed(c)',
         usage' \in [Scopes -> Usages], \A t \in Scopes \ {User} : usage'[t] = usage[t], UNCHANGED <<count, total, active>>,
         ExitAsBefore(c), (HoldsRule(c)' <=> HoldsRule(c)),
         HoldsRule(c) => conn'[c].ip = conn[c].ip /\ conn'[c].rule = conn[c].rule, ScopeInv(User)'
  PROVE  RelayInv'
<1>1. RelayTypes' /\ QuotaEnforced'
  BY TypesKept DEF RelayInv, RelayTypes
<1>2. ASSUME NEW s \in Scopes \ {User} PROVE ScopeInv(s)'
  <2>1. (Of(s, c)' <=> Of(s, c)) /\ (Of(s, c) => conn'[c].ip = conn[c].ip)
    BY DEF Of
  <2> QED BY <2>1, ScopeQuiet DEF RelayInv
<1>3. \A x \in Exits : ExitInv(x)'
  BY ExitsQuiet
<1> QED BY <1>1, <1>2, <1>3, StepKeeps DEF Moves

LEMMA Inside ==
  ASSUME RelayTypes, NEW c \in Conns, ~ConnAt(c, "out")
  PROVE  conn[c].rule \in Rules /\ conn[c].ip \in Addresses /\ conn[c].rule # User /\ conn[c].rule \in Scopes
         /\ User \in Scopes
BY SetupTypes DEF RelayTypes, Placed, Scopes

LEMMA AdmittingRule == ASSUME RelayInv, NEW c \in Conns, AdmitRule(c), UNCHANGED setup PROVE RelayInv'
<1> USE DEF RelayInv
<1> DEFINE r == conn[c].rule
           a == conn[c].ip
<1>1. conn[c].pc = "accepted" /\ UNCHANGED <<count, total, active>>
  BY DEF AdmitRule, ConnAt
<1>2. r \in Rules /\ a \in Addresses /\ r # User /\ r \in Scopes
  BY <1>1, Inside DEF ConnAt
<1>3. ~HoldsRule(c) /\ ~HoldsUser(c) /\ ~HoldsExit(c)
  BY <1>1 DEF HoldsRule, HoldsUser, HoldsExit
<1>4. CASE Admits(r, a)
  <2>1. acquire(r, a) /\ Go(c, "counted")
    BY <1>4 DEF AdmitRule
  <2>2. /\ Moves(c) /\ conn'[c].pc = "counted" /\ conn'[c].rule = r /\ conn'[c].ip = a
    BY <2>1, Went DEF Places
  <2>3. HoldsRule(c)' /\ ~HoldsUser(c)' /\ ~HoldsExit(c)'
    BY <2>2 DEF HoldsRule, HoldsUser, HoldsExit
  <2>4. Placed(c)'
    BY <1>2, <2>2, <2>3, ScopesKept DEF Placed
  <2>5. ~Of(r, c) /\ Of(r, c)'
    BY <1>2, <1>3, <2>2, <2>3 DEF Of
  <2>6. ScopeInv(r)'
    BY <1>2, <1>4, <2>1, <2>2, <2>5, ScopeJoined
  <2>7. usage' \in [Scopes -> Usages] /\ \A t \in Scopes \ {r} : usage'[t] = usage[t]
    BY <1>2, <2>1, Acquired
  <2> HIDE DEF RelayInv
  <2> QED BY <1>1, <1>2, <1>3, <2>2, <2>3, <2>4, <2>6, <2>7, RuleFollows DEF ExitAsBefore
<1>5. CASE ~Admits(r, a)
  <2>1. conn' = [conn EXCEPT ![c] = Out] /\ UNCHANGED usage
    BY <1>5 DEF AdmitRule
  <2>2. Moves(c) /\ Placed(c)' /\ ~HoldsRule(c)' /\ ~HoldsUser(c)' /\ ~HoldsExit(c)'
    BY <2>1, Leaving
  <2> HIDE DEF RelayInv
  <2> QED BY <1>1, <1>3, <2>1, <2>2, QuietStep DEF HeldAsBefore, ExitAsBefore
<1> QED BY <1>4, <1>5

LEMMA AdmittingUser == ASSUME RelayInv, NEW c \in Conns, AdmitUser(c), UNCHANGED setup PROVE RelayInv'
<1> USE DEF RelayInv
<1> DEFINE r == conn[c].rule
           a == conn[c].ip
<1>1. conn[c].pc = "within quota" /\ UNCHANGED <<count, total, active>>
  BY DEF AdmitUser, ConnAt
<1>2. r \in Rules /\ a \in Addresses /\ User \in Scopes
  BY <1>1, Inside DEF ConnAt
<1>3. HoldsRule(c) /\ ~HoldsUser(c) /\ ~HoldsExit(c)
  BY <1>1 DEF HoldsRule, HoldsUser, HoldsExit
<1>4. CASE Admits(User, a)
  <2>1. acquire(User, a) /\ Go(c, "admitted")
    BY <1>4 DEF AdmitUser
  <2>2. /\ Moves(c) /\ conn'[c].pc = "admitted" /\ conn'[c].rule = r /\ conn'[c].ip = a
    BY <2>1, Went DEF Places
  <2>3. HoldsRule(c)' /\ HoldsUser(c)' /\ ~HoldsExit(c)'
    BY <2>2 DEF HoldsRule, HoldsUser, HoldsExit
  <2>4. Placed(c)'
    BY <1>2, <2>2, <2>3, ScopesKept DEF Placed
  <2>5. ~Of(User, c) /\ Of(User, c)'
    BY <1>3, <2>3 DEF Of
  <2>6. ScopeInv(User)'
    BY <1>2, <1>4, <2>1, <2>2, <2>5, ScopeJoined
  <2>7. usage' \in [Scopes -> Usages] /\ \A t \in Scopes \ {User} : usage'[t] = usage[t]
    BY <1>2, <2>1, Acquired
  <2> HIDE DEF RelayInv
  <2> QED BY <1>1, <1>2, <1>3, <2>2, <2>3, <2>4, <2>6, <2>7, UserFollows DEF ExitAsBefore
<1>5. CASE ~Admits(User, a)
  <2>1. Go(c, "release rule") /\ UNCHANGED usage
    BY <1>5 DEF AdmitUser
  <2> HIDE DEF RelayInv
  <2> QED BY <1>1, <2>1, StepWithin DEF Places, ConnAt
<1> QED BY <1>4, <1>5

LeavesRule(c) == \/ ConnAt(c, "release rule") /\ conn' = [conn EXCEPT ![c] = Out]
                 \/ ConnAt(c, "release user") /\ Go(c, "user left")
LEMMA LeavingRule ==
  ASSUME RelayInv, NEW c \in Conns, UNCHANGED setup, UNCHANGED <<count, total, active>>,
         LeavesRule(c), NEW r, NEW a, r = conn[c].rule, a = conn[c].ip, release(r, a)
  PROVE  RelayInv'
<1> USE DEF RelayInv
<1>1. r \in Rules /\ a \in Addresses /\ r # User /\ r \in Scopes
  BY Inside DEF LeavesRule, ConnAt
<1>2. HoldsRule(c) /\ ~HoldsExit(c)
  BY DEF LeavesRule, HoldsRule, HoldsExit, ConnAt
<1>3. /\ Moves(c) /\ Placed(c)' /\ ~HoldsRule(c)' /\ ~HoldsExit(c)' /\ (HoldsUser(c)' <=> HoldsUser(c))
      /\ HoldsUser(c) => conn'[c].ip = a
  <2>1. CASE ConnAt(c, "release rule") /\ conn' = [conn EXCEPT ![c] = Out]
    <3>1. Moves(c) /\ Placed(c)' /\ ~HoldsRule(c)' /\ ~HoldsUser(c)' /\ ~HoldsExit(c)'
      BY <2>1, Leaving
    <3>2. ~HoldsUser(c)
      BY <2>1 DEF ConnAt, HoldsUser
    <3> QED BY <3>1, <3>2
  <2>2. CASE ConnAt(c, "release user") /\ Go(c, "user left")
    <3>1. Moves(c) /\ conn'[c].pc = "user left" /\ conn'[c].rule = r /\ conn'[c].ip = a
      BY <2>2, Went DEF Places
    <3>2. ~HoldsRule(c)' /\ HoldsUser(c)' /\ ~HoldsExit(c)'
      BY <3>1 DEF HoldsRule, HoldsUser, HoldsExit
    <3>3. HoldsUser(c)
      BY <2>2 DEF HoldsUser, ConnAt
    <3>4. Placed(c)'
      BY <1>1, <3>1, <3>2, ScopesKept DEF Placed
    <3> QED BY <3>1, <3>2, <3>3, <3>4
  <2> QED BY <2>1, <2>2 DEF LeavesRule
<1>4. Of(r, c) /\ ~Of(r, c)'
  BY <1>1, <1>2, <1>3 DEF Of
<1>5. ScopeInv(r) /\ ScopeInv(r)'
  BY <1>1, <1>3, <1>4, ScopeLeft
<1>6. usage' \in [Scopes -> Usages] /\ \A t \in Scopes \ {r} : usage'[t] = usage[t]
  BY <1>1, <1>4, <1>5, HolderCounted, GivenBack
<1> HIDE DEF RelayInv
<1> QED BY <1>1, <1>2, <1>3, <1>5, <1>6, RuleFollows DEF ExitAsBefore

LEMMA LeavingUser == ASSUME RelayInv, NEW c \in Conns, ReleaseUser(c), UNCHANGED setup PROVE RelayInv'
<1> USE DEF RelayInv
<1> DEFINE a == conn[c].ip
<1>1. /\ conn[c].pc = "user left" /\ UNCHANGED <<count, total, active>>
      /\ release(User, a) /\ conn' = [conn EXCEPT ![c] = Out]
  BY DEF ReleaseUser, ConnAt
<1>2. a \in Addresses /\ User \in Scopes
  BY <1>1, Inside DEF ConnAt
<1>3. ~HoldsRule(c) /\ HoldsUser(c) /\ ~HoldsExit(c)
  BY <1>1 DEF HoldsRule, HoldsUser, HoldsExit
<1>4. Moves(c) /\ Placed(c)' /\ ~HoldsRule(c)' /\ ~HoldsUser(c)' /\ ~HoldsExit(c)'
  BY <1>1, Leaving
<1>5. Of(User, c) /\ ~Of(User, c)'
  BY <1>3, <1>4 DEF Of
<1>6. ScopeInv(User)'
  BY <1>1, <1>2, <1>4, <1>5, ScopeLeft
<1>7. usage' \in [Scopes -> Usages] /\ \A t \in Scopes \ {User} : usage'[t] = usage[t]
  BY <1>1, <1>2, <1>5, HolderCounted, GivenBack
<1> HIDE DEF RelayInv
<1> QED BY <1>1, <1>3, <1>4, <1>6, <1>7, UserFollows DEF ExitAsBefore

LEMMA GroupEntered ==
  ASSUME RelayTypes, NEW c \in Conns, UNCHANGED setup, NEW g \in GroupNames, EnterGroup(c, g)
  PROVE  Moves(c) /\ conn'[c].pc = "choosing" /\ conn'[c].rule = conn[c].rule /\ conn'[c].ip = conn[c].ip
<1> DEFINE todo == IF g = 0 THEN setup.targets ELSE orderedPeers(g)
           seen == conn[c].seen \cup {g}
           r == [conn[c] EXCEPT !.pc = "choosing", !.group = g, !.seen = seen, !.exit = 0, !.todo = todo]
<1>1. todo \subseteq Exits
  BY DEF Exits, Peers, PeersOf, orderedPeers, GroupNames, Groups
<1>2. seen \subseteq GroupNames
  BY ConnTypes
<1>3. conn' = [conn EXCEPT ![c] = r]
  BY DEF EnterGroup
<1> HIDE DEF todo, seen
<1>4. r \in ConnStates /\ r.pc = "choosing" /\ r.rule = conn[c].rule /\ r.ip = conn[c].ip
  BY <1>1, <1>2, ConnTypes DEF ConnStates, Places
<1> HIDE DEF r
<1> QED BY <1>3, <1>4, MovedTo

LEMMA EnteringGroup ==
  ASSUME RelayInv, NEW c \in Conns, UNCHANGED <<setup, usage, active, count, total>>,
         ConnAt(c, "admitted") \/ ConnAt(c, "choosing"), NEW g \in GroupNames, EnterGroup(c, g)
  PROVE  RelayInv'
<1> USE DEF RelayInv
<1>1. Moves(c) /\ conn'[c].pc = "choosing" /\ conn'[c].rule = conn[c].rule /\ conn'[c].ip = conn[c].ip
  BY GroupEntered
<1>2. /\ HoldsRule(c) /\ HoldsUser(c) /\ ~HoldsExit(c) /\ conn[c].rule \in Rules /\ conn[c].ip \in Addresses
  BY Inside DEF HoldsRule, HoldsUser, HoldsExit, ConnAt
<1>3. HoldsRule(c)' /\ HoldsUser(c)' /\ ~HoldsExit(c)'
  BY <1>1 DEF HoldsRule, HoldsUser, HoldsExit
<1>4. Placed(c)'
  BY <1>1, <1>2, <1>3, ScopesKept DEF Placed
<1> HIDE DEF RelayInv
<1> QED BY <1>1, <1>2, <1>3, <1>4, QuietStep DEF HeldAsBefore, ExitAsBefore

LEMMA NextGroupOf ==
  ASSUME RelayTypes, NEW c \in Conns
  PROVE  /\ conn[c].rule \in Rules => Route[conn[c].rule] \in GroupNames
         /\ Failover(c, conn[c].group) \in GroupNames
<1>1. conn[c].group \in GroupNames /\ \A g \in DOMAIN Groups : Groups[g].next \in GroupNames
  BY ConnTypes, SetupTypes DEF RelayTypes
<1>2. Route \in [Rules -> GroupNames]
  BY SetupTypes DEF RelayTypes
<1>3. Failover(c, conn[c].group) \in GroupNames
  <2>1. CASE conn[c].group = 0
    BY <2>1 DEF Failover, GroupNames
  <2>2. CASE conn[c].group # 0
    <3>1. Groups[conn[c].group].next \in GroupNames /\ 0 \in GroupNames
      BY <1>1, <2>2 DEF GroupNames
    <3> QED BY <3>1 DEF Failover
  <2> QED BY <2>1, <2>2
<1> QED BY <1>2, <1>3

\* An exit's counter follows c, and the others stay.
LEMMA ExitFollows ==
  ASSUME RelayInv, NEW c, Moves(c), Placed(c)', UNCHANGED <<usage, count, total>>, HeldAsBefore(c),
         NEW x \in Exits, active' \in [Exits -> Int], \A y \in Exits \ {x} : active'[y] = active[y],
         HoldsExit(c) => conn[c].exit = x, HoldsExit(c)' => conn'[c].exit = x,
         ExitInv(x)'
  PROVE  RelayInv'
<1>1. RelayTypes' /\ QuotaEnforced'
  BY TypesKept DEF RelayInv, RelayTypes
<1>2. ASSUME NEW y \in Exits \ {x} PROVE ExitInv(y)'
  BY ExitQuiet DEF RelayInv
<1>3. \A s \in Scopes : ScopeInv(s)'
  BY ScopesQuiet
<1> QED BY <1>1, <1>2, <1>3, StepKeeps DEF Moves

LEMMA ActiveTypes ==
  ASSUME RelayTypes, NEW x \in Exits
  PROVE  /\ active[x] \in Int
         /\ active' = [active EXCEPT ![x] = @ + 1] =>
              /\ active' \in [Exits -> Int] /\ active'[x] = active[x] + 1
              /\ \A y \in Exits \ {x} : active'[y] = active[y]
         /\ active' = [active EXCEPT ![x] = @ - 1] =>
              /\ active' \in [Exits -> Int] /\ active'[x] = active[x] - 1
              /\ \A y \in Exits \ {x} : active'[y] = active[y]
BY DEF RelayTypes

LEMMA TakingExit ==
  ASSUME RelayInv, NEW c \in Conns, UNCHANGED setup, UNCHANGED <<usage, count, total>>, ConnAt(c, "choosing"),
         NEW x \in Exits, NEW r \in ConnStates, conn' = [conn EXCEPT ![c] = r], active' = [active EXCEPT ![x] = @ + 1],
         r.pc \in {"dialling", "opened"}, r.exit = x, r.rule = conn[c].rule, r.ip = conn[c].ip,
         x \in Peers => (setup.maxConn[x] > 0 => active[x] < setup.maxConn[x])
  PROVE  RelayInv'
<1> USE DEF RelayInv
<1>1. /\ Moves(c) /\ conn'[c].pc \in {"dialling", "opened"} /\ conn'[c].exit = x
      /\ conn'[c].rule = conn[c].rule /\ conn'[c].ip = conn[c].ip
  BY MovedTo
<1>2. /\ HoldsRule(c) /\ HoldsUser(c) /\ ~HoldsExit(c) /\ conn[c].rule \in Rules /\ conn[c].ip \in Addresses
  BY Inside DEF HoldsRule, HoldsUser, HoldsExit, ConnAt
<1>3. HoldsRule(c)' /\ HoldsUser(c)' /\ HoldsExit(c)'
  BY <1>1 DEF HoldsRule, HoldsUser, HoldsExit
<1>4. Placed(c)'
  BY <1>1, <1>2, <1>3, ScopesKept DEF Placed
<1>5. /\ active' \in [Exits -> Int] /\ active'[x] = active[x] + 1
      /\ \A y \in Exits \ {x} : active'[y] = active[y]
  BY ActiveTypes
<1>6. ExitInv(x)'
  BY <1>1, <1>2, <1>3, <1>5, ExitTaken
<1> HIDE DEF RelayInv
<1> QED BY <1>1, <1>2, <1>3, <1>4, <1>5, <1>6, ExitFollows DEF HeldAsBefore

LEMMA LeavingExit ==
  ASSUME RelayInv, NEW c \in Conns, UNCHANGED setup, UNCHANGED <<usage, count, total>>,
         ConnAt(c, "dialling") \/ ConnAt(c, "release exit"), NEW x, x = conn[c].exit,
         active' = [active EXCEPT ![x] = @ - 1], Moves(c), conn'[c].pc \in {"choosing", "release user"},
         conn'[c].rule = conn[c].rule, conn'[c].ip = conn[c].ip
  PROVE  RelayInv'
<1> USE DEF RelayInv
<1>1. /\ HoldsRule(c) /\ HoldsUser(c) /\ HoldsExit(c) /\ conn[c].rule \in Rules /\ conn[c].ip \in Addresses
  BY Inside DEF HoldsRule, HoldsUser, HoldsExit, ConnAt
<1>2. x \in Exits
  BY <1>1 DEF RelayTypes, Placed
<1>3. HoldsRule(c)' /\ HoldsUser(c)' /\ ~HoldsExit(c)'
  BY DEF HoldsRule, HoldsUser, HoldsExit
<1>4. Placed(c)'
  BY <1>1, <1>3, ScopesKept DEF Placed, Moves
<1>5. /\ active' \in [Exits -> Int] /\ active'[x] = active[x] - 1
      /\ \A y \in Exits \ {x} : active'[y] = active[y]
  BY <1>2, ActiveTypes
<1>6. ExitInv(x)'
  BY <1>1, <1>2, <1>3, <1>5, ExitLeft
<1> HIDE DEF RelayInv
<1> QED BY <1>1, <1>2, <1>3, <1>4, <1>5, <1>6, ExitFollows DEF HeldAsBefore

LEMMA PassedOver ==
  ASSUME RelayInv, NEW c \in Conns, UNCHANGED <<setup, usage, active, count, total>>,
         NEW p, conn' = [conn EXCEPT ![c].todo = conn[c].todo \ {p}]
  PROVE  RelayInv'
<1> USE DEF RelayInv
<1> DEFINE todo == conn[c].todo \ {p}
           r == [conn[c] EXCEPT !.todo = todo]
<1>1. conn' = [conn EXCEPT ![c] = r]
  OBVIOUS
<1>2. todo \subseteq Exits
  BY ConnTypes
<1> HIDE DEF todo
<1>3. r \in ConnStates /\ r.pc = conn[c].pc /\ r.rule = conn[c].rule /\ r.ip = conn[c].ip /\ r.exit = conn[c].exit
  BY <1>2, ConnTypes DEF ConnStates
<1> HIDE DEF r
<1>4. /\ Moves(c) /\ conn'[c].pc = conn[c].pc /\ conn'[c].rule = conn[c].rule /\ conn'[c].ip = conn[c].ip
      /\ conn'[c].exit = conn[c].exit
  BY <1>1, <1>3, MovedTo
<1>5. (HoldsRule(c)' <=> HoldsRule(c)) /\ (HoldsUser(c)' <=> HoldsUser(c)) /\ (HoldsExit(c)' <=> HoldsExit(c))
  BY <1>4 DEF HoldsRule, HoldsUser, HoldsExit
<1>6. Placed(c)'
  BY <1>4, <1>5, ScopesKept DEF Placed, RelayTypes, ConnAt
<1> HIDE DEF RelayInv
<1> QED BY <1>4, <1>5, <1>6, QuietStep DEF HeldAsBefore, ExitAsBefore

LEMMA Reserving ==
  ASSUME RelayInv, NEW c \in Conns, NEW p \in Peers, reservePeer(c, p), UNCHANGED setup PROVE RelayInv'
<1>1. UNCHANGED <<usage, count, total>> /\ ConnAt(c, "choosing") /\ p \in Exits /\ RelayTypes
  BY DEF reservePeer, Exits, RelayInv
<1>2. CASE setup.maxConn[p] > 0 /\ active[p] >= setup.maxConn[p]
  <2>1. conn' = [conn EXCEPT ![c].todo = conn[c].todo \ {p}] /\ UNCHANGED active
    BY <1>2 DEF reservePeer
  <2> QED BY <1>1, <2>1, PassedOver
<1>3. CASE ~(setup.maxConn[p] > 0 /\ active[p] >= setup.maxConn[p])
  <2> DEFINE todo == conn[c].todo \ {p}
             r == [conn[c] EXCEPT !.pc = "dialling", !.exit = p, !.todo = todo]
  <2>1. conn' = [conn EXCEPT ![c] = r] /\ active' = [active EXCEPT ![p] = @ + 1]
    BY <1>3 DEF reservePeer
  <2>2. todo \subseteq Exits
    BY <1>1, ConnTypes
  <2> HIDE DEF todo
  <2>3. r \in ConnStates /\ r.pc = "dialling" /\ r.rule = conn[c].rule /\ r.ip = conn[c].ip /\ r.exit = p
    BY <1>1, <2>2, ConnTypes DEF ConnStates, Places
  <2>4. setup.maxConn[p] > 0 => active[p] < setup.maxConn[p]
    BY <1>1, <1>3, ActiveTypes, SetupTypes DEF RelayTypes
  <2> HIDE DEF r
  <2> QED BY <1>1, <2>1, <2>3, <2>4, TakingExit
<1> QED BY <1>2, <1>3

LEMMA Dialling ==
  ASSUME RelayInv, NEW c \in Conns, NEW ok \in BOOLEAN, DialPeer(c, ok), UNCHANGED setup PROVE RelayInv'
<1>1. UNCHANGED <<usage, count, total>> /\ ConnAt(c, "dialling") /\ RelayTypes
  BY DEF DialPeer, RelayInv
<1>2. CASE ok
  <2>1. Go(c, "opened") /\ UNCHANGED active
    BY <1>2 DEF DialPeer
  <2> QED BY <1>1, <2>1, StepWithin DEF Places
<1>3. CASE ~ok
  <2> DEFINE r == [conn[c] EXCEPT !.pc = "choosing", !.exit = 0]
  <2>1. conn' = [conn EXCEPT ![c] = r] /\ active' = [active EXCEPT ![conn[c].exit] = @ - 1]
    BY <1>3 DEF DialPeer
  <2>2. r \in ConnStates /\ r.pc = "choosing" /\ r.rule = conn[c].rule /\ r.ip = conn[c].ip
    BY <1>1, ConnTypes DEF ConnStates, Places
  <2> HIDE DEF r
  <2>3. Moves(c) /\ conn'[c].pc = "choosing" /\ conn'[c].rule = conn[c].rule /\ conn'[c].ip = conn[c].ip
    BY <1>1, <2>1, <2>2, MovedTo
  <2> QED BY <1>1, <2>1, <2>3, LeavingExit
<1> QED BY <1>2, <1>3

LEMMA DiallingTarget ==
  ASSUME RelayInv, NEW c \in Conns, NEW t \in setup.targets, NEW ok \in BOOLEAN, DialTarget(c, t, ok), UNCHANGED setup
  PROVE  RelayInv'
<1>1. UNCHANGED <<usage, count, total>> /\ ConnAt(c, "choosing") /\ RelayTypes /\ t \in Exits
  BY DEF DialTarget, RelayInv, Exits
<1>2. CASE ~ok
  <2>1. conn' = [conn EXCEPT ![c].todo = conn[c].todo \ {t}] /\ UNCHANGED active
    BY <1>2 DEF DialTarget
  <2> QED BY <1>1, <2>1, PassedOver
<1>3. CASE ok
  <2> DEFINE r == [conn[c] EXCEPT !.pc = "opened", !.exit = t]
  <2>1. conn' = [conn EXCEPT ![c] = r] /\ active' = [active EXCEPT ![t] = @ + 1]
    BY <1>3 DEF DialTarget
  <2>2. r \in ConnStates /\ r.pc = "opened" /\ r.rule = conn[c].rule /\ r.ip = conn[c].ip /\ r.exit = t
    BY <1>1, ConnTypes DEF ConnStates, Places
  <2>3. t \notin Peers
    BY <1>1, SetupTypes DEF RelayTypes
  <2> HIDE DEF r
  <2> QED BY <1>1, <2>1, <2>2, <2>3, TakingExit
<1> QED BY <1>2, <1>3

LEMMA GivingBackExit ==
  ASSUME RelayInv, NEW c \in Conns, ReleaseExit(c), UNCHANGED setup PROVE RelayInv'
<1>1. /\ UNCHANGED <<usage, count, total>> /\ ConnAt(c, "release exit") /\ RelayTypes
      /\ Go(c, "release user") /\ active' = [active EXCEPT ![conn[c].exit] = @ - 1]
  BY DEF ReleaseExit, RelayInv
<1>2. Moves(c) /\ conn'[c].pc = "release user" /\ conn'[c].rule = conn[c].rule /\ conn'[c].ip = conn[c].ip
  BY <1>1, Went DEF Places
<1> QED BY <1>1, <1>2, LeavingExit

\* The connections are left alone.
LEMMA ConnsLeft ==
  ASSUME RelayInv, UNCHANGED <<setup, conn, active>>, RelayTypes', QuotaEnforced', usage' = usage
  PROVE  RelayInv'
<1>1. \A c \in Conns : \A s : (Of(s, c)' <=> Of(s, c)) /\ (HoldsExit(c)' <=> HoldsExit(c))
  BY DEF Of, HoldsRule, HoldsUser, HoldsExit
<1>2. \A s \in Scopes : ScopeInv(s)'
  <2> SUFFICES ASSUME NEW s \in Scopes PROVE ScopeInv(s)'
    OBVIOUS
  <2>1. Holders(s)' = Holders(s) /\ \A a : HoldersAt(s, a)' = HoldersAt(s, a)
    BY <1>1 DEF Holders, HoldersAt
  <2>2. Known(usage[s])' = Known(usage[s])
    BY ScopesKept DEF Known
  <2> QED BY <2>1, <2>2, ScopesKept DEF ScopeInv, RelayInv
<1>3. \A x \in Exits : ExitInv(x)'
  <2> SUFFICES ASSUME NEW x \in Exits PROVE ExitInv(x)'
    OBVIOUS
  <2>1. Users(x)' = Users(x)
    BY <1>1 DEF Users
  <2> QED BY <2>1, ScopesKept DEF ExitInv, RelayInv
<1> QED BY <1>2, <1>3, StepKeeps

LEMMA TypesLeft ==
  ASSUME RelayTypes, UNCHANGED <<setup, conn, usage, active>>,
         count' \in [bytes : Nat, reported : Nat, own : Nat], total' \in Nat
  PROVE  RelayTypes'
<1>1. \A c \in Conns : Placed(c)'
  <2> SUFFICES ASSUME NEW c \in Conns PROVE Placed(c)'
    OBVIOUS
  <2>1. Placed(c) /\ (HoldsExit(c)' <=> HoldsExit(c)) /\ (ConnAt(c, "out")' <=> ConnAt(c, "out"))
    BY DEF RelayTypes, HoldsExit, ConnAt
  <2> QED BY <2>1, ScopesKept DEF Placed
<1> QED BY <1>1, ScopesKept DEF RelayTypes

---------------------------------------------------------------------------
\* Traffic and time.

LEMMA QuotaTypes ==
  ASSUME RelayTypes
  PROVE  /\ Quota \in Nat /\ count.bytes \in Nat /\ count.reported \in Nat /\ count.own \in Nat /\ total \in Nat
         /\ count = [bytes |-> count.bytes, reported |-> count.reported, own |-> count.own]
BY SetupTypes DEF RelayTypes

LEMMA Relaying == ASSUME RelayInv, NEW c \in Conns, NEW n \in {1, 2}, Relay(c, n), UNCHANGED setup PROVE RelayInv'
<1> USE DEF RelayInv
<1> DEFINE over == Exhausted \/ (Quota > 0 /\ n > Quota - count.reported - count.bytes)
<1>1. ConnAt(c, "relaying") /\ UNCHANGED <<usage, total, active>>
  BY DEF Relay
<1>2. CASE over
  <2>1. Go(c, "release exit") /\ UNCHANGED count
    BY <1>2 DEF Relay
  <2> HIDE DEF RelayInv
  <2> QED BY <1>1, <2>1, StepWithin DEF Places
<1>3. CASE ~over
  <2>1. UNCHANGED conn /\ count' = [bytes |-> count.bytes + n, reported |-> count.reported, own |-> count.own + n]
    BY <1>3, QuotaTypes DEF Relay, RelayTypes
  <2>2. count' \in [bytes : Nat, reported : Nat, own : Nat]
    BY <2>1, QuotaTypes
  <2>3. RelayTypes'
    BY <1>1, <2>1, <2>2, QuotaTypes, TypesLeft
  <2>4. Quota > 0 => n <= Quota - count.reported - count.bytes
    BY <1>3, QuotaTypes
  <2>5. QuotaEnforced'
    BY <2>1, <2>4, QuotaTypes, ScopesKept DEF QuotaEnforced
  <2> HIDE DEF RelayInv
  <2> QED BY <1>1, <2>1, <2>3, <2>5, ConnsLeft
<1> QED BY <1>2, <1>3

\* What is kept of the bytes counted here makes up for what the panel does not know.
LEMMA Synchronising == ASSUME RelayInv, syncUsed, UNCHANGED setup PROVE RelayInv'
<1> USE DEF RelayInv
<1> DEFINE left == Max({0, count.bytes - (total - count.reported)})
<1>1. UNCHANGED <<conn, usage, total, active>>
  BY DEF syncUsed
<1>2. CASE total < count.reported
  <2>1. count' = [bytes |-> 0, reported |-> total, own |-> 0]
    BY <1>2 DEF syncUsed
  <2>2. RelayTypes' /\ QuotaEnforced'
    <3>1. count' \in [bytes : Nat, reported : Nat, own : Nat]
      BY <2>1, QuotaTypes
    <3> QED BY <1>1, <2>1, <3>1, QuotaTypes, ScopesKept, TypesLeft DEF QuotaEnforced
  <2> HIDE DEF RelayInv
  <2> QED BY <1>1, <2>2, ConnsLeft
<1>3. CASE total >= count.reported
  <2>1. left \in Nat /\ left >= count.bytes - (total - count.reported)
    <3> DEFINE d == count.bytes - (total - count.reported)
    <3>1. d \in Int
      BY QuotaTypes
    <3> HIDE DEF d
    <3>2. \E x \in {0, d} : \A y \in {0, d} : x >= y
      BY <3>1
    <3>3. Max({0, d}) \in {0, d} /\ \A y \in {0, d} : Max({0, d}) >= y
      BY <3>2 DEF Max
    <3> QED BY <3>1, <3>3 DEF d
  <2>2. count' = [bytes |-> left, reported |-> total, own |-> count.own]
    <3>1. count' = [count EXCEPT !.bytes = left, !.reported = total]
      BY <1>3, QuotaTypes DEF syncUsed
    <3> HIDE DEF left
    <3> QED BY <3>1, QuotaTypes DEF RelayTypes
  <2> HIDE DEF left
  <2>3. count' \in [bytes : Nat, reported : Nat, own : Nat]
    BY <2>1, <2>2, QuotaTypes
  <2>4. RelayTypes'
    BY <1>1, <2>3, QuotaTypes, TypesLeft
  <2>5. QuotaEnforced'
    BY <2>1, <2>2, QuotaTypes, ScopesKept DEF QuotaEnforced
  <2> HIDE DEF RelayInv
  <2> QED BY <1>1, <2>4, <2>5, ConnsLeft
<1> QED BY <1>2, <1>3, QuotaTypes

LEMMA OthersRun ==
  ASSUME RelayInv, UNCHANGED <<setup, conn, usage, count, active>>, total' \in Nat
  PROVE  RelayInv'
<1>1. RelayTypes' /\ QuotaEnforced'
  BY TypesLeft, ScopesKept DEF RelayInv, RelayTypes, QuotaEnforced
<1> QED BY <1>1, ConnsLeft

LEMMA SeenChanged ==
  ASSUME NEW u \in Usages, NEW seen
  PROVE  [u EXCEPT !.seen = seen] = [n |-> u.n, act |-> u.act, seen |-> seen]
<1>1. u = [n |-> u.n, seen |-> u.seen, act |-> u.act]
  BY DEF Usages
<1> QED BY <1>1

\* An address that grows old was known, and stays so where it is in use.
LEMMA Ageing ==
  ASSUME RelayInv, NEW s \in Scopes, NEW a \in Addresses, Age(s, a), UNCHANGED setup PROVE RelayInv'
<1> USE DEF RelayInv
<1> DEFINE u == usage[s]
           seen == [u.seen EXCEPT ![a] = "long ago"]
           v == [n |-> u.n, act |-> u.act, seen |-> seen]
<1>1. UNCHANGED <<conn, count, total, active>> /\ usage[s].seen[a] = "now"
  BY DEF Age
<1>2. usage' = [usage EXCEPT ![s] = v]
  <2>1. usage' = [usage EXCEPT ![s].seen = [@ EXCEPT ![a] = "long ago"]]
    BY DEF Age
  <2>2. usage' = [usage EXCEPT ![s] = [usage[s] EXCEPT !.seen = seen]]
    BY <2>1
  <2>3. [usage[s] EXCEPT !.seen = seen] = v
    <3>1. usage[s] \in Usages
      BY UsageTypes
    <3> HIDE DEF seen
    <3> QED BY <3>1, SeenChanged
  <2> QED BY <2>2, <2>3
<1>3. /\ seen \in [Addresses -> {"no", "now", "long ago"}]
      /\ \A x \in Addresses : seen[x] = IF x = a THEN "long ago" ELSE u.seen[x]
  BY UsageTypes, Zenon
<1> HIDE DEF seen
<1>4. v \in Usages
  <2>1. u.n \in Nat /\ u.act \in [Addresses -> Nat]
    BY UsageTypes
  <2> HIDE DEF u
  <2>2. v \in [n : Nat, act : [Addresses -> Nat], seen : [Addresses -> {"no", "now", "long ago"}]]
    BY <1>3, <2>1
  <2> QED BY <2>2 DEF Usages
<1>5. /\ usage' \in [Scopes -> Usages] /\ \A t \in Scopes \ {s} : usage'[t] = usage[t]
      /\ usage'[s].n = usage[s].n /\ usage'[s].act = usage[s].act
      /\ \A x \in Addresses : usage'[s].seen[x] = IF x = a THEN "long ago" ELSE usage[s].seen[x]
  BY <1>2, <1>3, <1>4 DEF RelayTypes
<1> HIDE DEF v, u
<1>6. \A c \in Conns : (\A t : (Of(t, c)' <=> Of(t, c))) /\ (HoldsExit(c)' <=> HoldsExit(c)) /\ (Placed(c) => Placed(c)')
  BY <1>1, ScopesKept DEF Of, HoldsRule, HoldsUser, HoldsExit, Placed, ConnAt
<1>7. RelayTypes'
  BY <1>1, <1>5, <1>6, ScopesKept DEF RelayTypes
<1>8. QuotaEnforced'
  BY <1>1, ScopesKept DEF QuotaEnforced
<1>9. \A t \in Scopes : Holders(t)' = Holders(t) /\ \A x : HoldersAt(t, x)' = HoldersAt(t, x)
  BY <1>1, <1>6 DEF Holders, HoldersAt
<1>10. ASSUME NEW t \in Scopes \ {s} PROVE ScopeInv(t)'
  <2>1. Known(usage[t])' = Known(usage[t])
    BY <1>5, ScopesKept DEF Known
  <2>2. Holders(t)' = Holders(t) /\ (\A x : HoldersAt(t, x)' = HoldersAt(t, x)) /\ usage'[t] = usage[t]
    BY <1>5, <1>9
  <2>3. Limits' = Limits /\ Addresses' = Addresses
    BY ScopesKept
  <2>4. ScopeInv(t)
    OBVIOUS
  <2> HIDE DEF RelayInv
  <2> QED BY <2>1, <2>2, <2>3, <2>4 DEF ScopeInv
<1>11. ScopeInv(s)'
  <2>1. Known(usage[s])' \subseteq Known(usage[s])
    BY <1>1, <1>5, ScopesKept DEF Known
  <2>2. IsFiniteSet(Known(usage[s])) /\ Limits[s].ips \in Nat
    BY SetupTypes, UsageTypes, FS_Subset DEF RelayTypes
  <2>3. Cardinality(Known(usage[s])') \in Nat /\ Cardinality(Known(usage[s])) \in Nat
        /\ Cardinality(Known(usage[s])') <= Cardinality(Known(usage[s]))
    BY <2>1, <2>2, FS_Subset, FS_CardinalityType
  <2>4. Limits[s].ips > 0 => Cardinality(Known(usage[s])') <= Limits[s].ips
    BY <2>2, <2>3 DEF ScopeInv
  <2>5. ScopeInv(s) /\ Limits' = Limits /\ Addresses' = Addresses
    BY ScopesKept
  <2>6. /\ Holders(s)' = Holders(s) /\ (\A x : HoldersAt(s, x)' = HoldersAt(s, x))
        /\ usage'[s].n = usage[s].n /\ usage'[s].act = usage[s].act
    BY <1>5, <1>9
  <2>7. \A x \in Addresses : usage'[s].act[x] > 0 => usage'[s].seen[x] # "no"
    <3> TAKE x \in Addresses
    <3>1. usage[s].act[x] > 0 => usage[s].seen[x] # "no"
      BY <2>5 DEF ScopeInv
    <3> QED BY <1>5, <2>6, <3>1
  <2>8. /\ usage'[s].n = Cardinality(Holders(s))'
        /\ \A x \in Addresses : usage'[s].act[x] = Cardinality(HoldersAt(s, x))'
        /\ Limits[s].conns > 0 => usage'[s].n <= Limits[s].conns
    BY <2>5, <2>6 DEF ScopeInv
  <2> HIDE DEF RelayInv
  <2> QED BY <2>4, <2>5, <2>7, <2>8 DEF ScopeInv
<1>12. \A x \in Exits : ExitInv(x)'
  <2>1. \A x \in Exits : Users(x)' = Users(x)
    BY <1>1, <1>6 DEF Users
  <2> QED BY <1>1, <2>1, ScopesKept DEF ExitInv
<1> QED BY <1>7, <1>8, <1>10, <1>11, <1>12, StepKeeps

LEMMA RelayStepKeeps == RelayInv /\ [NextRelay]_relayVars => RelayInv'
<1>1. ASSUME RelayInv, UNCHANGED relayVars PROVE RelayInv'
  BY <1>1, OthersRun DEF relayVars, RelayInv, RelayTypes
<1>2. ASSUME RelayInv, RelayStep, UNCHANGED setup PROVE RelayInv'
  <2> USE <1>2
  <2>1. ASSUME NEW c \in Conns, ConnStep(c) PROVE RelayInv'
    <3>0. RelayTypes /\ (~ConnAt(c, "out") => conn[c].rule \in Rules)
      BY DEF RelayInv, RelayTypes, Placed
    <3>1. CASE CheckQuota(c)
      BY <3>1, StepWithin DEF CheckQuota, Places
    <3>2. CASE OpenRoute(c)
      BY <3>0, <3>2, EnteringGroup, NextGroupOf DEF OpenRoute, ConnAt
    <3>3. CASE NextGroup(c)
      BY <3>0, <3>3, EnteringGroup, NextGroupOf, StepWithin DEF NextGroup, Places
    <3>4. CASE Track(c)
      BY <3>4, StepWithin DEF Track, Places
    <3>5. CASE ReleaseBoth(c) \/ ReleaseRule(c)
      BY <3>5, LeavingRule DEF ReleaseBoth, ReleaseRule, LeavesRule
    <3> QED BY <2>1, <3>1, <3>2, <3>3, <3>4, <3>5, AdmittingRule, AdmittingUser, LeavingUser, Reserving, Dialling,
               DiallingTarget, GivingBackExit DEF ConnStep
  <2>2. ASSUME NEW c \in Conns, StopRelay(c) PROVE RelayInv'
    BY <2>2, StepWithin DEF StopRelay, Places
  <2>3. ASSUME ResetTraffic \/ \E n \in {1, 2} : PanelCounts(n) PROVE RelayInv'
    <3>1. total' \in Nat /\ UNCHANGED <<conn, usage, count, active>>
      BY <2>3 DEF ResetTraffic, PanelCounts, RelayInv, RelayTypes
    <3> QED BY <3>1, OthersRun
  <2>4. ASSUME (\E g, p, ok : Probe(g, p, ok)) \/ (\E x : RetryTime(x)) \/ \E r : CloseForwarder(r) PROVE RelayInv'
    <3>1. total' \in Nat /\ UNCHANGED <<conn, usage, count, active>>
      BY <2>4 DEF Probe, RetryTime, CloseForwarder, RelayInv, RelayTypes
    <3> QED BY <3>1, OthersRun
  <2>5. ASSUME NEW s \in DOMAIN usage, NEW a \in Addresses, Age(s, a) PROVE RelayInv'
    BY <2>5, Ageing DEF RelayInv, RelayTypes
  <2> QED BY <2>1, <2>2, <2>3, <2>4, <2>5, Accepting, Relaying, Synchronising DEF RelayStep
<1> QED BY <1>1, <1>2 DEF NextRelay

\* Counters, limits and quota hold together, for any rules, exits, limits, quota and
\* connections, however they interleave.
THEOREM LimitsAreRespected == RelaySpec => []LimitsRespected
<1>1. RelayInv => Balanced
  BY DEF RelayInv, ScopeInv, ExitInv, Balanced, Holders, HoldersAt, Users, Scopes
<1>2. RelayInv => LimitsHold
  <2> SUFFICES ASSUME RelayInv PROVE LimitsHold
    OBVIOUS
  <2> USE DEF RelayInv
  <2>1. ASSUME NEW s \in Rules \cup {User}, Limits[s].conns > 0
        PROVE  Cardinality({c \in Conns : Of(s, c)}) <= Limits[s].conns
    BY <2>1 DEF ScopeInv, Holders, Scopes
  <2>2. ASSUME NEW s \in Rules \cup {User}, Limits[s].ips > 0
        PROVE  Cardinality({conn[c].ip : c \in {x \in Conns : Of(s, x)}}) <= Limits[s].ips
    <3> DEFINE ips == {conn[c].ip : c \in {x \in Conns : Of(s, x)}}
    <3>1. s \in Scopes
      BY DEF Scopes
    <3>2. ASSUME NEW c \in Conns, Of(s, c) PROVE conn[c].ip \in Known(usage[s])
      <4>1. conn[c].ip \in Addresses
        BY <3>2, HeldAt, Inside DEF Of, HoldsUser, ConnAt
      <4>2. usage[s].act[conn[c].ip] > 0
        BY <3>1, <3>2, <4>1, HolderCounted
      <4>3. usage[s].seen[conn[c].ip] \in {"now", "long ago"}
        BY <3>1, <4>1, <4>2, UsageTypes DEF ScopeInv
      <4> QED BY <4>1, <4>2, <4>3 DEF Known
    <3>3. ips \subseteq Known(usage[s])
      BY <3>2
    <3>4. IsFiniteSet(Known(usage[s])) /\ Limits[s].ips \in Nat
      BY <3>1, SetupTypes, UsageTypes, FS_Subset DEF RelayTypes
    <3> HIDE DEF ips
    <3>5. Cardinality(ips) <= Cardinality(Known(usage[s])) /\ Cardinality(ips) \in Nat
          /\ Cardinality(Known(usage[s])) \in Nat
      BY <3>3, <3>4, FS_Subset, FS_CardinalityType
    <3>6. Cardinality(ips) <= Limits[s].ips
      BY <2>2, <3>1, <3>4, <3>5 DEF ScopeInv
    <3> QED BY <3>6 DEF ips
  <2>3. ASSUME NEW p \in Peers, setup.maxConn[p] > 0
        PROVE  Cardinality({c \in Conns : HoldsExit(c) /\ conn[c].exit = p}) <= setup.maxConn[p]
    BY <2>3 DEF ExitInv, Users, Exits
  <2> QED BY <2>1, <2>2, <2>3 DEF LimitsHold
<1>3. RelayInv => QuotaEnforced
  BY DEF RelayInv
<1> QED BY <1>1, <1>2, <1>3, RelayInit, RelayStepKeeps, PTL DEF RelaySpec, LimitsRespected

=============================================================================
