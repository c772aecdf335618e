---------------------------- MODULE NodeEngine ----------------------------
(***************************************************************************)
(* The forwarding engine of a node (nodeclient/engine.go, and the gateways *)
(* of tunnel.go): Apply installs a configuration as a transaction over     *)
(* sockets.  Rules are taken in order of identifier; a changed rule stops  *)
(* listening before its successor starts; then come the gateways; a        *)
(* failure closes what was opened and starts again what was stopped.  The  *)
(* engine's lock keeps two Apply apart, but not the rest of the machine:   *)
(* other programs bind ports, and clients connect, between its steps.      *)
(*                                                                         *)
(* A rule is [on, ok, want, sub]: enabled, acceptable to validateNodeRule, the *)
(* ports it listens on (none: a random one), and whether it is a sub-rule, *)
(* which listens through its main rule.  A configuration is [full,         *)
(* disabled, rules, removed, gates, cert].                                 *)
(***************************************************************************)
EXTENDS Naturals, FiniteSets, Sequences

CONSTANTS
  Ports,      \* TCP ports; UDP goes along
  Configs,    \* configurations the panel may send
  MaxGen,      \* bound: no Apply begins after so many forwarders were made
  MaxOutside  \* bound: ports other programs take

ASSUME EngineBounds == Ports \subseteq Nat \ {0} /\ MaxGen \in Nat /\ MaxOutside \in Nat
GatewayKinds == {"direct", "tls", "ws", "reverse"}
ASSUME ConfigsAssumption ==
  \A cfg \in Configs :
    /\ \A id \in DOMAIN cfg.rules : cfg.rules[id].want \subseteq Ports
    /\ DOMAIN cfg.gates \subseteq GatewayKinds /\ \A k \in DOMAIN cfg.gates : cfg.gates[k] \in Ports

VARIABLES
  holder,    \* who has bound each port
  run,       \* e.rules: [rule id -> forwarder]
  gates,     \* e.gateways: [kind -> port]
  effective, \* e.effective: the configuration in force
  apply,     \* the Apply in progress
  results,   \* what the last Apply reported, and why it failed
  closed,    \* e.closed
  streams,   \* forwarders with a client's stream
  gen,       \* forwarders made so far, each with a number
  taken,     \* bound: ports taken by other programs
  stolen     \* history: one of them was taken during an Apply

engineVars == <<holder, run, gates, effective, apply, results, closed, streams, gen, taken, stolen>>

Free == <<"free">>
Other == <<"other program">>
Rule(n) == <<"rule", n>>
Gate(kind) == <<"gateway", kind>>
NoApply == [phase |-> "none"]
Held(owner) == {p \in Ports : holder[p] = owner}
Give(h, ports, owner) == [p \in Ports |-> IF p \in ports THEN owner ELSE h[p]]
Let(h, owners) == [p \in Ports |-> IF h[p] \in owners THEN Free ELSE h[p]]
Listens(f) == f.rule.on /\ ~f.rule.sub
With(f, id, value) == [x \in DOMAIN f \cup {id} |-> IF x = id THEN value ELSE f[x]]

InitEngine ==
  /\ holder = [p \in Ports |-> Free]
  /\ run = <<>> /\ gates = <<>>
  /\ effective = [rules |-> <<>>, gates |-> <<>>]
  /\ apply = NoApply
  /\ results = [status |-> "none", why |-> "none"]
  /\ closed = FALSE
  /\ streams = {} /\ gen = 0
  /\ taken = 0 /\ stolen = FALSE

---------------------------------------------------------------------------
\* Apply.  A partial configuration is merged into the one in force.

Merged(cfg) ==
  IF cfg.full THEN [rules |-> cfg.rules, gates |-> cfg.gates]
  ELSE [rules |-> [id \in DOMAIN cfg.rules \cup (DOMAIN effective.rules \ cfg.removed) |->
                    IF id \in DOMAIN cfg.rules THEN cfg.rules[id] ELSE effective.rules[id]],
        gates |-> IF cfg.gates = <<>> THEN effective.gates ELSE cfg.gates]
validateNodeRule(r) == r.on => r.ok
Failed(why) == [status |-> "failed", why |-> why]
Normal == [status |-> "normal", why |-> "none"]

\* Nothing is touched before the whole set is validated.
Begin(cfg) ==
  /\ apply = NoApply /\ ~closed /\ ~cfg.disabled /\ gen < MaxGen
  /\ LET new == Merged(cfg) IN
     IF \E id \in DOMAIN new.rules : ~validateNodeRule(new.rules[id])
     THEN results' = Failed("invalid") /\ UNCHANGED apply
     ELSE /\ apply' = [phase |-> "listen", new |-> new, cert |-> cfg.cert,
                       todo |-> {id \in DOMAIN new.rules : new.rules[id].on},
                       next |-> <<>>, created |-> {}, paused |-> <<>>, was |-> holder]
          /\ results' = [status |-> "none", why |-> "none"]
  /\ UNCHANGED <<holder, run, gates, effective, closed, streams, gen, taken, stolen>>

\* The node is disabled: everything stops.
Disable(cfg) ==
  /\ apply = NoApply /\ ~closed /\ cfg.disabled
  /\ holder' = Let(holder, {Rule(run[id].gen) : id \in DOMAIN run}
                             \cup {Gate(k) : k \in DOMAIN gates})
  /\ streams' = streams \ {run[id].gen : id \in DOMAIN run}
  /\ run' = <<>> /\ gates' = <<>>
  /\ effective' = [rules |-> <<>>, gates |-> cfg.gates]
  /\ results' = Normal
  /\ UNCHANGED <<apply, closed, gen, taken, stolen>>

Refuse ==
  /\ apply = NoApply /\ closed
  /\ results' = Failed("closed")
  /\ UNCHANGED <<holder, run, gates, effective, apply, closed, streams, gen, taken, stolen>>

\* startListeners: the ports the rule wants, or the one it had, or any.
WantedPorts(f, h) ==
  IF ~Listens(f) THEN {{}}
  ELSE IF f.rule.want # {} THEN {f.rule.want}
  ELSE IF f.ports # {} THEN {f.ports} ELSE {{p} : p \in {q \in Ports : h[q] = Free}}
Opened(h, ports) == {p \in ports : \A q \in ports : q <= p => h[q] = Free}

Stopped(id) == IF id \in DOMAIN run THEN Let(holder, {Rule(run[id].gen)}) ELSE holder
Paused(id) == IF id \in DOMAIN run THEN Append(apply.paused, id) ELSE apply.paused
NewForwarder(id) == [gen |-> gen + 1, rule |-> apply.new.rules[id], ports |-> {}]
Same(id) == id \in DOMAIN run /\ run[id].rule = apply.new.rules[id]
KeepRule(id) ==
  /\ Same(id)
  /\ apply' = [apply EXCEPT !.todo = @ \ {id}, !.next = With(@, id, run[id])]
  /\ UNCHANGED <<holder, gen>>
ListenOn(id, ports) ==
  /\ ~Same(id) /\ gen' = gen + 1
  /\ \A p \in ports : Stopped(id)[p] = Free
  /\ holder' = Give(Stopped(id), ports, Rule(gen + 1))
  /\ apply' = [apply EXCEPT !.todo = @ \ {id}, !.paused = Paused(id),
                 !.next = With(@, id, [NewForwarder(id) EXCEPT !.ports = ports]),
                 !.created = @ \cup {gen + 1}]
CannotListen(id) ==
  /\ ~Same(id) /\ gen' = gen + 1
  /\ \A ports \in WantedPorts(NewForwarder(id), Stopped(id)) :
       \E p \in ports : Stopped(id)[p] # Free
  /\ holder' = Stopped(id)
  /\ apply' = [apply EXCEPT !.phase = "undo", !.paused = Paused(id)]
ListenNext ==
  /\ apply.phase = "listen"
  /\ \E id \in apply.todo :
       /\ \A x \in apply.todo : id <= x
       /\ \/ KeepRule(id) \/ CannotListen(id)
          \/ \E ports \in WantedPorts(NewForwarder(id), Stopped(id)) : ListenOn(id, ports)
  /\ UNCHANGED <<run, gates, effective, results, closed, streams, taken, stolen>>

\* configureGateways: those wanted and not there are opened, the others closed.
OpenGates(h, wants) ==
  [p \in Ports |-> IF \E k \in DOMAIN wants : wants[k] = p /\ (k \notin DOMAIN gates \/ gates[k] # p)
                   THEN Gate(CHOOSE k \in DOMAIN wants : wants[k] = p) ELSE h[p]]
configureGateways(wants) ==
  /\ "tls" \in DOMAIN wants => apply.cert
  /\ \A k, l \in DOMAIN wants : wants[k] = wants[l] => k = l
  /\ \A k \in DOMAIN wants : holder[wants[k]] = Free \/ (k \in DOMAIN gates /\ gates[k] = wants[k])

Commit ==
  LET wants == apply.new.gates
      ended == {run[id].gen : id \in {x \in DOMAIN run :
                   ~(x \in DOMAIN apply.next /\ apply.next[x] = run[x])}}
      moved == {p \in Ports : \E k \in DOMAIN gates :
                   gates[k] = p /\ ~(k \in DOMAIN wants /\ wants[k] = p)} IN
  /\ apply.phase = "listen" /\ apply.todo = {}
  /\ configureGateways(wants)
  /\ holder' = Let(OpenGates(Give(holder, moved, Free), wants), {Rule(n) : n \in ended})
  /\ gates' = wants
  /\ run' = apply.next
  /\ streams' = streams \ ended
  /\ effective' = apply.new
  /\ apply' = NoApply
  /\ results' = Normal
  /\ UNCHANGED <<closed, gen, taken, stolen>>

GatesFail ==
  /\ apply.phase = "listen" /\ apply.todo = {}
  /\ ~configureGateways(apply.new.gates)
  /\ apply' = [apply EXCEPT !.phase = "undo"]
  /\ UNCHANGED <<holder, run, gates, effective, results, closed, streams, gen, taken, stolen>>

\* rollback: first what was opened is closed ...
CloseCreated ==
  /\ apply.phase = "undo"
  /\ holder' = Let(holder, {Rule(n) : n \in apply.created})
  /\ streams' = streams \ apply.created
  /\ apply' = [apply EXCEPT !.phase = "restore"]
  /\ UNCHANGED <<run, gates, effective, results, closed, gen, taken, stolen>>

\* Mutant: starting again cuts the streams.
Restart_Cuts ==
  LET f == run[Head(apply.paused)] IN
  /\ apply.phase = "restore" /\ apply.paused # <<>>
  /\ \E ports \in WantedPorts(f, holder) :
       /\ \A p \in ports : holder[p] = Free
       /\ holder' = Give(holder, ports, Rule(f.gen))
       /\ run' = [run EXCEPT ![Head(apply.paused)].ports = ports]
  /\ streams' = streams \ {f.gen}
  /\ apply' = [apply EXCEPT !.paused = Tail(@)]
  /\ UNCHANGED <<gates, effective, results, closed, gen, taken, stolen>>
\* ... then what was stopped starts again, on the ports it had; one that
\* cannot stays in e.rules, keeping the ports it opened before the failure.
Restart ==
  LET id == Head(apply.paused)
      f  == run[id] IN
  /\ apply.phase = "restore" /\ apply.paused # <<>>
  /\ \/ \E ports \in WantedPorts(f, holder) :
          /\ \A p \in ports : holder[p] = Free
          /\ holder' = Give(holder, ports, Rule(f.gen))
          /\ run' = [run EXCEPT ![id].ports = ports]
     \/ \E ports \in WantedPorts(f, holder) \cup {f.ports} :
          /\ \A free \in WantedPorts(f, holder) : \E p \in free : holder[p] # Free
          /\ run' = [run EXCEPT ![id].ports = Opened(holder, ports)]
          /\ UNCHANGED holder
  /\ apply' = [apply EXCEPT !.paused = Tail(@)]
  /\ UNCHANGED <<gates, effective, results, closed, streams, gen, taken, stolen>>

GiveUp ==
  /\ apply.phase = "restore" /\ apply.paused = <<>>
  /\ results' = Failed("bind")
  /\ apply' = NoApply
  /\ UNCHANGED <<holder, run, gates, effective, closed, streams, gen, taken, stolen>>

\* Engine.Close
CloseEngine ==
  /\ apply = NoApply /\ ~closed
  /\ closed' = TRUE
  /\ holder' = Let(holder, {Rule(run[id].gen) : id \in DOMAIN run}
                             \cup {Gate(k) : k \in DOMAIN gates})
  /\ streams' = streams \ {run[id].gen : id \in DOMAIN run}
  /\ run' = <<>> /\ gates' = <<>>
  /\ UNCHANGED <<effective, apply, results, gen, taken, stolen>>

---------------------------------------------------------------------------
\* The rest of the machine.

TakePort(p) ==
  /\ taken < MaxOutside /\ taken' = taken + 1
  /\ holder[p] = Free
  /\ holder' = [holder EXCEPT ![p] = Other]
  /\ stolen' = (stolen \/ apply # NoApply)
  /\ UNCHANGED <<run, gates, effective, apply, results, closed, streams, gen>>

LeavePort(p) ==
  /\ holder[p] = Other
  /\ holder' = [holder EXCEPT ![p] = Free]
  /\ UNCHANGED <<run, gates, effective, apply, results, closed, streams, gen, taken, stolen>>

\* serveTCP: a client connects to a port and its forwarder tracks the stream.
Connect(n) ==
  /\ Held(Rule(n)) # {} /\ n \notin streams
  /\ streams' = streams \cup {n}
  /\ UNCHANGED <<holder, run, gates, effective, apply, results, closed, gen, taken, stolen>>

Hangup(n) ==
  /\ n \in streams
  /\ streams' = streams \ {n}
  /\ UNCHANGED <<holder, run, gates, effective, apply, results, closed, gen, taken, stolen>>

---------------------------------------------------------------------------
ApplyStep ==
  \/ \E cfg \in Configs : Begin(cfg) \/ Disable(cfg)
  \/ Refuse \/ ListenNext \/ Commit \/ GatesFail \/ CloseCreated \/ Restart \/ GiveUp
  \/ CloseEngine
Outside ==
  \/ \E p \in Ports : TakePort(p) \/ LeavePort(p)
  \/ \E n \in 1..gen : Connect(n) \/ Hangup(n)
NextEngine == ApplyStep \/ Outside

EngineSpec == InitEngine /\ [][NextEngine]_engineVars

---------------------------------------------------------------------------
\* Properties

Forwarders == {run[id].gen : id \in DOMAIN run}
\* A socket belongs to a forwarder or a gateway there has been, and streams to
\* forwarders.
TypeEngine ==
  /\ \A p \in Ports : holder[p] \in {Free, Other} \cup {Rule(n) : n \in 1..gen}
                                 \cup {Gate(k) : k \in GatewayKinds}
  /\ \A id \in DOMAIN run : run[id].gen \in 1..gen /\ run[id].ports \subseteq Ports
  /\ streams \subseteq 1..gen

\* Between two Apply, whatever the last one came to, the sockets are exactly
\* those of the rules and gateways in force: nothing is left over from a
\* configuration that was refused half way, and unless another program took
\* a port meanwhile nothing that was stopped for it stays stopped.
SocketsMatch ==
  apply = NoApply =>
    /\ \A p \in Ports :
         \/ holder[p] \in {Free, Other}
         \/ \E id \in DOMAIN run : holder[p] = Rule(run[id].gen) /\ p \in run[id].ports
         \/ \E k \in DOMAIN gates : holder[p] = Gate(k) /\ gates[k] = p
    /\ \A k \in DOMAIN gates : holder[gates[k]] = Gate(k)
    /\ ~stolen => \A id \in DOMAIN run : Listens(run[id]) =>
                    Held(Rule(run[id].gen)) = run[id].ports /\ run[id].ports # {}

\* What runs is what the configuration in force says, rule by rule, a partial
\* configuration or a failed one in between notwithstanding.
RunsEffective ==
  apply = NoApply /\ ~closed =>
    /\ DOMAIN run = {id \in DOMAIN effective.rules : effective.rules[id].on}
    /\ \A id \in DOMAIN run : run[id].rule = effective.rules[id]

\* A stream is cut by the engine only when its rule is gone, changed or
\* disabled in a configuration that took effect; a refused one cuts none
\* (the comment above Apply).
StreamsSurvive ==
  [][\A n \in streams \ streams' : n \in Forwarders =>
       \/ n \notin {run'[id].gen : id \in DOMAIN run'}
       \/ UNCHANGED <<holder, run, apply>>]_engineVars

Wants(id) == apply.new.rules[id].want
Clash ==
  LET on == {id \in DOMAIN apply.new.rules : apply.new.rules[id].on /\ ~apply.new.rules[id].sub}
      to == apply.new.gates IN
  \/ stolen
  \/ "tls" \in DOMAIN to /\ ~apply.cert
  \/ \E id \in on : ~Same(id) /\
       \/ Wants(id) = {}
       \/ \E p \in Wants(id) :
            \/ apply.was[p] # Free /\ ~(id \in DOMAIN run /\ apply.was[p] = Rule(run[id].gen))
            \/ \E x \in on \ {id} : p \in Wants(x)
  \/ \E k \in DOMAIN to :
       \/ apply.was[to[k]] \notin {Free, Gate(k)}
       \/ \E id \in on : to[k] \in Wants(id)
       \/ \E l \in DOMAIN to \ {k} : to[l] = to[k]
\* A valid configuration is refused only when a port it needs was bound, by
\* another program, by a rule or a gateway that keeps it until the end of the
\* Apply, or twice in the configuration itself.
RefusedForCause ==
  [][apply.phase = "restore" /\ apply' = NoApply => Clash]_engineVars

\* A configuration takes effect as a whole or not at all, in the sockets, the
\* rules and the streams, and is refused for nothing but a port.
EngineFaithful ==
  /\ [](TypeEngine /\ SocketsMatch /\ RunsEffective)
  /\ StreamsSurvive /\ RefusedForCause
===========================================================================
