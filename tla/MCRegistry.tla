----------------------------- MODULE MCRegistry -----------------------------
\* The panel's registry, and what a node makes of its configuration, of
\* datagrams and of a name it dials: a behaviour is one of one of them.
EXTENDS MCPanelEdits, NodeEngine, NodeUdp, Dialing
VARIABLE part
registryVars == <<part, vars, engineVars, udpVars, dialVars>>

NoDial ==
  /\ netType = "tcp" /\ addresses = <<>>
  /\ dial = "resolve" /\ tried = {} /\ used = 0 /\ resolved = 0
InitParts ==
  /\ part \in {"registry", "engine", "udp", "dialing"}
  /\ Init /\ InitEngine /\ InitUdp
  /\ IF part = "dialing" THEN InitDialing ELSE NoDial
NextParts ==
  /\ UNCHANGED part
  /\ \/ part = "registry" /\ Next /\ UNCHANGED <<engineVars, udpVars, dialVars>>
     \/ part = "engine" /\ NextEngine /\ UNCHANGED <<vars, udpVars, dialVars>>
     \/ part = "udp" /\ NextUdp /\ UNCHANGED <<vars, engineVars, dialVars>>
     \/ part = "dialing" /\ NextDialing /\ UNCHANGED <<vars, engineVars, udpVars>>
RegistrySpec == InitParts /\ [][NextParts]_registryVars
---------------------------------------------------------------------------
L(ports) == [on |-> TRUE, ok |-> TRUE, want |-> ports, sub |-> FALSE]
Cfg(rs, gs) == [full |-> TRUE, disabled |-> FALSE, rules |-> rs, removed |-> {}, gates |-> gs, cert |-> TRUE]
MCConfigs ==
  { Cfg(1 :> L({1}) @@ 2 :> L({2, 3}), "direct" :> 4),
    Cfg(2 :> L({3}), "direct" :> 4),
    Cfg(1 :> L({2}) @@ 2 :> L({1}), "direct" :> 4),
    Cfg(1 :> [L({1}) EXCEPT !.on = FALSE] @@ 2 :> L({1}), "direct" :> 4),
    Cfg(1 :> L({}) @@ 2 :> [L({}) EXCEPT !.sub = TRUE], "tls" :> 4),
    [Cfg(2 :> L({3}), "tls" :> 3) EXCEPT !.full = FALSE, !.removed = {1}, !.cert = FALSE],
    [Cfg(3 :> L({3}), <<>>) EXCEPT !.full = FALSE, !.removed = {2}],
    Cfg(1 :> [L({1}) EXCEPT !.ok = FALSE], <<>>),
    [Cfg(<<>>, <<>>) EXCEPT !.disabled = TRUE] }
---------------------------------------------------------------------------
MCRemotes == [family : {4, 6}, takes : {1, 3, 9}, accepts : BOOLEAN]
=============================================================================
