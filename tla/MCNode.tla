------------------------------- MODULE MCNode -------------------------------
\* Parts of a node that share no state and have something that must happen: a
\* behaviour is one of one of them.
EXTENDS NodeRelay, NodeReverse, NodeUpgrade
VARIABLE part
upgradeVars == vars
nodeRunVars == <<part, relayVars, reverseVars, upgradeVars>>

\* A node that has registered and upgrades nothing: nothing fair is enabled.
NoUpgrading ==
  /\ exe = First /\ prev = NoRelease /\ marker = NoMarker /\ lock = NoOne
  /\ up = TRUE /\ ver = First /\ registered = TRUE /\ upgrade = NoUpgrade
  /\ unit = [w \in Watchdogs |-> "none"]
  /\ proven = TRUE /\ upgrades = 0 /\ faults = 0
InitNode ==
  /\ part \in {"relay", "reverse", "upgrade"}
  /\ InitRelay /\ InitReverse
  /\ IF part = "upgrade" THEN Init ELSE NoUpgrading
  /\ part # "relay" => setup.quota > 0
NextNode ==
  /\ UNCHANGED part
  /\ \/ part = "relay" /\ NextRelay /\ UNCHANGED <<reverseVars, upgradeVars>>
     \/ part = "reverse" /\ NextReverse /\ UNCHANGED <<relayVars, upgradeVars>>
     \/ part = "upgrade" /\ Next /\ UNCHANGED <<relayVars, reverseVars>>
NodeSpec ==
  /\ InitNode /\ [][NextNode]_nodeRunVars
  /\ FairRelay /\ FairReverse /\ Fairness  \* nothing fair is enabled in a part that rests

\* What a node owes in the end: an upgrade is decided, a connection of a closed
\* forwarder gives back what it holds, and a client of a reverse tunnel is answered.
NodeEnds == UpgradeEnds /\ Drains /\ Answered

---------------------------------------------------------------------------
NoLimit == [conns |-> 0, ips |-> 0]
MCSetups ==
  { \* limits of a rule, and of a user over two rules
    [addresses |-> {1, 2}, groups |-> <<>>, route |-> 1 :> 0 @@ 2 :> 0, targets |-> {7},
     maxConn |-> <<>>,
     limits |-> 1 :> NoLimit @@ 2 :> [conns |-> 1, ips |-> 0] @@ 9 :> [conns |-> 0, ips |-> 1],
     quota |-> 0, ends |-> {}, units |-> 0, marks |-> 0],
    \* a quota
    [addresses |-> {1}, groups |-> <<>>, route |-> 1 :> 0, targets |-> {7}, maxConn |-> <<>>,
     limits |-> 1 :> NoLimit @@ 9 :> NoLimit, quota |-> 2, ends |-> {1}, units |-> 2, marks |-> 0],
    \* failover round two groups, one peer full after a connection
    [addresses |-> {1}, groups |-> 1 :> [peers |-> {1}, next |-> 2, fails |-> 1, succs |-> 2] @@
            2 :> [peers |-> {2}, next |-> 1, fails |-> 2, succs |-> 1],
     route |-> 1 :> 1, targets |-> {}, maxConn |-> 1 :> 1 @@ 2 :> 0,
     limits |-> 1 :> NoLimit @@ 9 :> NoLimit, quota |-> 0, ends |-> {1}, units |-> 0, marks |-> 1] }
=============================================================================
