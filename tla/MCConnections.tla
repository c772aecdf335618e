--------------------------- MODULE MCConnections ---------------------------
\* Terminals and tunnels of a node: a behaviour is one of one of them.
EXTENDS Terminals, NodeTunnel
VARIABLE part
vars == <<part, terminalVars, tunnelVars>>

\* One request over two streams, two over one stream, or one to a node that
\* refuses; none when the terminals rest.
Uses(terms, streams) ==
  /\ \A t \in Terms : term[t] = IF t \in terms THEN "idle" ELSE "gone"
  /\ \A s \in Streams : handler[s] = IF s \in streams THEN "none" ELSE "gone"
Init ==
  /\ part \in {"terminals", "tunnel"}
  /\ InitTerminals /\ InitTunnel
  /\ part # "tunnel" => ~chained
  /\ IF part = "terminals"
     THEN \/ Uses({1}, Streams) /\ ~refuses /\ ~row
          \/ Uses(Terms, {1}) /\ ~refuses /\ ~row
          \/ Uses({1}, {1}) /\ refuses
     ELSE Uses({}, {}) /\ ~refuses /\ ~row
Next ==
  /\ UNCHANGED part
  /\ \/ part = "terminals" /\ NextTerminals /\ UNCHANGED tunnelVars
     \/ part = "tunnel" /\ NextTunnel /\ UNCHANGED terminalVars
Spec ==
  /\ Init /\ [][Next]_vars
  /\ FairTerminals /\ FairTunnel  \* nothing fair is enabled in a part that rests

\* Whatever streams, nodes and rules come and go, nothing of a connection that is
\* over is held, and nobody waits for it in vain.
ConnectionsClean == TerminalsServed /\ TunnelsClean
=============================================================================
