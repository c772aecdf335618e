------------------------------ MODULE Terminals ------------------------------
\* Interactive terminals: a browser's request on the panel, the broker that routes
\* the output of a node's shells to the requests, the node's control stream and
\* the shells of the node. A node that reconnects has two streams for a while.
EXTENDS Naturals, Sequences, FiniteSets, Functions, SequencesExt
CONSTANTS
  Streams,    \* 1 .. n, the control streams in the order in which the node dials
  Terms,      \* requests of one user
  UserLimit,  \* terminals of one user (3 in the code)
  ShellLimit, \* shells of a node (16)
  Buffer,     \* events a subscriber of the hub may be behind (64)
  Output,     \* messages a request may be behind (64)
  Line,       \* bound: messages a connection holds
  MaxCuts     \* bound: streams that break
ASSUME TerminalBounds ==
  /\ {UserLimit, ShellLimit, Buffer, Output, Line} \cup Streams \subseteq Nat \ {0} /\ MaxCuts \in Nat
  /\ IsFiniteSet(Terms)

VARIABLES
  refuses,  \* the node runs with DISABLE_EXECUTE
  row,      \* nodes.disable_execute, which the next heartbeat corrects
  lease,    \* broker.nodes: the stream that counts, 0 for none
  off,      \* streams whose lease is disabled
  shut,     \* stream -> how often its lease.done was closed
  routed,   \* broker.sessions: request -> stream of its lease
  out,      \* request -> its output channel: messages, how often it was closed
  handler,  \* stream -> where NodeStream stands
  subscription,    \* stream -> its subscription at the hub, <<>> when it has none
  wire,     \* stream -> messages under way to the node
  back,     \* stream -> messages under way to the panel
  cut,      \* streams whose connection is closed on either side
  stream,   \* the node: the stream of streamOnce, 0 while it waits
  shells,   \* the node: sessions with a shell
  term,     \* request -> where NodeTerminal stands
  count,    \* terminalCounter of the user
  own,      \* requests whose terminal_open went to the stream of their lease
  unsaid    \* requests whose terminal_close found no subscriber with room
terminalVars == <<refuses, row, lease, off, shut, routed, out, handler, subscription, wire, back, cut, stream, shells, term, count, own, unsaid>>
brokerVars == <<lease, off, shut, routed, out>>
nodeVars == <<stream, shells>>
requestVars == <<term, count, own, unsaid>>

Msg(kind, t) == [kind |-> kind, term |-> t]
Subscribed == { s \in Streams : handler[s] = "serving" \/ handler[s] = "left" }
Closed(channels, ts) == [t \in Terms |-> IF t \in ts THEN [channels[t] EXCEPT !.closed = @ + 1] ELSE channels[t]]
---------------------------------------------------------------------------
\* The broker, under its mutex. A new lease takes the node over from the old one.
removeNodeSessions == routed' = <<>> /\ out' = Closed(out, DOMAIN routed)
attach(s) ==
  /\ shut' = IF lease = 0 THEN shut ELSE [shut EXCEPT ![lease] = @ + 1]
  /\ IF lease = 0 THEN UNCHANGED <<routed, out>> ELSE removeNodeSessions
  /\ lease' = s /\ off' = IF row THEN off \cup {s} ELSE off
detach(s) ==
  IF lease = s THEN lease' = 0 /\ shut' = [shut EXCEPT ![s] = @ + 1] /\ removeNodeSessions /\ UNCHANGED off
  ELSE UNCHANGED brokerVars
setDisabled_Keeps(s, disabled) ==
  /\ off' = IF lease # s THEN off ELSE IF disabled THEN off \cup {s} ELSE off \ {s}
  /\ UNCHANGED <<lease, shut, routed, out>>
setDisabled(s, disabled) ==
  /\ off' = IF lease # s THEN off ELSE IF disabled THEN off \cup {s} ELSE off \ {s}
  /\ IF lease = s /\ disabled THEN removeNodeSessions ELSE UNCHANGED <<routed, out>>
  /\ UNCHANGED <<lease, shut>>
close(t) ==
  /\ routed' = Restrict(routed, DOMAIN routed \ {t})
  /\ out' = Closed(out, {t} \cap DOMAIN routed)
  /\ UNCHANGED <<lease, off, shut>>
\* What comes over a stream reaches a request of the same lease; one that is
\* behind by too much is closed.
receive(s, m) ==
  /\ IF lease # s \/ m.term \notin DOMAIN routed \/ routed[m.term] # s THEN UNCHANGED <<routed, out>>
     ELSE IF Len(out[m.term].queue) < Output
          THEN out' = [out EXCEPT ![m.term].queue = Append(@, m.kind)] /\ UNCHANGED routed
          ELSE routed' = Restrict(routed, DOMAIN routed \ {m.term}) /\ out' = Closed(out, {m.term})
  /\ UNCHANGED <<lease, off, shut>>

\* Hub.BroadcastToNode: every subscription of the node that has room takes it.
Roomy == { s \in Subscribed : Len(subscription[s]) < Buffer }
BroadcastToNode(m) == subscription' = [s \in Streams |-> IF s \in Roomy THEN Append(subscription[s], m) ELSE subscription[s]]
---------------------------------------------------------------------------
\* NodeStream on the panel. The node says node_hello as soon as it has dialled.
Dial(s) ==
  /\ stream = 0 /\ handler[s] = "none" /\ \A r \in Streams : r < s => handler[r] # "none"
  /\ stream' = s /\ handler' = [handler EXCEPT ![s] = "upgraded"]
  /\ back' = [back EXCEPT ![s] = <<Msg("node_hello", 0)>>]
  /\ UNCHANGED <<refuses, row, brokerVars, subscription, wire, cut, shells, requestVars>>
Attach(s) ==
  /\ handler[s] = "upgraded" /\ handler' = [handler EXCEPT ![s] = "attached"] /\ attach(s)
  /\ UNCHANGED <<refuses, row, subscription, wire, back, cut, nodeVars, requestVars>>
\* It subscribes, greets the node and starts to read ...
Subscribe(s) ==
  /\ handler[s] = "attached" /\ handler' = [handler EXCEPT ![s] = "serving"]
  /\ UNCHANGED <<refuses, row, brokerVars, subscription, wire, back, cut, nodeVars, requestVars>>
\* ... and reads until the connection is closed, also when the lease is not its own any more ...
Read(s) ==
  /\ s \in Subscribed \/ handler[s] = "unsubscribed"
  /\ back[s] # <<>> /\ back' = [back EXCEPT ![s] = Tail(@)]
  /\ LET m == Head(back[s])
     IN IF m.kind = "node_hello" THEN setDisabled(s, refuses) ELSE receive(s, m)
  /\ UNCHANGED <<refuses, row, handler, subscription, wire, cut, nodeVars, requestVars>>
\* ... while it hands on what the hub has for the node; a write to a connection
\* that is closed may go unnoticed ...
Write(s) ==
  /\ handler[s] = "serving" /\ subscription[s] # <<>> /\ subscription' = [subscription EXCEPT ![s] = Tail(@)]
  /\ Len(wire[s]) < Line \/ s \in cut
  /\ wire' = IF s \in cut THEN wire ELSE [wire EXCEPT ![s] = Append(@, Head(subscription[s]))]
  /\ UNCHANGED <<refuses, row, brokerVars, handler, back, cut, nodeVars, requestVars>>
\* ... and looks at the node's row with every ping.
Ping(s) ==
  /\ handler[s] = "serving" /\ setDisabled(s, row)
  /\ UNCHANGED <<refuses, row, handler, subscription, wire, back, cut, nodeVars, requestVars>>
\* It ends with the connection or with its lease, and undoes what it set up.
Leave(s) ==
  /\ handler[s] = "serving" /\ (s \in cut \/ shut[s] > 0)
  /\ handler' = [handler EXCEPT ![s] = "left"]
  /\ UNCHANGED <<refuses, row, brokerVars, subscription, wire, back, cut, nodeVars, requestVars>>
Unsubscribe(s) ==
  /\ handler[s] = "left" /\ handler' = [handler EXCEPT ![s] = "unsubscribed"]
  /\ subscription' = [subscription EXCEPT ![s] = <<>>]
  /\ UNCHANGED <<refuses, row, brokerVars, wire, back, cut, nodeVars, requestVars>>
Detach(s) ==
  /\ handler[s] = "unsubscribed" /\ handler' = [handler EXCEPT ![s] = "gone"]
  /\ detach(s) /\ cut' = cut \cup {s} /\ back' = [back EXCEPT ![s] = <<>>]
  /\ UNCHANGED <<refuses, row, subscription, wire, nodeVars, requestVars>>
---------------------------------------------------------------------------
\* The node: a reply that cannot be written closes the session.
Room(s) == Len(back[s]) < Line \/ s \in cut
Reply(s, kind, t) == Room(s) /\ back' = IF s \in cut THEN back ELSE [back EXCEPT ![s] = Append(@, Msg(kind, t))]
terminal_open(s, t) ==
  IF t \in shells THEN UNCHANGED <<back, shells>>
  ELSE \/ Reply(s, "error", t) /\ UNCHANGED shells  \* it refuses, has its limit, or startPTY fails
       \/ /\ ~refuses /\ Cardinality(shells) < ShellLimit /\ Reply(s, "ready", t)
          /\ shells' = IF s \in cut THEN shells ELSE shells \cup {t}
terminal_input(s, t) ==
  \/ UNCHANGED <<back, shells>>
  \/ t \in shells /\ shells' = shells \ {t} /\ Reply(s, "error", t)  \* too much of it, or the shell does not take it
terminal_close(t) == shells' = shells \ {t} /\ UNCHANGED back
handleFrame(s) ==
  /\ stream = s /\ wire[s] # <<>> /\ wire' = [wire EXCEPT ![s] = Tail(@)]
  /\ LET m == Head(wire[s])
     IN CASE m.kind = "open" -> terminal_open(s, m.term)
          [] m.kind = "input" -> terminal_input(s, m.term)
          [] m.kind = "close" -> terminal_close(m.term)
  /\ UNCHANGED <<refuses, row, brokerVars, handler, subscription, cut, stream, requestVars>>
\* A shell says something, or ends.
Shell(s, t) ==
  /\ stream = s /\ t \in shells
  /\ \/ Reply(s, "output", t) /\ shells' = IF s \in cut THEN shells \ {t} ELSE shells
     \/ Reply(s, "closed", t) /\ shells' = shells \ {t}
  /\ UNCHANGED <<refuses, row, brokerVars, handler, subscription, wire, cut, stream, requestVars>>
\* streamOnce ends: its terminals are closed before it dials again.
streamEnds(s) ==
  /\ stream = s /\ s \in cut /\ stream' = 0 /\ shells' = {}
  /\ UNCHANGED <<refuses, row, brokerVars, handler, subscription, wire, back, cut, requestVars>>
Heartbeat ==
  /\ row' = refuses /\ row # refuses
  /\ UNCHANGED <<refuses, brokerVars, handler, subscription, wire, back, cut, nodeVars, requestVars>>
Cut(s) ==
  /\ handler[s] \notin {"none", "gone"} /\ s \notin cut /\ Cardinality(cut) < MaxCuts /\ cut' = cut \cup {s}
  /\ UNCHANGED <<refuses, row, brokerVars, handler, subscription, wire, back, nodeVars, requestVars>>
---------------------------------------------------------------------------
Goes(t, to) == term' = [term EXCEPT ![t] = to]
\* NodeTerminal: the row and the broker must allow it ...
Open(t) ==
  /\ term[t] = "idle" /\ ~row /\ lease # 0 /\ lease \notin off /\ Goes(t, "opened")
  /\ routed' = [x \in DOMAIN routed \cup {t} |-> IF x = t THEN lease ELSE routed[x]]
  /\ UNCHANGED <<refuses, row, lease, off, shut, out, handler, subscription, wire, back, cut, nodeVars, count, own, unsaid>>
\* ... and the user have fewer than the limit ...
increment(t) ==
  /\ term[t] = "opened" /\ count' = count + 1
  /\ Goes(t, IF count + 1 > UserLimit THEN "counted" ELSE "allowed")
  /\ UNCHANGED <<refuses, row, brokerVars, handler, subscription, wire, back, cut, nodeVars, own, unsaid>>
\* ... then the node is asked, and it is over at once when no stream takes it ...
SendOpen(t) ==
  /\ term[t] = "allowed" /\ BroadcastToNode(Msg("open", t))
  /\ Goes(t, IF Roomy = {} THEN "counted" ELSE "waiting")
  /\ own' = IF t \in DOMAIN routed /\ routed[t] \in Roomy THEN own \cup {t} ELSE own
  /\ UNCHANGED <<refuses, row, brokerVars, handler, wire, back, cut, nodeVars, count, unsaid>>
Running(t) == term[t] \in {"waiting", "ready", "typed"}
\* ... what the node sends goes to the browser ...
Deliver(t) ==
  /\ Running(t)
  /\ IF out[t].queue = <<>>
     THEN out[t].closed > 0 /\ Goes(t, "leaving") /\ UNCHANGED out
     ELSE /\ out' = [out EXCEPT ![t].queue = Tail(@)]
          /\ Goes(t, IF Head(out[t].queue) \in {"error", "closed"} THEN "leaving"
                      ELSE IF term[t] = "waiting" THEN "ready" ELSE term[t])
  /\ UNCHANGED <<refuses, row, lease, off, shut, routed, handler, subscription, wire, back, cut, nodeVars, count, own, unsaid>>
\* ... what the browser types goes to the node (a request types once here) ...
Type(t) ==
  /\ term[t] = "ready" /\ BroadcastToNode(Msg("input", t))
  /\ Goes(t, IF Roomy = {} THEN "leaving" ELSE "typed")
  /\ UNCHANGED <<refuses, row, brokerVars, handler, wire, back, cut, nodeVars, count, own, unsaid>>
Hangup(t) ==
  /\ Running(t) /\ Goes(t, "leaving")
  /\ UNCHANGED <<refuses, row, brokerVars, handler, subscription, wire, back, cut, nodeVars, count, own, unsaid>>
\* ... and in the end the node is told, the count goes down, the route goes.
SendClose(t) ==
  /\ term[t] = "leaving" /\ BroadcastToNode(Msg("close", t)) /\ Goes(t, "counted")
  /\ unsaid' = IF stream # 0 /\ stream \notin Roomy THEN unsaid \cup {t} ELSE unsaid
  /\ UNCHANGED <<refuses, row, brokerVars, handler, wire, back, cut, nodeVars, count, own>>
decrement(t) ==
  /\ term[t] = "counted" /\ count' = count - 1 /\ Goes(t, "closing")
  /\ UNCHANGED <<refuses, row, brokerVars, handler, subscription, wire, back, cut, nodeVars, own, unsaid>>
Close(t) ==
  /\ term[t] = "closing" /\ close(t) /\ Goes(t, "gone")
  /\ UNCHANGED <<refuses, row, handler, subscription, wire, back, cut, nodeVars, count, own, unsaid>>
---------------------------------------------------------------------------
\* Some of the streams and requests a behaviour may have are not used in it.
InitTerminals ==
  /\ refuses \in BOOLEAN /\ row \in BOOLEAN /\ lease = 0 /\ off = {} /\ shut = [s \in Streams |-> 0]
  /\ routed = <<>> /\ out = [t \in Terms |-> [queue |-> <<>>, closed |-> 0]]
  /\ handler \in [Streams -> {"none", "gone"}] /\ stream = 0 /\ shells = {}
  /\ cut = { s \in Streams : handler[s] = "gone" }
  /\ subscription = [s \in Streams |-> <<>>] /\ wire = subscription /\ back = subscription
  /\ term \in [Terms -> {"idle", "gone"}] /\ count = 0 /\ own = {} /\ unsaid = {}
Serves(s) == Attach(s) \/ Subscribe(s) \/ Leave(s) \/ Unsubscribe(s) \/ Detach(s)
Asks(t) == increment(t) \/ SendOpen(t) \/ SendClose(t) \/ decrement(t) \/ Close(t)
NextTerminals ==
  \/ \E s \in Streams : Dial(s) \/ Serves(s) \/ Read(s) \/ Write(s) \/ Ping(s) \/ handleFrame(s) \/ streamEnds(s) \/ Cut(s)
  \/ \E s \in Streams, t \in Terms : Shell(s, t)
  \/ \E t \in Terms : Open(t) \/ Asks(t) \/ Deliver(t) \/ Type(t) \/ Hangup(t)
  \/ Heartbeat
\* The goroutines of both sides run, and the shells take turns with the reader of the
\* stream to write to it (nodeSocket.mu); nobody has to dial, type or hang up.
FairTerminals ==
  /\ \A s \in Streams :
       /\ WF_terminalVars(Serves(s)) /\ WF_terminalVars(Read(s)) /\ WF_terminalVars(Write(s))
  /\ WF_terminalVars(\E s \in Streams : streamEnds(s))
  /\ SF_terminalVars(\E s \in Streams : handleFrame(s))
  /\ \A t \in Terms : WF_terminalVars(Asks(t) \/ Deliver(t))
TerminalsSpec == InitTerminals /\ [][NextTerminals]_terminalVars
---------------------------------------------------------------------------
\* No channel of the broker is closed twice, which would panic, although requests,
\* old and new streams and a full channel all close them (terminalBroker).
ClosedOnce ==
  /\ \A s \in Streams : shut[s] <= 1
  /\ \A t \in Terms : out[t].closed <= 1

\* A request with a route can be heard: its channel is open and its lease is the
\* node's and not disabled, so a message never goes to a channel that is closed.
RoutesAlive ==
  \A t \in DOMAIN routed : routed[t] = lease /\ lease \notin off /\ out[t].closed = 0

Has(t) == term[t] \in {"allowed", "leaving"} \/ Running(t)
\* A user never has more terminals than the limit, and the count is back at what
\* the requests under way hold, refused ones included (terminalCounter).
UserBounded ==
  /\ Cardinality({ t \in Terms : Has(t) }) <= UserLimit
  /\ count = Cardinality({ t \in Terms : Has(t) \/ term[t] = "counted" })

\* Terminals over streams that come and go: nothing is closed twice or routed to
\* the dead, and the limit of a user holds.
TerminalsSafe == ClosedOnce /\ RoutesAlive /\ UserBounded

\* The shell of a request that has left goes, with the stream it was opened through
\* or by the word of the panel, unless the hub had no room for the word
\* (terminalManager.closeSession, close).
ShellsEnd == \A t \in Terms : (term[t] = "gone" /\ t \notin unsaid) ~> (t \notin shells)

\* A request whose terminal_open went to the stream of its lease is answered or
\* told that the connection is closed; it never waits for good (NodeTerminal).
TerminalAnswered == \A t \in Terms : (term[t] = "waiting" /\ t \in own) ~> (term[t] # "waiting")

\* No shell is left running and no request waits in vain.
TerminalsServed == ShellsEnd /\ TerminalAnswered
=============================================================================
