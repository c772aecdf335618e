---------------------------- MODULE NodeTunnel ----------------------------
(***************************************************************************)
(* Streams of one rule between two nodes (nodeclient/tunnel.go, mux.go):   *)
(* the entrance opens them over a multiplexed session it shares, or over a *)
(* connection of their own; the gateway of the next node answers each with *)
(* a goroutine.  Meanwhile the next node replaces the rule's forwarder,    *)
(* connections break and either side gives up waiting.                     *)
(***************************************************************************)
EXTENDS Naturals, FiniteSets
CONSTANTS
  Flows,      \* streams the entrance opens
  Links,      \* connections between the nodes
  Slots,      \* streams a session serves at a time (512)
  MaxRestart, \* bound: times the next node replaces the forwarder
  MaxBroken   \* bound: connections that break
ASSUME TunnelBounds ==
  /\ Slots \in Nat \ {0} /\ MaxRestart \in Nat /\ MaxBroken \in Nat
  /\ IsFiniteSet(Flows) /\ "free" \notin Flows /\ 0 \notin Links

VARIABLES
  chained,    \* the entrance's rule has chain groups: its streams are multiplexed
  flow,       \* entrance: stream -> where it is, and its connection
  muxMu,      \* entrance: the stream that holds the lock of the sessions, or Free
  session,    \* entrance: muxSessions of the next node, or NoLink
  link,       \* connection -> how far it is, and the forwarder that took it
  served,     \* next node: stream -> where its goroutine is, and for which forwarder
  forwarder,  \* next node: the forwarder of the rule, numbered
  broken
streamVars == <<flow, muxMu, session, link, served, forwarder, broken>>
tunnelVars == <<chained, streamVars>>

Free == "free"
NoLink == 0
Spare == [at |-> "spare", of |-> 0]
Resting == [at |-> "rest", link |-> NoLink]
Unserved == [at |-> "none", of |-> 0]
At(s, where) == flow[s].at = where
Go(s, where) == flow' = [flow EXCEPT ![s].at = where]
Of(s) == link[flow[s].link]
ServedAt(s, where) == served' = [served EXCEPT ![s].at = where]
\* Streams whose goroutines hold a slot of a session.
Taken(k) == { s \in Flows : flow[s].link = k /\ served[s].at # "none" }
Used(k) == session = k \/ \E s \in Flows : flow[s].link = k

InitTunnel ==
  /\ chained \in BOOLEAN
  /\ flow = [s \in Flows |-> Resting] /\ muxMu = Free /\ session = NoLink
  /\ link = [k \in Links |-> Spare] /\ served = [s \in Flows |-> Unserved]
  /\ forwarder = 1 /\ broken = 0
---------------------------------------------------------------------------
\* The entrance.
dialPeer(s) ==
  /\ At(s, "rest") /\ served[s] = Unserved
  /\ flow' = [flow EXCEPT ![s] = [at |-> "wait", link |-> NoLink]]
  /\ UNCHANGED <<muxMu, session, link, served, forwarder, broken>>
\* dialMux takes the session that is there, unless it has seen it closed, and
\* else dials one and holds the lock until the gateway has answered.
dialMux(s) ==
  /\ At(s, "wait") /\ chained /\ muxMu = Free
  /\ IF session # NoLink
     THEN /\ flow' = [flow EXCEPT ![s] = [at |-> "open", link |-> session]]
          /\ UNCHANGED <<muxMu, link>>
     ELSE \E k \in Links :
          /\ ~Used(k) /\ link[k] = Spare
          /\ flow' = [flow EXCEPT ![s] = [at |-> "dial", link |-> k]]
          /\ link' = [link EXCEPT ![k].at = "asked"] /\ muxMu' = s
  /\ UNCHANGED <<session, served, forwarder, broken>>
\* dialPeerBase for the stream alone: the request is the stream's.
dialPeerBase(s) ==
  /\ At(s, "wait") /\ ~chained
  /\ \E k \in Links :
       /\ ~Used(k) /\ link[k] = Spare
       /\ flow' = [flow EXCEPT ![s] = [at |-> "asked", link |-> k]]
       /\ link' = [link EXCEPT ![k].at = "asked"]
  /\ UNCHANGED <<muxMu, session, served, forwarder, broken>>
\* The gateway's answer to a session: it is kept for the streams to come.
Established(s) ==
  /\ At(s, "dial") /\ Of(s).at \in {"answered", "kept"}
  /\ session' = flow[s].link /\ muxMu' = Free /\ Go(s, "open")
  /\ UNCHANGED <<link, served, forwarder, broken>>
HasSlot(k) == Cardinality(Taken(k)) < Slots
\* OpenStream and the stream's own request, for a goroutine of the next node
\* while the session has a slot.
OpenStream(s) ==
  /\ At(s, "open") /\ Of(s).at = "kept"
  /\ Go(s, "asked")
  /\ served' = IF HasSlot(flow[s].link)
               THEN [served EXCEPT ![s] = [at |-> "read", of |-> Of(s).of]] ELSE served
  /\ UNCHANGED <<muxMu, session, link, forwarder, broken>>
\* The reply: the stream is handed to the connection it is for.
Opened(s) ==
  /\ At(s, "asked") /\ served[s].at = "relay" /\ Of(s).at # "down"
  /\ Go(s, "up")
  /\ UNCHANGED <<muxMu, session, link, served, forwarder, broken>>
HangUp(s) == muxMu' = IF muxMu = s THEN Free ELSE muxMu
Fail_NoDeadline(s) ==
  /\ flow[s].at \in {"open", "asked", "up"} \/ (At(s, "wait") /\ muxMu = Free)
  /\ flow' = [flow EXCEPT ![s].at = "over"] /\ HangUp(s)
  /\ link' = IF flow[s].link # NoLink /\ ~chained
             THEN [link EXCEPT ![flow[s].link].at = "down"] ELSE link
  /\ UNCHANGED <<session, served, forwarder, broken>>
\* An error, a deadline of eight seconds, or the end of a stream that was up.
\* A connection made for the stream, or not answered yet, is closed with it.
Fail(s) ==
  /\ flow[s].at \in {"dial", "open", "asked", "up"} \/ (At(s, "wait") /\ muxMu = Free)
  /\ flow' = [flow EXCEPT ![s].at = "over"] /\ HangUp(s)
  /\ link' = IF flow[s].link # NoLink /\ (~chained \/ At(s, "dial"))
             THEN [link EXCEPT ![flow[s].link].at = "down"] ELSE link
  /\ UNCHANGED <<session, served, forwarder, broken>>
\* The entrance sees that its session is closed: CloseChan, or IsClosed.
Notice ==
  /\ session # NoLink /\ link[session].at = "down" /\ session' = NoLink
  /\ UNCHANGED <<flow, muxMu, link, served, forwarder, broken>>
Forget(s) ==
  /\ At(s, "over") /\ served[s] = Unserved
  /\ flow' = [flow EXCEPT ![s] = Resting]
  /\ UNCHANGED <<muxMu, session, link, served, forwarder, broken>>
Reuse(k) ==
  /\ link[k].at = "down" /\ ~Used(k) /\ link' = [link EXCEPT ![k] = Spare]
  /\ UNCHANGED <<flow, muxMu, session, served, forwarder, broken>>
---------------------------------------------------------------------------
\* The next node.  handle: the first request of a connection is authenticated
\* with the rule's forwarder of the moment and answered.
handle(k) ==
  /\ link[k].at = "asked"
  /\ \E s \in Flows : flow[s].link = k /\
       \/ /\ chained
          /\ link' = [link EXCEPT ![k] = [at |-> "answered", of |-> forwarder]]
          /\ UNCHANGED served
       \/ /\ ~chained
          /\ link' = [link EXCEPT ![k] = [at |-> "kept", of |-> forwarder]]
          /\ served' = [served EXCEPT ![s] = [at |-> "dial", of |-> forwarder]]
  /\ UNCHANGED <<flow, muxMu, session, forwarder, broken>>
\* serveMux tracks the connection only after it has answered: the forwarder may
\* have been closed in between.
serveMux(k) == link[k].of = forwarder
Keep(k) ==
  /\ link[k].at = "answered"
  /\ link' = [link EXCEPT ![k].at = IF serveMux(k) THEN "kept" ELSE "down"]
  /\ UNCHANGED <<flow, muxMu, session, served, forwarder, broken>>
\* A stream of a session is authenticated again, and refused when the rule has
\* another forwarder than the session.
Authorize(s) ==
  /\ served[s].at = "read"
  /\ ServedAt(s, IF served[s].of = forwarder THEN "dial" ELSE "ends")
  /\ UNCHANGED <<flow, muxMu, session, link, forwarder, broken>>
\* openAt: the rest of the way to the target, or none of it can be reached.
OpenAt(s) ==
  /\ served[s].at = "dial" /\ \E next \in {"out", "ends"} : ServedAt(s, next)
  /\ UNCHANGED <<flow, muxMu, session, link, forwarder, broken>>
\* track refuses a connection of a forwarder that is closed.
track(s) == served[s].of = forwarder
\* serveTunnel answers once the way out is open and tracked, and relays.
serveTunnel(s) ==
  /\ served[s].at = "out"
  /\ ServedAt(s, IF track(s) /\ Of(s).at = "kept" THEN "relay" ELSE "ends")
  /\ UNCHANGED <<flow, muxMu, session, link, forwarder, broken>>
Ended(s) == At(s, "over") \/ Of(s).at = "down"
\* Either side of a relay ends: the stream was closed, or the connection below
\* it broke.
RelayEnds(s) ==
  /\ served[s].at = "relay" /\ Ended(s)
  /\ ServedAt(s, "ends")
  /\ UNCHANGED <<flow, muxMu, session, link, forwarder, broken>>
\* The goroutine returns: its slot, its way out and a connection of its own go.
Return(s) ==
  /\ served[s].at = "ends" /\ served' = [served EXCEPT ![s] = Unserved]
  /\ link' = IF chained THEN link ELSE [link EXCEPT ![flow[s].link].at = "down"]
  /\ UNCHANGED <<flow, muxMu, session, forwarder, broken>>
\* Apply replaces the rule's forwarder: closing the old one closes the sessions
\* and the ways out it tracks.
Restart ==
  /\ forwarder <= MaxRestart /\ forwarder' = forwarder + 1
  /\ link' = [k \in Links |->
       IF /\ link[k].at = "kept" /\ link[k].of = forwarder
          /\ \A s \in Flows : flow[s].link = k => chained
       THEN [link[k] EXCEPT !.at = "down"] ELSE link[k]]
  /\ served' = [s \in Flows |->
       IF served[s].at = "relay" THEN [served[s] EXCEPT !.at = "ends"] ELSE served[s]]
  /\ UNCHANGED <<flow, muxMu, session, broken>>
\* A connection breaks, or the gateway closes it: its port changed, or it has
\* its 4096 connections.
Sever(k) ==
  /\ broken < MaxBroken /\ link[k].at \in {"asked", "answered", "kept"}
  /\ broken' = broken + 1 /\ link' = [link EXCEPT ![k].at = "down"]
  /\ UNCHANGED <<flow, muxMu, session, served, forwarder>>

StreamStep ==
  \/ \E s \in Flows :
       \/ dialPeer(s) \/ dialMux(s) \/ dialPeerBase(s) \/ Established(s) \/ OpenStream(s)
       \/ Opened(s) \/ Fail(s) \/ Forget(s)
       \/ Authorize(s) \/ OpenAt(s) \/ serveTunnel(s) \/ RelayEnds(s) \/ Return(s)
  \/ \E k \in Links : Reuse(k) \/ handle(k) \/ Keep(k) \/ Sever(k)
  \/ Notice \/ Restart
NextTunnel == StreamStep /\ UNCHANGED chained
TunnelSpec == InitTunnel /\ [][NextTunnel]_tunnelVars
\* Every wait of a stream that is not up has a deadline; a mutex is handed on;
\* goroutines go on; yamux notices a dead connection.
FairTunnel ==
  /\ \A s \in Flows :
       /\ WF_streamVars(Fail(s) /\ flow[s].at \in {"dial", "open", "asked"})
       /\ WF_streamVars(Authorize(s) \/ OpenAt(s) \/ serveTunnel(s) \/ RelayEnds(s) \/ Return(s))
  /\ WF_streamVars(\E k \in Links : Keep(k)) /\ WF_streamVars(Notice)
---------------------------------------------------------------------------
\* Nothing is relayed for a forwarder that is closed, though its rule was
\* replaced while a stream was being authorized and its way out dialled.
NoOrphans == \A s \in Flows : served[s].at = "relay" => served[s].of = forwarder
\* The streams that dial a session take turns: the entrance never dials two to the
\* same node at a time, and the lock is held by nobody else.
OneDials == \A s \in Flows : At(s, "dial") <=> muxMu = s
\* A session never serves more streams than it has slots, those of streams the
\* entrance has given up included.
SlotsKept == chained => \A k \in Links : Cardinality(Taken(k)) <= Slots

\* What tunnels between nodes must never lose, under any order of their steps.
TunnelSafe == NoOrphans /\ OneDials /\ SlotsKept

\* Who holds the lock of the sessions while it dials gives it back, whatever the
\* gateway answers or does not: the streams that wait for it get their turn.
LockReturned == \A s \in Flows : muxMu = s ~> muxMu # s
\* The next node holds nothing for a stream that is over: not for one refused,
\* timed out, cut or replaced half-way.
Released == \A s \in Flows : At(s, "over") ~> served[s] = Unserved
\* A session of a forwarder that is closed, on which every stream would be
\* refused, does not stay the session of the entrance.
SessionRenewed ==
  [](session # NoLink /\ link[session].of # forwarder
     => <>(session = NoLink \/ link[session].of = forwarder))

\* Tunnels between nodes whose rules are replaced under them: nothing is relayed
\* for the dead, held or waited for in vain.
TunnelsClean == []TunnelSafe /\ LockReturned /\ Released /\ SessionRenewed
=============================================================================
