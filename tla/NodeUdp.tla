------------------------------ MODULE NodeUdp ------------------------------
(***************************************************************************)
(* Native UDP between two nodes (nodeclient/udp_tunnel.go).  The entrance  *)
(* opens a session with a first datagram and numbers those that follow;    *)
(* the exit's gateway keeps a table of sessions and numbers its answers.   *)
(* The network loses, duplicates and reorders datagrams.  The gateway has  *)
(* one reader; what opens a session runs beside it.                        *)
(***************************************************************************)
EXTENDS Naturals, Sequences, FiniteSets, SequencesExt

CONSTANTS
  Ids,      \* sessions entrances open, each with a random identifier
  Capacity, \* sessions a gateway holds (4096)
  Pending,  \* sessions it opens at a time (32)
  MaxSend   \* bound: datagrams each end of a session sends

ASSUME UdpBounds == {Capacity, Pending, MaxSend} \subseteq Nat \ {0}

VARIABLES
  near,     \* [id -> the entrance's end: pc, send, last]
  far,      \* [id -> the gateway's session: pc, send, last, first]
  nonces,   \* requests the gateway has authenticated
  network,  \* datagrams that were sent: [id, back, kind, seq]
  uplink, downlink  \* history: what each end was given, [id -> sequence of numbers]

udpVars == <<near, far, nonces, network, uplink, downlink>>

NoSession == [pc |-> "none", send |-> 0, last |-> 0]
Datagram(id, back, kind, seq) == [id |-> id, back |-> back, kind |-> kind, seq |-> seq]
Ends(end, pc) == {id \in Ids : end[id].pc = pc}

InitUdp ==
  /\ near = [id \in Ids |-> NoSession] /\ far = near
  /\ nonces = {} /\ network = {}
  /\ uplink = [id \in Ids |-> <<>>] /\ downlink = uplink

---------------------------------------------------------------------------
\* The entrance: dialNativeUDP, then nativePacketConn.

DialNativeUDP(id) ==
  /\ near[id].pc = "none"
  /\ near' = [near EXCEPT ![id] = [pc |-> "dialling", send |-> 1, last |-> 0]]
  /\ network' = network \cup {Datagram(id, FALSE, "open", 1)}
  /\ UNCHANGED <<far, nonces, uplink, downlink>>

\* The first answer must be the gateway's consent; there is no second try.
Dialled(id) ==
  \E d \in network :
    /\ near[id].pc = "dialling" /\ d.id = id /\ d.back
    /\ near' = [near EXCEPT ![id] = IF d.kind = "open" THEN [@ EXCEPT !.pc = "open", !.last = d.seq]
                                    ELSE [@ EXCEPT !.pc = "closed"]]
    /\ UNCHANGED <<far, nonces, network, uplink, downlink>>
HangUpNear(id) ==
  /\ near[id].pc \in {"dialling", "open"}
  /\ near' = [near EXCEPT ![id].pc = "closed"]
  /\ UNCHANGED <<far, nonces, network, uplink, downlink>>

Write(id) ==
  /\ near[id].pc = "open" /\ near[id].send < MaxSend
  /\ near' = [near EXCEPT ![id].send = @ + 1]
  /\ network' = network \cup {Datagram(id, FALSE, "data", near[id].send + 1)}
  /\ UNCHANGED <<far, nonces, uplink, downlink>>

Newer(end, d) == d.seq > end[d.id].last
Read(d) ==
  /\ d.back /\ d.kind = "data" /\ near[d.id].pc = "open" /\ Newer(near, d)
  /\ near' = [near EXCEPT ![d.id].last = d.seq]
  /\ downlink' = [downlink EXCEPT ![d.id] = Append(@, d.seq)]
  /\ UNCHANGED <<far, nonces, network, uplink>>

---------------------------------------------------------------------------
\* The gateway: serveNativeUDP.

\* An opening datagram of a session that is not there: the request is
\* authenticated once, and opened if not too many are.
Replayed_Never(id) == FALSE  \* Mutant: requests are not remembered
Replayed(id) == id \in nonces
OpenSession(d) ==
  /\ ~d.back /\ d.kind = "open" /\ far[d.id].pc # "open" /\ Cardinality(Ends(far, "open")) < Capacity
  /\ ~Replayed(d.id)
  /\ nonces' = nonces \cup {d.id}
  /\ IF Cardinality(Ends(far, "opening")) < Pending
     THEN far' = [far EXCEPT ![d.id] = [pc |-> "opening", send |-> 0, last |-> d.seq]]
     ELSE UNCHANGED far
  /\ UNCHANGED <<near, network, uplink, downlink>>

\* startUDPSession: the way out may be refused, or the table full by now.
Full == Cardinality(Ends(far, "open")) >= Capacity
StartUDPSession(id, ok) ==
  /\ far[id].pc = "opening"
  /\ IF ok /\ ~Full
     THEN /\ far' = [far EXCEPT ![id].pc = "open", ![id].send = 1]
          /\ network' = network \cup {Datagram(id, TRUE, "open", 1)}
     ELSE far' = [far EXCEPT ![id].pc = "none"] /\ UNCHANGED network
  /\ UNCHANGED <<near, nonces, uplink, downlink>>

Forward(d) ==
  /\ ~d.back /\ d.kind = "data" /\ far[d.id].pc = "open" /\ Newer(far, d)
  /\ far' = [far EXCEPT ![d.id].last = d.seq]
  /\ uplink' = [uplink EXCEPT ![d.id] = Append(@, d.seq)]
  /\ UNCHANGED <<near, nonces, network, downlink>>

Respond(id) ==
  /\ far[id].pc = "open" /\ far[id].send < MaxSend
  /\ far' = [far EXCEPT ![id].send = @ + 1]
  /\ network' = network \cup {Datagram(id, TRUE, "data", far[id].send + 1)}
  /\ UNCHANGED <<near, nonces, uplink, downlink>>

\* Nothing for a minute, an error, or the forwarder or the gateway is closed.
EndSession(id) ==
  /\ far[id].pc = "open"
  /\ far' = [far EXCEPT ![id] = NoSession]
  /\ UNCHANGED <<near, nonces, network, uplink, downlink>>

NextUdp ==
  \/ \E id \in Ids :
       \/ DialNativeUDP(id) \/ Dialled(id) \/ HangUpNear(id) \/ Write(id)
       \/ Respond(id) \/ EndSession(id) \/ \E ok \in BOOLEAN : StartUDPSession(id, ok)
  \/ \E d \in network : Read(d) \/ OpenSession(d) \/ Forward(d)

UdpSpec == InitUdp /\ [][NextUdp]_udpVars
---------------------------------------------------------------------------
\* Properties

\* Whatever the network does, each end of a session is given the other's
\* datagrams in the order they were written and none twice, the end of a
\* session and a new opening of it included.
InOrder ==
  \A id \in Ids, link \in {uplink, downlink} :
    \A i, j \in DOMAIN link[id] : i < j => link[id][i] < link[id][j]

\* The table is never over its capacity, though sessions are opened beside
\* the reader that looks at it.
TableBounded == Cardinality(Ends(far, "open")) <= Capacity

\* A session that ended is not started again by an opening datagram that
\* arrives late or twice: its target would see a client that is not there.
NoRevival ==
  [][\A id \in Ids : far[id].pc # "open" /\ far'[id].pc = "open" =>
       Datagram(id, TRUE, "open", 1) \notin network]_udpVars

\* A session is a session: in order, within the table, and over when it is over.
UdpFaithful == [](InOrder /\ TableBounded) /\ NoRevival
=============================================================================
