----------------------------- MODULE Dialing -----------------------------
(***************************************************************************)
(* How a node dials a target or a peer (nodeclient/network.go): the name   *)
(* is resolved, addresses of the wrong family are left out, and the others *)
(* are tried one after the other within one deadline for all.              *)
(***************************************************************************)
EXTENDS Integers, Sequences, FiniteSets
CONSTANTS
  Timeout,    \* the deadline for the whole dial, in ticks
  Remotes,    \* addresses: family, how long they take to answer, and how
  MaxRemotes  \* bound: addresses a name has
ASSUME DialBounds == Timeout \in Nat \ {0} /\ MaxRemotes \in Nat
ASSUME RemotesAnswer ==
  Remotes \subseteq [family : {4, 6}, takes : Nat, accepts : BOOLEAN]

VARIABLES
  netType,    \* tcp, tcp4 or tcp6
  addresses,  \* what the name resolves to
  dial,       \* where the dial is
  tried,      \* positions of the candidates tried
  used,       \* ticks passed
  resolved    \* ticks the resolver took of them
dialVars == <<netType, addresses, dial, tried, used, resolved>>

InitDialing ==
  /\ netType \in {"tcp", "tcp4", "tcp6"}
  /\ addresses \in UNION { [1..n -> Remotes] : n \in 0..MaxRemotes }
  /\ dial = "resolve" /\ tried = {} /\ used = 0 /\ resolved = 0
\* The addresses of the family asked for, by their positions.
candidates ==
  { i \in DOMAIN addresses : /\ ~(netType = "tcp4" /\ addresses[i].family = 6)
                             /\ ~(netType = "tcp6" /\ addresses[i].family = 4) }
untried == candidates \ tried
LookupIPAddr ==
  /\ dial = "resolve"
  /\ \E ticks \in 0..1 :
       /\ resolved' = ticks /\ used' = ticks
       /\ dial' = IF candidates = {} THEN "failed" ELSE "try"
  /\ UNCHANGED <<netType, addresses, tried>>
\* Mutant: what is left, divided between all addresses.
Share_All == (Timeout - used) \div Cardinality(candidates)
\* What is left, divided between the addresses not tried.
Share == (Timeout - used) \div Cardinality(untried)
Attempt(i) ==
  LET remote == addresses[i]
      answers == remote.takes < Share
  IN /\ tried' = tried \cup {i}
     /\ used' = used + IF answers THEN remote.takes ELSE Share
     /\ dial' = IF answers /\ remote.accepts THEN "connected"
                ELSE IF untried = {i} \/ used' >= Timeout THEN "failed" ELSE "try"
\* The addresses are tried in the order the resolver gave them.
dialIPCandidates ==
  /\ dial = "try"
  /\ \E i \in untried : (\A j \in untried : i <= j) /\ Attempt(i)
  /\ UNCHANGED <<netType, addresses, resolved>>
\* The forwarder is closed while it dials.
Cancel ==
  /\ dial \in {"resolve", "try"} /\ dial' = "closed"
  /\ UNCHANGED <<netType, addresses, tried, used, resolved>>
NextDialing == LookupIPAddr \/ dialIPCandidates \/ Cancel
DialingSpec == InitDialing /\ [][NextDialing]_dialVars
---------------------------------------------------------------------------
\* "A blackholed first address must not consume the time reserved for reachable
\* alternatives": a dial fails only if no address of the family would have
\* accepted within an even share of the deadline, whatever the others did.
EvenShare == (Timeout - resolved) \div Cardinality(candidates)
ReachableReached ==
  dial = "failed" =>
    \A i \in candidates : addresses[i].accepts => addresses[i].takes >= EvenShare
=============================================================================
