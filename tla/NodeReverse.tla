---------------------------- MODULE NodeReverse ----------------------------
(***************************************************************************)
(* Reverse tunnels (nodeclient/reverse.go).  The exit dials the entrance   *)
(* and waits; the entrance pools such connections, a queue for each rule   *)
(* that outlives its forwarders, and takes one when a client asks.  Four   *)
(* clocks run apart: the exit waits 35 s for a request, the entrance does  *)
(* not take a connection older than 30 s, drops it after 40 s and lets a   *)
(* client wait for 5 s.  Time passes in ticks, of 5 s.                     *)
(***************************************************************************)
EXTENDS Naturals, Sequences, FiniteSets, SequencesExt

CONSTANTS
  Workers,  \* reverseWorker goroutines of the exits
  Clients,  \* clients of the rule at the entrance
  Pool,     \* capacity of the queue (32)
  TakeAge,  \* age up to which a connection is taken (30 s)
  ExitAge,  \* age at which the exit hangs up (35 s)
  DropAge,  \* age at which the entrance drops it (40 s)
  MaxConns, \* bound: connections made
  MaxEra    \* bound: forwarders the entrance's rule has had

ASSUME Clocks == /\ {TakeAge, ExitAge, DropAge} \subseteq Nat
                 /\ TakeAge < ExitAge /\ ExitAge < DropAge
ASSUME ReverseBounds == Pool \in Nat \ {0} /\ MaxConns \in Nat /\ MaxEra \in Nat \ {0}

VARIABLES
  era,    \* the rule's forwarder at the entrance
  pipes,  \* the connections: era (the forwarder that accepts it), age, near (open
          \* at the entrance), far ("open", "hung up", "died" at the exit), acquired
  queue,  \* engine.reverse[rule]
  worker, \* [worker -> 0 or its connection]
  fresh,  \* connections authenticated and not yet in the queue
  client  \* [client -> [pc, era, wait, pipe]]

reverseVars == <<era, pipes, queue, worker, fresh, client>>

Idle == [pc |-> "idle", era |-> 0, wait |-> 0, pipe |-> 0]
made == Len(pipes)

InitReverse ==
  /\ era = 1 /\ pipes = <<>> /\ queue = <<>> /\ fresh = {}
  /\ worker = [w \in Workers |-> 0]
  /\ client = [c \in Clients |-> Idle]

Pooled(p) == pipes[p].near /\ ~pipes[p].acquired /\ p \notin fresh
Shut(p) == [pipes EXCEPT ![p].near = FALSE]

---------------------------------------------------------------------------
\* reverseOnce dials, and the entrance authenticates it for the rule.
DialEntrance(w) ==
  /\ worker[w] = 0 /\ made < MaxConns
  /\ pipes' = Append(pipes, [era |-> era, age |-> 0, near |-> TRUE, far |-> "open", acquired |-> FALSE])
  /\ worker' = [worker EXCEPT ![w] = made + 1]
  /\ fresh' = fresh \cup {made + 1}
  /\ UNCHANGED <<era, queue, client>>

\* acceptReverse.  A full queue turns the connection away; a forwarder that is
\* closed may queue it all the same, and closes it.
acceptReverse(p) ==
  /\ p \in fresh /\ fresh' = fresh \ {p}
  /\ \/ /\ Len(queue) < Pool
        /\ queue' = Append(queue, p)
        /\ pipes' = IF pipes[p].era = era THEN pipes ELSE Shut(p)
     \/ /\ Len(queue) = Pool \/ pipes[p].era # era
        /\ pipes' = Shut(p)
        /\ UNCHANGED queue
  /\ UNCHANGED <<era, worker, client>>

\* The exit hangs up when no request came in time, or after the other end;
\* its worker dials again after a second.
HungUp(w) ==
  worker[w] # 0 /\ LET p == pipes[worker[w]] IN ~p.near \/ (p.age >= ExitAge /\ ~p.acquired)
HangUp(w) ==
  /\ HungUp(w)
  /\ pipes' = [pipes EXCEPT ![worker[w]].far = "hung up"]
  /\ worker' = [worker EXCEPT ![w] = 0]
  /\ UNCHANGED <<era, queue, fresh, client>>

\* The exit's host dies without a word, and comes back.
Die(w) ==
  /\ worker[w] # 0 /\ pipes[worker[w]].near
  /\ pipes' = [pipes EXCEPT ![worker[w]].far = "died"]
  /\ worker' = [worker EXCEPT ![w] = 0]
  /\ UNCHANGED <<era, queue, fresh, client>>

\* acceptReverse again: nobody took it for 40 s.
Overdue(p) == Pooled(p) /\ pipes[p].age >= DropAge
DropPooled(p) ==
  /\ Overdue(p)
  /\ pipes' = Shut(p)
  /\ UNCHANGED <<era, queue, worker, fresh, client>>

\* Apply replaces the rule: its forwarder's connections are closed, and those
\* in the queue stay there, but for the ones it is still accepting.
Replace ==
  /\ era < MaxEra /\ era' = era + 1
  /\ pipes' = [p \in 1..made |-> [pipes[p] EXCEPT !.near = @ /\ p \in fresh]]
  /\ UNCHANGED <<queue, worker, fresh, client>>

---------------------------------------------------------------------------
\* openReverse

Ask(c) ==
  /\ client[c].pc = "idle"
  /\ client' = [client EXCEPT ![c] = [pc |-> "wait", era |-> era, wait |-> 0, pipe |-> 0]]
  /\ UNCHANGED <<era, pipes, queue, worker, fresh>>

\* A queue that is not empty and a context that is done are both ready to the
\* select, which takes either.
Usable_Late(p) == pipes[p].age <= ExitAge  \* Mutant: as long as the exit waits
Usable(p) == pipes[p].age <= TakeAge
Take(c) ==
  LET p == Head(queue) IN
  /\ client[c].pc = "wait" /\ queue # <<>>
  /\ queue' = Tail(queue)
  /\ IF Usable(p)
     THEN /\ pipes' = [pipes EXCEPT ![p].acquired = TRUE]
          /\ client' = [client EXCEPT ![c].pc = "ask", ![c].pipe = p]
     ELSE pipes' = Shut(p) /\ UNCHANGED client
  /\ UNCHANGED <<era, worker, fresh>>

GiveUpWaiting(c) ==
  /\ client[c].pc = "wait"
  /\ client[c].wait >= 1 \/ client[c].era # era
  /\ client' = [client EXCEPT ![c] = Idle]
  /\ UNCHANGED <<era, pipes, queue, worker, fresh>>

\* The other end answers; or the connection is closed or says nothing for
\* 5 s, and the next one is tried.
Answer(c) ==
  /\ client[c].pc = "ask"
  /\ pipes[client[c].pipe].near /\ pipes[client[c].pipe].far = "open"
  /\ client' = [client EXCEPT ![c].pc = "served"]
  /\ UNCHANGED <<era, pipes, queue, worker, fresh>>
NoAnswer(c) ==
  /\ client[c].pc = "ask"
  /\ ~pipes[client[c].pipe].near \/ pipes[client[c].pipe].far = "hung up" \/ client[c].wait >= 2
  /\ pipes' = Shut(client[c].pipe)
  /\ client' = [client EXCEPT ![c].pc = "wait", ![c].pipe = 0]
  /\ UNCHANGED <<era, queue, worker, fresh>>

\* The client is done, or the forwarder that served it is closed.
FinishServed(c) ==
  /\ client[c].pc = "served"
  /\ pipes' = Shut(client[c].pipe)
  /\ client' = [client EXCEPT ![c] = Idle]
  /\ UNCHANGED <<era, queue, worker, fresh>>

\* Time passes when every clock that is due has rung.
Tick ==
  /\ fresh = {} /\ \A p \in 1..made : ~Overdue(p)
  /\ \A w \in Workers : ~HungUp(w)
  /\ \A c \in Clients : /\ client[c].pc = "wait" => (client[c].wait < 1 /\ queue = <<>>)
                        /\ client[c].pc = "ask" => (client[c].wait < 2 /\ pipes[client[c].pipe].near)
  /\ pipes' = [p \in 1..made |-> [pipes[p] EXCEPT !.age = IF Pooled(p) THEN @ + 1 ELSE @]]
  /\ client' = [c \in Clients |-> IF client[c].pc \in {"wait", "ask"}
                                  THEN [client[c] EXCEPT !.wait = @ + 1] ELSE client[c]]
  /\ UNCHANGED <<era, queue, worker, fresh>>

ServeClient(c) == Take(c) \/ GiveUpWaiting(c) \/ Answer(c) \/ NoAnswer(c)
NextReverse ==
  \/ \E w \in Workers : DialEntrance(w) \/ HangUp(w) \/ Die(w)
  \/ \E p \in 1..made : acceptReverse(p) \/ DropPooled(p)
  \/ \E c \in Clients : Ask(c) \/ ServeClient(c) \/ FinishServed(c)
  \/ Replace \/ Tick

ReverseSpec == InitReverse /\ [][NextReverse]_reverseVars
\* Every select and read returns when it can.
FairReverse ==
  /\ WF_reverseVars(Tick)
  /\ WF_reverseVars(\E p \in 1..made : acceptReverse(p) \/ DropPooled(p))
  /\ \A w \in Workers : WF_reverseVars(HangUp(w))
  /\ \A c \in Clients : WF_reverseVars(ServeClient(c)) /\ WF_reverseVars(FinishServed(c))

---------------------------------------------------------------------------
\* Properties

\* The queue never takes what it cannot hold, and no connection is in it twice.
TypeReverse ==
  /\ Len(queue) <= Pool /\ IsInjective(queue) /\ Range(queue) \subseteq 1..made
  /\ \A w \in Workers : worker[w] \in 0..made
  /\ \A c \in Clients : client[c].pc \in {"idle", "wait", "ask", "served"}

\* A connection serves one client, and one taken is still listened to at the
\* other end, unless the host died: the exit's clock never beats the pool's,
\* however long the queue held the connection.
TakenListens ==
  /\ \A c \in Clients : client[c].pc = "ask" /\ pipes[client[c].pipe].near =>
       pipes[client[c].pipe].far # "hung up"
  /\ \A c, d \in Clients : client[c].pipe = client[d].pipe /\ client[c].pipe # 0 => c = d

\* A client is never served over a connection that was accepted by a
\* forwarder older than its own, though those stay in the queue.
ServedByOwn ==
  \A c \in Clients : client[c].pc = "served" => pipes[client[c].pipe].era >= client[c].era

\* A client is served or told that it is not, whatever is in the queue.
Answered == \A c \in Clients : client[c].pc \in {"wait", "ask"} ~> client[c].pc \in {"served", "idle"}

\* What the pool hands out is alive, served once and not older than who asked.
ReverseServes == TypeReverse /\ TakenListens /\ ServedByOwn
=============================================================================
