--------------------------- MODULE IngressLimits ---------------------------
(***************************************************************************)
(* The limits of one rule of one user at its ingress (LimitService) and    *)
(* the sessions its connections are counted in (TrafficService): a request *)
(* is checked, opens its connection and its session, sends, and closes     *)
(* both.  Each table has a lock of its own, and a session is written to    *)
(* the database after its lock is released.                                *)
(***************************************************************************)
EXTENDS Naturals, FiniteSets, FiniteSetsExt, Functions, TLC
CONSTANTS
  Slots,     \* the connections that may be open at once, numbered
  Clients,      \* where they come from: records [ip, device]
  LimitSpecs,   \* the limits of the rule and of its user; a limit of 0 is none
  IPWindow, IdleTimeout,                   \* times of the code, in ticks
  MaxTime, MaxOpens, MaxEvents   \* bounds of an instance; events are touches, failed writes, restarts
ASSUME IngressTimes == IPWindow \in Nat \ {0} /\ IdleTimeout \in Nat /\ IPWindow <= IdleTimeout
ASSUME RequestsNumbered == Slots \subseteq Nat
ASSUME LimitsNumbered ==
  LimitSpecs \subseteq
    [ruleIPs : Nat, userIPs : Nat, userDevices : Nat, ruleConns : Nat, userConns : Nat,
     ruleRate : Nat, userRate : Nat, disabled : BOOLEAN, used : BOOLEAN]
ASSUME IngressBounds == {MaxTime, MaxOpens, MaxEvents} \subseteq Nat

VARIABLES
  spec,        \* the limits, as read for a request
  now,         \* the clock
  ips, devices, \* what was seen: key -> [First, Last, Conns]
  limiter,     \* the bucket of the rule and of the user -> [rate, touched]
  sessions,    \* in memory: client -> [ID, ConnCount, LastSeen]
  rows,        \* the table of sessions: id -> [client, conns, seen]
  request,     \* how far each request is
  overlapped,       \* two requests were in the middle of something together
  opened, touches, lost   \* what the bounds count
ingressVars == <<spec, now, ips, devices, limiter, sessions, rows, request, overlapped, opened, touches, lost>>
seenTables == <<ips, devices>>
counters == <<opened, touches, lost>>

\* minInt: the stricter of two limits, where 0 is none.
minInt(a, b) == IF a = 0 THEN b ELSE IF b = 0 \/ a < b THEN a ELSE b
LimitOver(limit, value) == limit > 0 /\ value >= limit
WithIt(f, key, value) == [k \in DOMAIN f \cup {key} |-> IF k = key THEN value ELSE f[k]]
Dropping(f, gone) == [k \in DOMAIN f \ gone |-> f[k]]
Unused == [pc |-> "idle", client |-> CHOOSE c \in Clients : TRUE, id |-> 0, conns |-> 0]
Connected(c) == [Unused EXCEPT !.pc = "connected", !.client = c]
Between == {"idle", "connected"}
SomeoneElse(r) == \E q \in Slots \ {r} : request[q].pc \notin Between
---------------------------------------------------------------------------
InitIngress ==
  /\ spec \in LimitSpecs /\ now = 0
  /\ ips = <<>> /\ devices = <<>> /\ limiter = <<>> /\ sessions = <<>> /\ rows = <<>>
  /\ request = [r \in Slots |-> Unused] /\ overlapped = FALSE
  /\ opened = 0 /\ touches = 0 /\ lost = 0
---------------------------------------------------------------------------
\* pruneIPs: an address leaves the window a window after it FIRST came.
prune(table) ==
  Dropping(table, { k \in DOMAIN table :
                     table[k].Conns = 0 /\ now - table[k].First >= IPWindow })
\* AllowIP and AllowDevice: the table afterwards, and the answer.  Dropping a
\* limit nothing is looked at.  A key already there is always let in.
Allow(table, key, limit) ==
  IF limit = 0 THEN [table |-> table, ok |-> TRUE]
  ELSE LET left == prune(table)
       IN IF key \in DOMAIN left
          THEN [table |-> [left EXCEPT ![key].Last = now], ok |-> TRUE]
          ELSE [table |-> left, ok |-> Cardinality(DOMAIN left) < limit]
\* A sum of counts: what they count, one by one.
SumOf(count) == Cardinality(UNION { {k} \X (1..count[k]) : k \in DOMAIN count })
AccountConnections == SumOf([c \in DOMAIN sessions |-> sessions[c].ConnCount])
\* acquire: a rate that changed is a new bucket; whether it has tokens left
\* is anybody's guess.
acquire(buckets, key, rate) == WithIt(buckets, key, [rate |-> rate, touched |-> now])
Buckets(udp) ==
  IF udp THEN <<>> ELSE (IF spec.ruleRate > 0 THEN "rule" :> spec.ruleRate ELSE <<>>) @@
                        (IF spec.userRate > 0 THEN "user" :> spec.userRate ELSE <<>>)
CheckIngress(r, c, udp) ==
  LET byIP == Allow(ips, c.ip, minInt(spec.ruleIPs, spec.userIPs))
      byDevice == Allow(devices, c.device, spec.userDevices)
      welcome == /\ ~spec.disabled /\ ~spec.used
                 /\ ~LimitOver(minInt(spec.ruleConns, spec.userConns), AccountConnections)
      asked == Buckets(udp)
  IN /\ r = Min({ q \in Slots : request[q].pc = "idle" })   \* any free one: they are alike
     /\ opened < MaxOpens /\ opened' = opened + 1
     /\ ips' = IF welcome THEN byIP.table ELSE ips
     /\ devices' = IF welcome /\ byIP.ok THEN byDevice.table ELSE devices
     /\ \E enough \in [DOMAIN asked -> BOOLEAN] :
          LET inBucket == IF "rule" \in DOMAIN enough /\ ~enough["rule"]
                          THEN {"rule"} ELSE DOMAIN asked
              passed == welcome /\ byIP.ok /\ byDevice.ok
          IN /\ limiter' = IF passed THEN [k \in inBucket |-> [rate |-> asked[k], touched |-> now]]
                                          @@ limiter ELSE limiter
             /\ request' = IF passed /\ \A k \in DOMAIN enough : enough[k]
                           THEN [request EXCEPT ![r].pc = "admitted", ![r].client = c]
                           ELSE request
             /\ overlapped' = (overlapped \/ SomeoneElse(r))
     /\ UNCHANGED <<spec, now, sessions, rows, touches, lost>>
---------------------------------------------------------------------------
Entry(table, key) ==
  IF key \in DOMAIN table THEN table[key] ELSE [First |-> now, Last |-> now, Conns |-> 0]
OneMore(table, key) ==
  WithIt(table, key, [Entry(table, key) EXCEPT !.Conns = @ + 1, !.Last = now])
OneLess(table, key) ==
  IF key \notin DOMAIN table THEN table
  ELSE [table EXCEPT ![key].Conns = IF @ > 0 THEN @ - 1 ELSE 0, ![key].Last = now]
OpenConn(r) ==
  /\ request[r].pc = "admitted" /\ request' = [request EXCEPT ![r].pc = "counted"]
  /\ ips' = OneMore(ips, request[r].client.ip)
  /\ devices' = OneMore(devices, request[r].client.device)
  /\ UNCHANGED <<spec, now, limiter, sessions, rows, overlapped, counters>>
CloseConn(r) ==
  /\ request[r].pc = "closed" /\ request' = [request EXCEPT ![r] = Unused]
  /\ ips' = OneLess(ips, request[r].client.ip)
  /\ devices' = OneLess(devices, request[r].client.device)
  /\ UNCHANGED <<spec, now, limiter, sessions, rows, overlapped, counters>>
---------------------------------------------------------------------------
\* OpenSession counts in memory, saves a copy of what it counted, and only
\* then tells the memory which row that is: 0 is none yet.
OpenSession(r) ==
  LET c == request[r].client
      st == IF c \in DOMAIN sessions THEN sessions[c] ELSE [ID |-> 0, ConnCount |-> 0, LastSeen |-> now]
  IN /\ request[r].pc = "counted"
     /\ sessions' = WithIt(sessions, c, [st EXCEPT !.ConnCount = @ + 1, !.LastSeen = now])
     /\ request' = [request EXCEPT ![r].pc = "saving", ![r].id = st.ID,
                                   ![r].conns = st.ConnCount + 1]
     /\ UNCHANGED <<spec, now, seenTables, limiter, rows, overlapped, counters>>
SaveSession(r) ==
  LET id == IF request[r].id > 0 THEN request[r].id ELSE Max(DOMAIN rows \cup {0}) + 1
  IN /\ request[r].pc = "saving"
     /\ \/ /\ rows' = WithIt(rows, id, [client |-> request[r].client,
                                        conns |-> request[r].conns, seen |-> now])
           /\ request' = [request EXCEPT ![r].pc = "saved", ![r].id = id, ![r].conns = 0]
           /\ lost' = lost
        \/ \* the write fails, which nobody hears of
           /\ touches + lost < MaxEvents /\ lost' = lost + 1 /\ rows' = rows
           /\ request' = [request EXCEPT ![r] = Connected(request[r].client)]
     /\ UNCHANGED <<spec, now, seenTables, limiter, sessions, overlapped, opened, touches>>
SetID(r) ==
  LET c == request[r].client
  IN /\ request[r].pc = "saved" /\ request' = [request EXCEPT ![r] = Connected(c)]
     /\ sessions' = IF c \in DOMAIN sessions
                    THEN [sessions EXCEPT ![c].ID = request[r].id] ELSE sessions
     /\ UNCHANGED <<spec, now, seenTables, limiter, rows, overlapped, counters>>
\* A touch counts as one more connection, in memory and in the row.
TouchSession(r) ==
  LET c == request[r].client
  IN /\ request[r].pc = "connected" /\ c \in DOMAIN sessions
     /\ touches + lost < MaxEvents /\ touches' = touches + 1
     /\ sessions' = [sessions EXCEPT ![c].ConnCount = @ + 1, ![c].LastSeen = now]
     /\ request' = [request EXCEPT ![r].pc = IF sessions[c].ID = 0 THEN "connected" ELSE "touching",
                                   ![r].id = sessions[c].ID]
     /\ overlapped' = (overlapped \/ SomeoneElse(r))
     /\ UNCHANGED <<spec, now, seenTables, limiter, rows, opened, lost>>
CloseSession(r) ==
  LET c == request[r].client
      id == IF c \in DOMAIN sessions THEN sessions[c].ID ELSE 0
  IN /\ request[r].pc = "connected"
     /\ sessions' = IF c \notin DOMAIN sessions THEN sessions
                    ELSE IF sessions[c].ConnCount <= 1 THEN Dropping(sessions, {c})
                    ELSE [sessions EXCEPT ![c].ConnCount = @ - 1, ![c].LastSeen = now]
     /\ request' = [request EXCEPT ![r].pc = IF id = 0 THEN "closed" ELSE "closing", ![r].id = id]
     /\ overlapped' = (overlapped \/ SomeoneElse(r))
     /\ UNCHANGED <<spec, now, seenTables, limiter, rows, counters>>
\* The row a touch or a close changes, one up or one down; no row, no change.
UpdateRow(r, change) ==
  LET id == request[r].id
  IN IF id \notin DOMAIN rows THEN rows
     ELSE [rows EXCEPT ![id].seen = now,
                       ![id].conns = IF change = "up" THEN @ + 1 ELSE IF @ > 0 THEN @ - 1 ELSE 0]
Updated(r) ==
  /\ request[r].pc \in {"touching", "closing"}
  /\ request' = [request EXCEPT ![r].pc = IF @ = "touching" THEN "connected" ELSE "closed",
                                ![r].id = 0]
  /\ \/ rows' = UpdateRow(r, IF request[r].pc = "touching" THEN "up" ELSE "down") /\ lost' = lost
     \/ touches + lost < MaxEvents /\ lost' = lost + 1 /\ rows' = rows
  /\ UNCHANGED <<spec, now, seenTables, limiter, sessions, overlapped, opened, touches>>
---------------------------------------------------------------------------
\* Cleanup, of the limiters and of the seenTables.  An address goes a window
\* after it was LAST seen.
Cleanup_Busy ==
  /\ limiter' = Dropping(limiter, { k \in DOMAIN limiter : now - limiter[k].touched > IdleTimeout })
  /\ ips' = Dropping(ips, { k \in DOMAIN ips : now - ips[k].Last > IPWindow })
  /\ devices' = Dropping(devices, { k \in DOMAIN devices :
                  devices[k].Conns = 0 /\ now - devices[k].Last > IPWindow })
  /\ UNCHANGED <<spec, now, sessions, rows, request, overlapped, counters>>
Cleanup ==
  /\ limiter' = Dropping(limiter, { k \in DOMAIN limiter : now - limiter[k].touched > IdleTimeout })
  /\ ips' = Dropping(ips, { k \in DOMAIN ips :
              ips[k].Conns = 0 /\ now - ips[k].Last > IPWindow })
  /\ devices' = Dropping(devices, { k \in DOMAIN devices :
                  devices[k].Conns = 0 /\ now - devices[k].Last > IPWindow })
  /\ UNCHANGED <<spec, now, sessions, rows, request, overlapped, counters>>
\* CleanupSessions, as long as the table is below its capacity.
CleanupSessions ==
  /\ sessions' = Dropping(sessions, { c \in DOMAIN sessions :
                   sessions[c].ConnCount = 0 /\ now - sessions[c].LastSeen > IdleTimeout })
  /\ rows' = Dropping(rows, { id \in DOMAIN rows :
               rows[id].conns = 0 /\ now - rows[id].seen > IdleTimeout })
  /\ UNCHANGED <<spec, now, seenTables, limiter, request, overlapped, counters>>
\* The process ends with its connections; RebuildSessions reads back the rows
\* of the last while, those of connections that are gone included.
RebuildSessions ==
  LET fresh == { id \in DOMAIN rows : rows[id].conns > 0 /\ now - rows[id].seen <= IdleTimeout }
      of(c) == { id \in fresh : rows[id].client = c }
  IN /\ touches + lost < MaxEvents /\ lost' = lost + 1
     /\ sessions' = [c \in { rows[id].client : id \in fresh } |->
                       [ID |-> Min(of(c)), LastSeen |-> rows[Min(of(c))].seen,
                        ConnCount |-> SumOf([id \in of(c) |-> rows[id].conns])]]
     /\ ips' = <<>> /\ devices' = <<>> /\ limiter' = <<>>
     /\ request' = [r \in Slots |-> Unused]
     /\ UNCHANGED <<spec, now, rows, overlapped, opened, touches>>
\* A tick is minutes: nothing a request does takes one.
Tick ==
  /\ now < MaxTime /\ now' = now + 1
  /\ \A r \in Slots : request[r].pc \in Between
  /\ UNCHANGED <<spec, seenTables, limiter, sessions, rows, request, overlapped, counters>>
Handled(r) ==
  \/ /\ request[r].pc = "idle"
     /\ \E c \in Clients, udp \in BOOLEAN : CheckIngress(r, c, udp)
  \/ OpenConn(r) \/ OpenSession(r) \/ SaveSession(r) \/ SetID(r)
  \/ TouchSession(r) \/ CloseSession(r) \/ Updated(r) \/ CloseConn(r)
NextIngress ==
  \/ \E r \in Slots : Handled(r)
  \/ Cleanup \/ CleanupSessions \/ RebuildSessions \/ Tick
IngressSpec == InitIngress /\ [][NextIngress]_ingressVars
---------------------------------------------------------------------------
Registered == { r \in Slots : request[r].pc \notin {"idle", "admitted"} }
From(kind, key) == { r \in Registered : request[r].client[kind] = key }
\* The connections of an address and of a device are those really open, so
\* an open connection keeps its place whatever time passes and whatever is
\* cleaned up, and a closed one leaves it.
CountsOpen ==
  /\ \A c \in Clients :
       /\ Entry(ips, c.ip).Conns = Cardinality(From("ip", c.ip))
       /\ Entry(devices, c.device).Conns = Cardinality(From("device", c.device))
  /\ \A r \in Registered : request[r].client.ip \in DOMAIN ips
\* Slots served one after the other never have more addresses, devices or
\* connections than the stricter of the two limits; two checked together may.
Limited(limit, n) == limit = 0 \/ n <= limit
SeenWithin ==
  ~overlapped =>
    /\ Limited(minInt(spec.ruleIPs, spec.userIPs), Cardinality({request[r].client.ip : r \in Registered}))
    /\ Limited(spec.userDevices, Cardinality({request[r].client.device : r \in Registered}))
ConnsWithin ==
  ~overlapped => Limited(minInt(spec.ruleConns, spec.userConns), Cardinality(Registered))
WithinLimits == SeenWithin /\ ConnsWithin
\* What the table of sessions shows is what is counted in memory, while nobody
\* writes to it, no write failed and no two requests overlapped: one row for a
\* client, with its connections and the row its session knows of.
RowsAgree ==
  (~overlapped /\ lost = 0 /\ \A r \in Slots : request[r].pc \in Between) =>
     /\ \A id \in DOMAIN rows :
          rows[id].conns > 0 => /\ rows[id].client \in DOMAIN sessions
                                /\ sessions[rows[id].client].ID = id
     /\ \A c \in DOMAIN sessions :
          /\ sessions[c].ID \in DOMAIN rows
          /\ rows[sessions[c].ID].conns = sessions[c].ConnCount
\* The limits of an ingress are strict, and counted right.
IngressStrict == CountsOpen /\ WithinLimits /\ RowsAgree
=============================================================================
