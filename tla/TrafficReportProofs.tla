------------------------- MODULE TrafficReportProofs -------------------------
(***************************************************************************)
(* Theorems about the two sides of TrafficService, for every value of the   *)
(* constants: first the reports of traffic (TrafficReport), then the        *)
(* connections a rule lets in and the sessions they count in                *)
(* (IngressLimits).                                                         *)
(***************************************************************************)
EXTENDS TrafficReport, IngressLimits, FiniteSetTheorems, WellFoundedInduction, TLAPS

\* An edit still to be followed by its bump has a version left to bump to.
BumpPossible == edited => version < MaxVersion

\* There is a batch while it is saved and sent, a call only while waiting, and a
\* stopped client does neither.
Busy ==
  /\ pc \in {"save", "send", "wait"} => outbox # NoBatch
  /\ call # "none" => pc = "wait"
  /\ ~up => pc = "register"

TypeInv == TypeOK /\ BumpPossible /\ Busy

\* Waiting traffic was recorded, and a batch carries the version and the hour
\* its traffic was recorded with.
Attributed ==
  /\ samples \cup pending \cup diskPending \subseteq Forwarded
  /\ \A b \in Known : \A c \in b.chunks :
       c \in Forwarded /\ meta[c].version = b.version /\ meta[c].hour = b.hour

-----------------------------------------------------------------------------
(* Type correctness. *)

LEMMA InitType == Init => TypeInv
<1> SUFFICES ASSUME Init PROVE TypeInv
  OBVIOUS
<1> USE TrafficReportAssumption DEF Init
<1>1. 0 \in Versions /\ 0 \in Hours /\ 0 \in 0 .. MaxCrashes /\ 0 \in 0 .. MaxAttempts - 1
  BY DEF Versions, Hours
<1>2. charges \in [Chunks -> Nat] /\ policy \in [Versions -> [Rules -> Users] \cup {NoPolicy}]
  OBVIOUS
<1>3. DOMAIN meta = {}
  OBVIOUS
<1> QED BY <1>1, <1>2, <1>3 DEF TypeInv, TypeOK, BumpPossible, Busy

\* All rows of one bucket have its hour and version.
LEMMA BucketKey ==
  ASSUME TypeOK, NEW S \in SUBSET Forwarded,
         NEW c \in nextTrafficBucket(S), NEW d \in nextTrafficBucket(S)
  PROVE  meta[c].hour = meta[d].hour /\ meta[c].version = meta[d].version
<1>1. c \in Forwarded /\ d \in Forwarded
  BY DEF nextTrafficBucket, Eligible
<1>2. /\ meta[c].hour \in Int /\ meta[d].hour \in Int
      /\ meta[c].version \in Int /\ meta[d].version \in Int
  BY SMTT(30), <1>1, TrafficReportAssumption DEF TypeOK, Forwarded, Metas, Hours, Versions
<1>3. Earlier(c, d) /\ Earlier(d, c)
  BY DEF nextTrafficBucket
<1> QED BY <1>2, <1>3 DEF Earlier

\* Applying a configuration leaves forwarders running.
LEMMA ApplyType ==
  ASSUME running \subseteq Forwarders, NEW cfg \in Configs, NEW rebuilt \in SUBSET Rules
  PROVE  Apply(cfg, rebuilt) \subseteq Forwarders
  BY DEF Apply, Forwarders, Configs

\* The batch that formBatch freezes.
LEMMA FormBatchType ==
  ASSUME TypeOK, Attributed, NEW id \in Ids, formBatch(id)
  PROVE  /\ outbox' \in Batches /\ outbox'.id = id
         /\ outbox'.chunks = nextTrafficBucket(pending \cup samples)
         /\ \A c \in outbox'.chunks :
              c \in Forwarded /\ meta[c].version = outbox'.version /\ meta[c].hour = outbox'.hour
<1> DEFINE bucket == nextTrafficBucket(pending \cup samples)
           pick   == CHOOSE c \in bucket : TRUE
<1>1. bucket \subseteq pending \cup samples /\ bucket \subseteq Forwarded
  BY DEF nextTrafficBucket, Eligible, Attributed
<1>2. bucket # {} => pick \in bucket /\ meta[pick].version \in Versions /\ meta[pick].hour \in Hours
  BY <1>1 DEF TypeOK, Forwarded, Metas
<1>3. outbox' = [id      |-> id,
                 version |-> IF bucket = {} THEN configVersion ELSE meta[pick].version,
                 hour    |-> IF bucket = {} THEN hour ELSE meta[pick].hour,
                 chunks  |-> bucket]
  BY DEF formBatch
<1>4. outbox' \in Batches
  BY <1>1, <1>2, <1>3 DEF Batches, TypeOK
<1>5. \A c \in bucket : meta[c].hour = meta[pick].hour /\ meta[c].version = meta[pick].version
  <2> SUFFICES ASSUME NEW c \in bucket
               PROVE  meta[c].hour = meta[pick].hour /\ meta[c].version = meta[pick].version
    OBVIOUS
  <2>1. pending \cup samples \in SUBSET Forwarded
    BY DEF Attributed
  <2> QED BY <1>2, <2>1, BucketKey
<1> QED BY <1>1, <1>3, <1>4, <1>5

\* What the report handler writes.
LEMMA RecordType ==
  ASSUME TypeOK, Attributed, NEW b \in Known, b \in Batches, RecordNodeReport(b)
  PROVE  /\ receipts' \subseteq Batches
         /\ charges' \in [Chunks -> Nat]
         /\ ledger' \subseteq [chunk : Chunks, user : Users, hour : Hours]
<1>1. CASE UNCHANGED ledgerVars
  BY <1>1 DEF ledgerVars, TypeOK
<1>2. CASE ~ UNCHANGED ledgerVars
  <2>1. /\ Chargeable(b)
        /\ receipts' = receipts \cup {b}
        /\ charges' = [c \in Chunks |-> IF c \in b.chunks THEN charges[c] + 1 ELSE charges[c]]
        /\ ledger' = ledger \cup {[chunk |-> c, user |-> ChargedUser(c, b), hour |-> b.hour] :
                                    c \in b.chunks}
    BY <1>2 DEF RecordNodeReport
  <2>2. b.version \in Versions /\ b.hour \in Hours /\ b.chunks \subseteq Chunks
    BY DEF Batches
  <2>3. ASSUME NEW c \in b.chunks PROVE ChargedUser(c, b) \in Users
    <3>1. meta[c].rule \in Rules
      BY DEF Attributed, TypeOK, Forwarded, Metas
    <3>2. policy[b.version] \in [Rules -> Users] \cup {NoPolicy}
      BY <2>2 DEF TypeOK
    <3> QED BY <3>1, <3>2 DEF ChargedUser, TypeOK
  <2>4. charges' \in [Chunks -> Nat]
    BY <2>1 DEF TypeOK
  <2>5. ledger' \subseteq [chunk : Chunks, user : Users, hour : Hours]
    BY <2>1, <2>2, <2>3 DEF TypeOK
  <2> QED BY <2>1, <2>4, <2>5 DEF TypeOK
<1> QED BY <1>1, <1>2

\* Every step keeps the types.
LEMMA NextType == TypeInv /\ Attributed /\ [Next]_vars => TypeInv'
<1> SUFFICES ASSUME TypeInv, Attributed, [Next]_vars PROVE TypeInv'
  OBVIOUS
<1> USE TrafficReportAssumption
<1> USE DEF TypeInv, TypeOK, BumpPossible, Busy, engineVars, reportVars, journalVars, ruleVars,
            ledgerVars, netVars, histVars
<1>1. ASSUME NEW r \in Rules, NEW u \in Users, TransferRule(r, u) PROVE TypeInv'
  BY <1>1 DEF TransferRule
<1>2. CASE BumpConfigVersion
  <2>1. version \in Nat /\ version < MaxVersion
    BY <1>2 DEF BumpConfigVersion, Versions
  <2>2. version + 1 \in Versions
    BY <2>1 DEF Versions
  <2> QED BY <1>2, <2>2 DEF BumpConfigVersion
<1>3. ASSUME NEW ok \in BOOLEAN, NEW saved \in BOOLEAN, NEW cached \in BOOLEAN,
             NEW rebuilt \in SUBSET Rules, apply(ok, rebuilt, saved, cached)
      PROVE  TypeInv'
  <2> DEFINE cfg == [version |-> version, users |-> owner]
  <2>1. cfg \in Configs
    BY DEF Configs
  <2>2. Apply(cfg, rebuilt) \subseteq Forwarders
    BY <2>1, ApplyType
  <2>3. /\ running' \subseteq Forwarders /\ closing' \subseteq Forwarders
        /\ effective' \in Configs \cup {NoConfig}
        /\ diskConfig' \in Configs \cup {NoConfig}
    BY <1>3, <2>1, <2>2 DEF apply
  <2>4. policy' \in [Versions -> [Rules -> Users] \cup {NoPolicy}]
    BY <1>3 DEF apply, saveTrafficPolicies
  <2> QED BY <1>3, <2>3, <2>4 DEF apply, Checkpoint
<1>4. ASSUME NEW c \in Chunks, NEW f \in running \cup closing, recordTraffic(c, f)
      PROVE  TypeInv'
  BY <1>4 DEF recordTraffic, Forwarded, Metas, Forwarders
<1>5. ASSUME NEW saved \in BOOLEAN, checkpointTraffic(saved) PROVE TypeInv'
  BY <1>5 DEF checkpointTraffic, Checkpoint
<1>6. ASSUME NEW id \in Ids, formBatch(id) PROVE TypeInv'
  <2>1. outbox' \in Batches
    BY <1>6, FormBatchType
  <2>2. results' \in BOOLEAN /\ pending' \subseteq Chunks /\ samples' = {}
    BY <1>6 DEF formBatch
  <2> QED BY <1>6, <2>1, <2>2 DEF formBatch
<1>7. CASE retryBatch
  BY <1>7 DEF retryBatch
<1>8. CASE saveBeforeSend
  BY <1>8 DEF saveBeforeSend
<1>9. CASE saveFails
  BY <1>9 DEF saveFails
<1>10. CASE send
  BY <1>10 DEF send
<1>11. CASE receiveAck
  BY <1>11 DEF receiveAck
<1>12. CASE saveAfterAck
  BY <1>12 DEF saveAfterAck
<1>13. ASSUME NEW reaches \in BOOLEAN, requestFails(reaches) PROVE TypeInv'
  BY <1>13 DEF requestFails, Abandon
<1>14. CASE handleReport
  <2>1. outbox \in Known /\ outbox \in Batches
    BY <1>14 DEF handleReport, Known
  <2> QED BY <1>14, <2>1, RecordType DEF handleReport
<1>15. ASSUME NEW b \in late, handleLateReport(b) PROVE TypeInv'
  <2>1. b \in Known /\ b \in Batches
    BY <1>15 DEF handleLateReport, Known
  <2> QED BY <1>15, <2>1, RecordType DEF handleLateReport
<1>16. ASSUME NEW saved \in BOOLEAN, NEW reaches \in BOOLEAN, Exit(saved, reaches) PROVE TypeInv'
  <2>1. late' \subseteq Batches
    BY <1>16 DEF Exit, Abandon
  <2>2. crashes' \in 0 .. MaxCrashes
    BY <1>16 DEF Exit
  <2>3. diskOutbox' \in Batches \cup {NoBatch} /\ diskPending' \subseteq Chunks
    BY <1>16 DEF Exit
  <2>4. 0 \in Versions /\ 0 \in 0 .. MaxAttempts - 1
    BY DEF Versions
  <2> QED BY <1>16, <2>1, <2>2, <2>3, <2>4 DEF Exit, Abandon
<1>17. ASSUME NEW ok \in BOOLEAN, Restart(ok) PROVE TypeInv'
  <2>1. diskConfig # NoConfig => /\ diskConfig \in Configs /\ diskConfig.version \in Versions
                                 /\ Apply(diskConfig, Rules) \subseteq Forwarders
    BY ApplyType DEF Configs
  <2>2. /\ running' \subseteq Forwarders /\ effective' \in Configs \cup {NoConfig}
        /\ configVersion' \in Versions /\ results' \in BOOLEAN
    BY <1>17, <2>1 DEF Restart
  <2> QED BY <1>17, <2>2 DEF Restart
<1>18. CASE NextHour
  BY <1>18 DEF NextHour, Hours
<1>19. CASE UNCHANGED vars
  BY <1>19 DEF vars
<1> QED
  BY SMTT(30), <1>1, <1>2, <1>3, <1>4, <1>5, <1>6, <1>7, <1>8, <1>9, <1>10, <1>11, <1>12, <1>13, <1>14,
     <1>15, <1>16, <1>17, <1>18, <1>19 DEF Next

-----------------------------------------------------------------------------
(* The inductive invariant. *)

\* Where traffic is: collected only once, in one batch at most, and what the
\* journal still holds as waiting is in no batch that was sent or saved.
OnePlace ==
  /\ samples \cap pending = {} /\ samples \cap Disk = {}
  /\ ImmutableBatch /\ NoSharedTraffic
  /\ \A b \in receipts \cup late \cup ({diskOutbox} \ {NoBatch}) : b.chunks \cap diskPending = {}

\* A batch is on disk while it is sent, and answered only when it is recorded.
Saved    == pc \in {"send", "wait"} => diskOutbox = outbox
Answered == call = "accepted" => outbox.chunks = {} \/ outbox \in receipts

\* Memory holds all that is still owed, or the process is down and holds nothing.
Recovered ==
  IF up THEN Disk \subseteq Memory \cup Billed
        ELSE samples = {} /\ pending = {} /\ outbox = NoBatch

\* The aggregates count exactly the batches with a receipt.
Counted == \A c \in Chunks : charges[c] = IF \E b \in receipts : c \in b.chunks THEN 1 ELSE 0

\* A request that was given up is still in the journal, or recorded.
LateKept == \A b \in late : b.chunks \subseteq Disk \cup Billed

\* Whatever a node runs, caches or recorded agrees with the saved policies.
Delivered ==
  /\ \A f \in running \cup closing :
       policy[f.version] # NoPolicy /\ policy[f.version][f.rule] = f.user
  /\ effective # NoConfig => policy[effective.version] = effective.users
  /\ diskConfig # NoConfig => policy[diskConfig.version] = diskConfig.users
  /\ \A c \in Forwarded :
       policy[meta[c].version] # NoPolicy /\ policy[meta[c].version][meta[c].rule] = meta[c].user

\* Every charge is for recorded traffic, to its owner and hour.
Rightful ==
  \A e \in ledger : /\ e.chunk \in Forwarded
                    /\ e.user = meta[e.chunk].user /\ e.hour = meta[e.chunk].hour

IInv ==
  /\ TypeInv /\ Attributed
  /\ OnePlace /\ Saved /\ Answered /\ Recovered /\ Counted /\ LateKept
  /\ Delivered /\ Rightful

-----------------------------------------------------------------------------
(* The parts of the invariant, one lemma each. *)

LEMMA InitInv == Init => IInv
<1> SUFFICES ASSUME Init PROVE IInv
  OBVIOUS
<1>1. TypeInv
  BY InitType
<1>2. /\ Known = {} /\ Disk = {} /\ Memory = {} /\ Billed = {} /\ Forwarded = {}
  BY DEF Init, Known, Disk, Memory, Billed, Forwarded, ChunksOf
<1>3. Attributed /\ OnePlace
  BY <1>2 DEF Init, Attributed, OnePlace, ImmutableBatch, NoSharedTraffic
<1>4. Saved /\ Answered /\ Recovered /\ Counted /\ LateKept
  BY <1>2 DEF Init, Saved, Answered, Recovered, Counted, LateKept
<1>5. Delivered /\ Rightful
  BY <1>2 DEF Init, Delivered, Rightful, Forwarded
<1> QED BY <1>1, <1>3, <1>4, <1>5 DEF IInv

\* Slots, and what is billed.
LEMMA Slot == ASSUME NEW s, s # NoBatch PROVE ChunksOf(s) = s.chunks
  BY DEF ChunksOf

\* What is billed is what the receipts hold.
LEMMA BilledByReceipt ==
  ASSUME Counted PROVE Billed = {c \in Chunks : \E b \in receipts : c \in b.chunks}
  BY DEF Counted, Billed

\* Traffic keeps the version and hour it was recorded with.
LEMMA AttributedNext == TypeInv /\ Attributed /\ [Next]_vars => Attributed'
<1> SUFFICES ASSUME TypeInv, Attributed, [Next]_vars PROVE Attributed'
  OBVIOUS
<1>1. CASE UNCHANGED <<samples, pending, diskPending, outbox, diskOutbox, receipts, late, meta>>
  BY <1>1 DEF Attributed, Known, Forwarded
<1>2. ASSUME NEW ok \in BOOLEAN, NEW saved \in BOOLEAN, NEW cached \in BOOLEAN,
             NEW rebuilt \in SUBSET Rules, apply(ok, rebuilt, saved, cached) PROVE Attributed'
  BY <1>2 DEF apply, Checkpoint, journalVars, ledgerVars, netVars, histVars, Attributed, Known,
     Forwarded
<1>3. ASSUME NEW c \in Chunks, NEW f \in running \cup closing, recordTraffic(c, f) PROVE Attributed'
  <2>1. /\ Forwarded' = Forwarded \cup {c} /\ \A x \in Forwarded : meta'[x] = meta[x]
    BY <1>3 DEF recordTraffic, Forwarded
  <2>2. Known' = Known
    BY <1>3 DEF recordTraffic, Known, journalVars, ledgerVars, netVars
  <2>3. samples' = samples \cup {c} /\ pending' = pending /\ diskPending' = diskPending
    BY <1>3 DEF recordTraffic, journalVars
  <2> QED BY <2>1, <2>2, <2>3 DEF Attributed
<1>4. ASSUME NEW saved \in BOOLEAN, checkpointTraffic(saved) PROVE Attributed'
  BY <1>4 DEF checkpointTraffic, Checkpoint, journalVars, ledgerVars, netVars, histVars, Attributed,
               Known, Forwarded
<1>5. ASSUME NEW id \in Ids, formBatch(id) PROVE Attributed'
  <2>1. Known' \subseteq Known \cup {outbox'}
    BY <1>5 DEF formBatch, Known, journalVars, ledgerVars, netVars
  <2>2. /\ \A c \in outbox'.chunks :
             c \in Forwarded /\ meta[c].version = outbox'.version /\ meta[c].hour = outbox'.hour
    BY <1>5, FormBatchType DEF TypeInv
  <2>3. meta' = meta /\ samples' = {} /\ pending' \subseteq pending \cup samples /\ diskPending' = diskPending
    BY <1>5 DEF formBatch, histVars, journalVars
  <2> QED BY <2>1, <2>2, <2>3 DEF Attributed, Forwarded
<1>6. CASE retryBatch
  BY <1>6 DEF retryBatch, journalVars, ledgerVars, netVars, histVars, Attributed, Known, Forwarded
<1>7. CASE saveBeforeSend
  BY <1>7 DEF saveBeforeSend, ledgerVars, netVars, histVars, Attributed, Known, Forwarded
<1>8. CASE receiveAck
  BY <1>8 DEF receiveAck, journalVars, ledgerVars, histVars, Attributed, Known, Forwarded
<1>9. CASE saveAfterAck
  BY <1>9 DEF saveAfterAck, ledgerVars, netVars, histVars, Attributed, Known, Forwarded
<1>10. ASSUME NEW reaches \in BOOLEAN, requestFails(reaches) PROVE Attributed'
  <2>1. Known' \subseteq Known
    BY <1>10 DEF requestFails, Abandon, Known, journalVars, ledgerVars, TypeInv, Busy
  <2> QED BY <1>10, <2>1 DEF requestFails, journalVars, histVars, Attributed, Forwarded
<1>11. CASE handleReport
  <2>1. outbox # NoBatch
    BY <1>11 DEF handleReport, TypeInv, Busy
  <2>2. Known' \subseteq Known
    BY <1>11, <2>1 DEF handleReport, RecordNodeReport, Known, ledgerVars, reportVars, journalVars
  <2> QED BY <1>11, <2>2 DEF handleReport, reportVars, journalVars, histVars, Attributed, Forwarded
<1>12. ASSUME NEW b \in late, handleLateReport(b) PROVE Attributed'
  <2>1. Known' \subseteq Known
    BY <1>12 DEF handleLateReport, RecordNodeReport, Known, ledgerVars, reportVars, journalVars
  <2> QED BY <1>12, <2>1 DEF handleLateReport, reportVars, journalVars, histVars, Attributed,
     Forwarded
<1>13. ASSUME NEW saved \in BOOLEAN, NEW reaches \in BOOLEAN, Exit(saved, reaches) PROVE Attributed'
  <2>1. Known' \subseteq Known
    BY <1>13 DEF Exit, Abandon, Known, journalVars, ledgerVars, TypeInv, Busy
  <2> QED BY <1>13, <2>1 DEF Exit, journalVars, Attributed, Forwarded
<1>14. ASSUME NEW ok \in BOOLEAN, Restart(ok) PROVE Attributed'
  BY <1>14 DEF Restart, journalVars, ledgerVars, netVars, histVars, Attributed, Known, Forwarded
<1> QED
  BY <1>1, <1>2, <1>3, <1>4, <1>5, <1>6, <1>7, <1>8, <1>9, <1>10, <1>11, <1>12, <1>13, <1>14 DEF
     Next, vars, engineVars, reportVars, journalVars, ruleVars, ledgerVars, netVars, histVars,
     TransferRule, BumpConfigVersion, saveFails, send, NextHour

\* A batch is on disk while it is sent.
LEMMA SavedNext == TypeInv /\ Saved /\ [Next]_vars => Saved'
<1> SUFFICES ASSUME TypeInv, Saved, [Next]_vars PROVE Saved'
  OBVIOUS
<1>1. CASE UNCHANGED <<pc, diskOutbox, outbox>>
  BY <1>1 DEF Saved
<1>2. ASSUME NEW ok \in BOOLEAN, NEW saved \in BOOLEAN, NEW cached \in BOOLEAN,
             NEW rebuilt \in SUBSET Rules, apply(ok, rebuilt, saved, cached) PROVE Saved'
  BY <1>2 DEF apply, Saved
<1>3. ASSUME NEW saved \in BOOLEAN, checkpointTraffic(saved) PROVE Saved'
  BY <1>3 DEF checkpointTraffic, Saved
<1>4. ASSUME NEW id \in Ids, formBatch(id) PROVE Saved'
  BY <1>4 DEF formBatch, Saved
<1>5. CASE retryBatch
  BY <1>5 DEF retryBatch, Saved
<1>6. CASE saveBeforeSend
  BY <1>6 DEF saveBeforeSend, Saved
<1>7. CASE saveFails
  BY <1>7 DEF saveFails, Saved
<1>8. CASE send
  BY <1>8 DEF send, journalVars, Saved
<1>9. CASE receiveAck
  BY <1>9 DEF receiveAck, Saved
<1>10. CASE saveAfterAck
  BY <1>10 DEF saveAfterAck, Saved
<1>11. ASSUME NEW reaches \in BOOLEAN, requestFails(reaches) PROVE Saved'
  BY <1>11 DEF requestFails, Saved
<1>12. ASSUME NEW saved \in BOOLEAN, NEW reaches \in BOOLEAN, Exit(saved, reaches) PROVE Saved'
  BY <1>12 DEF Exit, Saved
<1>13. ASSUME NEW ok \in BOOLEAN, Restart(ok) PROVE Saved'
  BY <1>13 DEF Restart, Saved, TypeInv, Busy
<1> QED
  BY <1>1, <1>2, <1>3, <1>4, <1>5, <1>6, <1>7, <1>8, <1>9, <1>10, <1>11, <1>12, <1>13 DEF Next,
     vars, engineVars, reportVars, journalVars, ruleVars, ledgerVars, netVars, histVars,
     TransferRule, BumpConfigVersion, recordTraffic, handleReport, handleLateReport, NextHour

\* An answer means that the batch is recorded.
LEMMA AnsweredNext == TypeInv /\ Answered /\ [Next]_vars => Answered'
<1> SUFFICES ASSUME TypeInv, Answered, [Next]_vars PROVE Answered'
  OBVIOUS
<1>1. CASE UNCHANGED <<call, outbox, receipts>>
  BY <1>1 DEF Answered
<1>2. ASSUME NEW id \in Ids, formBatch(id) PROVE Answered'
  BY <1>2 DEF formBatch, netVars, Answered, TypeInv, Busy
<1>3. CASE send
  BY <1>3 DEF send, Answered
<1>4. CASE receiveAck
  BY <1>4 DEF receiveAck, Answered
<1>5. ASSUME NEW reaches \in BOOLEAN, requestFails(reaches) PROVE Answered'
  BY <1>5 DEF requestFails, Abandon, Answered
<1>6. CASE handleReport
  BY <1>6 DEF handleReport, RecordNodeReport, reportVars, ledgerVars, Answered
<1>7. ASSUME NEW b \in late, handleLateReport(b) PROVE Answered'
  BY <1>7 DEF handleLateReport, RecordNodeReport, reportVars, ledgerVars, Answered
<1>8. ASSUME NEW saved \in BOOLEAN, NEW reaches \in BOOLEAN, Exit(saved, reaches) PROVE Answered'
  BY <1>8 DEF Exit, Abandon, Answered
<1>9. ASSUME NEW ok \in BOOLEAN, Restart(ok) PROVE Answered'
  BY <1>9 DEF Restart, netVars, Answered, TypeInv, Busy
<1> QED
  BY <1>1, <1>2, <1>3, <1>4, <1>5, <1>6, <1>7, <1>8, <1>9 DEF Next, vars, engineVars,
     reportVars, journalVars, ruleVars, ledgerVars, netVars, histVars, TransferRule,
     BumpConfigVersion, apply, recordTraffic, checkpointTraffic, retryBatch, saveBeforeSend,
     saveFails, saveAfterAck, NextHour

\* A report is recorded or changes nothing, and then its batch is billed.
LEMMA RecordStep ==
  ASSUME IInv, NEW b \in Known, RecordNodeReport(b)
  PROVE  /\ receipts' = receipts \/ receipts' = receipts \cup {b}
         /\ Billed' = Billed \cup (b.chunks \cap Chunks)
<1>1. charges \in [Chunks -> Nat] /\ Counted /\ Billed = {c \in Chunks : \E x \in receipts : c \in x.chunks}
  BY BilledByReceipt DEF IInv, TypeInv, TypeOK
<1>2. CASE b.chunks = {} \/ b \in receipts
  BY <1>1, <1>2 DEF RecordNodeReport, ledgerVars, Billed
<1>3. CASE ~ (b.chunks = {} \/ b \in receipts)
  BY <1>1, <1>3 DEF RecordNodeReport, Billed
<1> QED BY <1>2, <1>3

\* The aggregates keep counting the receipts: a batch without a receipt shares
\* no traffic with those that have one.
LEMMA CountedNext == IInv /\ [Next]_vars => Counted'
<1> SUFFICES ASSUME IInv, [Next]_vars PROVE Counted'
  OBVIOUS
<1>1. CASE UNCHANGED ledgerVars
  BY <1>1 DEF ledgerVars, IInv, Counted
<1>2. ASSUME NEW b \in Known, RecordNodeReport(b) PROVE Counted'
  <2>1. CASE b.chunks = {} \/ b \in receipts
    BY <1>1, <1>2, <2>1 DEF RecordNodeReport
  <2>2. CASE ~ (b.chunks = {} \/ b \in receipts)
    <3>1. \A x \in receipts : x.chunks \cap b.chunks = {}
      BY <2>2 DEF IInv, OnePlace, NoSharedTraffic, Known
    <3>2. /\ receipts' = receipts \cup {b}
          /\ charges' = [c \in Chunks |-> IF c \in b.chunks THEN charges[c] + 1 ELSE charges[c]]
      BY <1>2, <2>2 DEF RecordNodeReport
    <3> SUFFICES ASSUME NEW c \in Chunks
                 PROVE  charges'[c] = IF \E x \in receipts' : c \in x.chunks THEN 1 ELSE 0
      BY DEF Counted
    <3>3. charges[c] = IF \E x \in receipts : c \in x.chunks THEN 1 ELSE 0
      BY DEF IInv, Counted
    <3> QED BY <3>1, <3>2, <3>3
  <2> QED BY <2>1, <2>2
<1>3. CASE handleReport
  BY <1>2, <1>3 DEF handleReport, Known, IInv, TypeInv, Busy
<1>4. ASSUME NEW b \in late, handleLateReport(b) PROVE Counted'
  BY <1>2, <1>4 DEF handleLateReport, Known
<1> QED
  BY <1>1, <1>3, <1>4 DEF Next, vars, engineVars, reportVars, journalVars, ruleVars, ledgerVars,
     netVars, histVars, TransferRule, BumpConfigVersion, apply, recordTraffic, checkpointTraffic,
     formBatch, retryBatch, saveBeforeSend, saveFails, send, receiveAck, saveAfterAck,
     requestFails, Exit, Restart, NextHour

\* Collected traffic stays in one place.
LEMMA OnePlaceNext == IInv /\ [Next]_vars => OnePlace'
<1> SUFFICES ASSUME IInv, [Next]_vars PROVE OnePlace'
  OBVIOUS
<1>1. CASE UNCHANGED <<samples, pending, diskPending, outbox, diskOutbox, receipts, late>>
  BY <1>1 DEF IInv, OnePlace, ImmutableBatch, NoSharedTraffic, Known, Disk, ChunksOf, Attributed,
     Recovered
<1>2. ASSUME NEW ok \in BOOLEAN, NEW saved \in BOOLEAN, NEW cached \in BOOLEAN,
             NEW rebuilt \in SUBSET Rules, apply(ok, rebuilt, saved, cached) PROVE OnePlace'
  BY <1>2 DEF apply, Checkpoint, journalVars, ledgerVars, netVars, IInv, OnePlace,
     ImmutableBatch, NoSharedTraffic, Known, Disk, ChunksOf, Attributed, Recovered
<1>3. ASSUME NEW c \in Chunks, NEW f \in running \cup closing, recordTraffic(c, f) PROVE OnePlace'
  <2>1. c \notin pending \cup Disk /\ \A b \in Known : c \notin b.chunks
    BY <1>3 DEF recordTraffic, IInv, OnePlace, ImmutableBatch, NoSharedTraffic, Known, Disk,
       ChunksOf, Attributed, Recovered
  <2> QED BY <1>3, <2>1 DEF recordTraffic, journalVars, ledgerVars, netVars, IInv, OnePlace,
     ImmutableBatch, NoSharedTraffic, Known, Disk, ChunksOf, Attributed, Recovered
<1>4. ASSUME NEW saved \in BOOLEAN, checkpointTraffic(saved) PROVE OnePlace'
  BY <1>4 DEF checkpointTraffic, Checkpoint, journalVars, ledgerVars, netVars, IInv, OnePlace,
     ImmutableBatch, NoSharedTraffic, Known, Disk, ChunksOf, Attributed, Recovered
<1>5. ASSUME NEW id \in Ids, formBatch(id) PROVE OnePlace'
  <2>1. /\ outbox' \in Batches /\ outbox'.id = id
        /\ outbox'.chunks = nextTrafficBucket(pending \cup samples)
    BY <1>5, FormBatchType DEF IInv, TypeInv
  <2>2. /\ outbox'.chunks \subseteq pending \cup samples
        /\ pending' = (pending \cup samples) \ outbox'.chunks
        /\ samples' = {} /\ \A b \in Known : b.id # id
    BY <1>5, <2>1 DEF formBatch, nextTrafficBucket, Eligible
  <2>3. /\ Known' = Known \cup {outbox'}
        /\ UNCHANGED <<diskPending, diskOutbox, receipts, late>>
    BY <1>5, <2>1, TrafficReportAssumption DEF formBatch, Known, journalVars, ledgerVars, netVars
  <2>4. ImmutableBatch'
    BY <2>1, <2>2, <2>3 DEF IInv, OnePlace, ImmutableBatch
  <2>5. NoSharedTraffic'
    BY <2>2, <2>3 DEF IInv, OnePlace, NoSharedTraffic
  <2> QED BY <2>2, <2>3, <2>4, <2>5 DEF IInv, OnePlace, Disk
<1>6. CASE retryBatch
  BY <1>6 DEF retryBatch, journalVars, ledgerVars, netVars, IInv, OnePlace, ImmutableBatch,
     NoSharedTraffic, Known, Disk, ChunksOf, Attributed, Recovered
<1>7. CASE saveBeforeSend
  BY <1>7 DEF saveBeforeSend, ledgerVars, netVars, IInv, OnePlace, ImmutableBatch,
     NoSharedTraffic, Known, Disk, ChunksOf, Attributed, Recovered
<1>8. CASE receiveAck
  BY <1>8 DEF receiveAck, journalVars, ledgerVars, IInv, OnePlace, ImmutableBatch,
     NoSharedTraffic, Known, Disk, ChunksOf, Attributed, Recovered
<1>9. CASE saveAfterAck
  BY <1>9 DEF saveAfterAck, ledgerVars, netVars, IInv, OnePlace, ImmutableBatch, NoSharedTraffic,
     Known, Disk, ChunksOf, Attributed, Recovered
<1>10. ASSUME NEW reaches \in BOOLEAN, requestFails(reaches) PROVE OnePlace'
  <2>1. outbox # NoBatch /\ diskOutbox = outbox
    BY <1>10 DEF requestFails, IInv, TypeInv, Busy, Saved
  <2>2. late' \subseteq late \cup {outbox}
    BY <1>10 DEF requestFails, Abandon
  <2>3. UNCHANGED <<samples, pending, outbox, diskPending, diskOutbox, receipts>>
    BY <1>10 DEF requestFails, journalVars, ledgerVars
  <2>4. Known' \subseteq Known
    BY <2>1, <2>2, <2>3 DEF Known
  <2> QED BY <2>1, <2>2, <2>3, <2>4 DEF IInv, OnePlace, ImmutableBatch, NoSharedTraffic, Disk
<1>11. CASE handleReport
  <2>1. outbox # NoBatch /\ diskOutbox = outbox /\ outbox \in Known
    BY <1>11 DEF handleReport, IInv, TypeInv, Busy, Saved, Known
  <2>2. receipts' \subseteq receipts \cup {outbox}
    BY <1>11, <2>1, RecordStep DEF handleReport
  <2>3. UNCHANGED <<samples, pending, outbox, diskPending, diskOutbox, late>>
    BY <1>11 DEF handleReport, journalVars, reportVars
  <2>4. Known' \subseteq Known
    BY <2>1, <2>2, <2>3 DEF Known
  <2> QED BY <2>1, <2>2, <2>3, <2>4 DEF IInv, OnePlace, ImmutableBatch, NoSharedTraffic, Disk
<1>12. ASSUME NEW b \in late, handleLateReport(b) PROVE OnePlace'
  <2>1. receipts' \subseteq receipts \cup {b}
    BY <1>12, RecordStep DEF handleLateReport, Known
  <2>2. UNCHANGED <<samples, pending, outbox, diskPending, diskOutbox>> /\ late' = late \ {b}
    BY <1>12 DEF handleLateReport, journalVars, reportVars
  <2>3. Known' \subseteq Known
    BY <2>1, <2>2 DEF Known
  <2> QED BY <2>1, <2>2, <2>3 DEF IInv, OnePlace, ImmutableBatch, NoSharedTraffic, Disk
<1>13. ASSUME NEW saved \in BOOLEAN, NEW reaches \in BOOLEAN, Exit(saved, reaches) PROVE OnePlace'
  <2>1. late' \subseteq late \cup {outbox} /\ (late' # late => outbox # NoBatch /\ diskOutbox = outbox)
    BY <1>13 DEF Exit, Abandon, IInv, TypeInv, Busy, Saved
  <2>2. samples' = {} /\ pending' = {} /\ outbox' = NoBatch /\ receipts' = receipts
    BY <1>13 DEF Exit, ledgerVars
  <2>3. CASE diskOutbox' = outbox /\ diskPending' = pending \cup samples
    <3>1. Known' \subseteq Known
      BY <2>1, <2>2, <2>3 DEF Known
    <3> QED BY <2>1, <2>2, <2>3, <3>1 DEF IInv, OnePlace, ImmutableBatch, NoSharedTraffic, Disk,
       Known
  <2>4. CASE UNCHANGED journalVars
    <3>1. Known' \subseteq Known
      BY <2>1, <2>2, <2>4 DEF Known, journalVars
    <3> QED BY <2>1, <2>2, <2>4, <3>1 DEF IInv, OnePlace, ImmutableBatch, NoSharedTraffic, Disk,
       Known,
               journalVars
  <2> QED BY <1>13, <2>3, <2>4 DEF Exit
<1>14. ASSUME NEW ok \in BOOLEAN, Restart(ok) PROVE OnePlace'
  BY <1>14 DEF Restart, journalVars, ledgerVars, netVars, IInv, OnePlace, ImmutableBatch,
     NoSharedTraffic, Known, Disk, ChunksOf, Attributed, Recovered
<1> QED
  BY <1>1, <1>2, <1>3, <1>4, <1>5, <1>6, <1>7, <1>8, <1>9, <1>10, <1>11, <1>12, <1>13, <1>14 DEF
     Next, vars, engineVars, reportVars, journalVars, ruleVars, ledgerVars, netVars, histVars,
     TransferRule, BumpConfigVersion, saveFails, send, NextHour

\* A running client still holds whatever its journal holds, so rewriting the journal is safe.
LEMMA RecoveredNext == IInv /\ [Next]_vars => Recovered'
<1> SUFFICES ASSUME IInv, [Next]_vars PROVE Recovered'
  OBVIOUS
<1>1. CASE UNCHANGED <<up, samples, pending, outbox, diskPending, diskOutbox, charges>>
  BY <1>1 DEF IInv, Recovered, Memory, Disk, ChunksOf, Billed
<1>2. ASSUME NEW ok \in BOOLEAN, NEW saved \in BOOLEAN, NEW cached \in BOOLEAN,
             NEW rebuilt \in SUBSET Rules, apply(ok, rebuilt, saved, cached) PROVE Recovered'
  BY <1>2 DEF apply, Checkpoint, journalVars, ledgerVars, IInv, Recovered, Memory, Disk,
     ChunksOf, Billed
<1>3. ASSUME NEW c \in Chunks, NEW f \in running \cup closing, recordTraffic(c, f) PROVE Recovered'
  BY <1>3 DEF recordTraffic, engineVars, journalVars, ledgerVars, IInv, Recovered, Memory, Disk,
     ChunksOf, Billed
<1>4. ASSUME NEW saved \in BOOLEAN, checkpointTraffic(saved) PROVE Recovered'
  BY <1>4 DEF checkpointTraffic, Checkpoint, engineVars, journalVars, ledgerVars, IInv,
     Recovered, Memory, Disk, ChunksOf, Billed
<1>5. ASSUME NEW id \in Ids, formBatch(id) PROVE Recovered'
  <2>1. /\ outbox' \in Batches /\ outbox'.chunks = nextTrafficBucket(pending \cup samples)
    BY <1>5, FormBatchType DEF IInv, TypeInv
  <2>2. /\ pending' = (pending \cup samples) \ outbox'.chunks /\ outbox = NoBatch
        /\ UNCHANGED <<diskPending, diskOutbox, charges, up>> /\ up
    BY <1>5, <2>1 DEF formBatch, nextTrafficBucket, journalVars, ledgerVars, engineVars
  <2>3. Memory \subseteq Memory'
    BY <2>1, <2>2, TrafficReportAssumption, <1>5 DEF formBatch, Memory, ChunksOf
  <2> QED BY <2>2, <2>3 DEF IInv, Recovered, Disk, Billed
<1>6. CASE retryBatch
  BY <1>6 DEF retryBatch, engineVars, journalVars, ledgerVars, IInv, Recovered, Memory, Disk,
     ChunksOf, Billed
<1>7. CASE saveBeforeSend
  BY <1>7 DEF saveBeforeSend, engineVars, ledgerVars, IInv, Recovered, Memory, Disk, ChunksOf,
     Billed
<1>8. CASE receiveAck
  <2>1. outbox # NoBatch /\ outbox.chunks \subseteq Billed
    BY <1>8, BilledByReceipt DEF receiveAck, IInv, TypeInv, TypeOK, Busy, Answered, Batches
  <2>2. Memory \subseteq Memory' \cup outbox.chunks
    BY <1>8, <2>1 DEF receiveAck, Memory, ChunksOf
  <2>3. UNCHANGED <<diskPending, diskOutbox, charges, up>> /\ up
    BY <1>8 DEF receiveAck, journalVars, ledgerVars, engineVars
  <2> QED BY <2>1, <2>2, <2>3 DEF IInv, Recovered, Disk, Billed
<1>9. CASE saveAfterAck
  BY <1>9 DEF saveAfterAck, engineVars, ledgerVars, IInv, Recovered, Memory, Disk, ChunksOf, Billed
<1>10. CASE handleReport
  <2>1. outbox \in Known /\ outbox # NoBatch
    BY <1>10 DEF handleReport, IInv, TypeInv, Busy, Known
  <2>2. Billed \subseteq Billed'
    BY <1>10, <2>1, RecordStep DEF handleReport
  <2>3. UNCHANGED <<samples, pending, outbox, diskPending, diskOutbox, up>>
    BY <1>10 DEF handleReport, engineVars, journalVars, reportVars
  <2> QED BY <2>2, <2>3 DEF IInv, Recovered, Memory, Disk
<1>11. ASSUME NEW b \in late, handleLateReport(b) PROVE Recovered'
  <2>1. Billed \subseteq Billed'
    BY <1>11, RecordStep DEF handleLateReport, Known
  <2>2. UNCHANGED <<samples, pending, outbox, diskPending, diskOutbox, up>>
    BY <1>11 DEF handleLateReport, engineVars, journalVars, reportVars
  <2> QED BY <2>1, <2>2 DEF IInv, Recovered, Memory, Disk
<1>12. ASSUME NEW saved \in BOOLEAN, NEW reaches \in BOOLEAN, Exit(saved, reaches) PROVE Recovered'
  BY <1>12 DEF Exit, Recovered
<1>13. ASSUME NEW ok \in BOOLEAN, Restart(ok) PROVE Recovered'
  BY <1>13 DEF Restart, journalVars, ledgerVars, IInv, Recovered, Memory, Disk, ChunksOf, Billed
<1> QED
  BY <1>1, <1>2, <1>3, <1>4, <1>5, <1>6, <1>7, <1>8, <1>9, <1>10, <1>11, <1>12, <1>13 DEF Next,
     vars, engineVars, reportVars, journalVars, ruleVars, ledgerVars, netVars, histVars,
     TransferRule, BumpConfigVersion, saveFails, send, requestFails, NextHour

\* The step that DurableUntilBilled allows.
Durable == Disk \cup Billed \subseteq Disk' \cup Billed'

\* A journalled chunk stays journalled until it is billed.
LEMMA DurableStep == IInv /\ [Next]_vars => Durable
<1> SUFFICES ASSUME IInv, [Next]_vars PROVE Durable
  OBVIOUS
<1> USE DEF Durable
<1>1. CASE UNCHANGED <<diskPending, diskOutbox, charges>>
  BY <1>1 DEF Disk, ChunksOf, Billed
<1>2. ASSUME NEW ok \in BOOLEAN, NEW saved \in BOOLEAN, NEW cached \in BOOLEAN,
             NEW rebuilt \in SUBSET Rules, apply(ok, rebuilt, saved, cached) PROVE Durable
  BY <1>2 DEF apply, Checkpoint, journalVars, ledgerVars, IInv, Recovered, Memory, Disk,
     ChunksOf, Billed
<1>3. ASSUME NEW saved \in BOOLEAN, checkpointTraffic(saved) PROVE Durable
  BY <1>3 DEF checkpointTraffic, Checkpoint, journalVars, ledgerVars, IInv, Recovered, Memory,
     Disk, ChunksOf, Billed, TypeInv, Busy
<1>4. CASE saveBeforeSend
  BY <1>4 DEF saveBeforeSend, ledgerVars, IInv, Recovered, Memory, Disk, ChunksOf, Billed, OnePlace
<1>5. CASE saveAfterAck
  BY <1>5 DEF saveAfterAck, ledgerVars, IInv, Recovered, Memory, Disk, ChunksOf, Billed, OnePlace
<1>6. CASE handleReport
  <2>1. outbox \in Known /\ outbox # NoBatch
    BY <1>6 DEF handleReport, IInv, TypeInv, Busy, Known
  <2>2. Billed \subseteq Billed'
    BY <1>6, <2>1, RecordStep DEF handleReport
  <2> QED BY <1>6, <2>2 DEF handleReport, journalVars, Disk
<1>7. ASSUME NEW b \in late, handleLateReport(b) PROVE Durable
  <2>1. Billed \subseteq Billed'
    BY <1>7, RecordStep DEF handleLateReport, Known
  <2> QED BY <1>7, <2>1 DEF handleLateReport, journalVars, Disk
<1>8. ASSUME NEW saved \in BOOLEAN, NEW reaches \in BOOLEAN, Exit(saved, reaches) PROVE Durable
  BY <1>8 DEF Exit, journalVars, ledgerVars, IInv, Recovered, Memory, Disk, ChunksOf, Billed
<1> QED
  BY <1>1, <1>2, <1>3, <1>4, <1>5, <1>6, <1>7, <1>8 DEF Next, vars, engineVars, reportVars,
     journalVars, ruleVars, ledgerVars, netVars, histVars, TransferRule, BumpConfigVersion,
     recordTraffic, formBatch, retryBatch, saveFails, send, receiveAck, requestFails, Restart,
     NextHour

\* A request that was given up is covered by the journal or the ledger.
LEMMA LateKeptNext == IInv /\ [Next]_vars => LateKept'
<1> SUFFICES ASSUME IInv, [Next]_vars PROVE LateKept'
  OBVIOUS
<1>1. CASE UNCHANGED <<late, diskPending, diskOutbox, charges>>
  BY <1>1 DEF IInv, LateKept, Disk, ChunksOf, Billed
<1>2. ASSUME NEW ok \in BOOLEAN, NEW saved \in BOOLEAN, NEW cached \in BOOLEAN,
             NEW rebuilt \in SUBSET Rules, apply(ok, rebuilt, saved, cached) PROVE LateKept'
  BY <1>2, DurableStep DEF apply, netVars, IInv, LateKept, Durable
<1>3. ASSUME NEW saved \in BOOLEAN, checkpointTraffic(saved) PROVE LateKept'
  BY <1>3, DurableStep DEF checkpointTraffic, netVars, IInv, LateKept, Durable
<1>4. CASE saveBeforeSend
  BY <1>4, DurableStep DEF saveBeforeSend, netVars, IInv, LateKept, Durable
<1>5. CASE saveAfterAck
  BY <1>5, DurableStep DEF saveAfterAck, netVars, IInv, LateKept, Durable
<1>6. ASSUME NEW reaches \in BOOLEAN, requestFails(reaches) PROVE LateKept'
  <2>1. outbox # NoBatch /\ diskOutbox = outbox
    BY <1>6 DEF requestFails, IInv, TypeInv, Busy, Saved
  <2>2. late' \subseteq late \cup {outbox} /\ outbox.chunks \subseteq Disk
    BY <1>6, <2>1 DEF requestFails, Abandon, Disk, ChunksOf
  <2> QED BY <2>2, DurableStep DEF IInv, LateKept, Durable
<1>7. CASE handleReport
  BY <1>7, DurableStep DEF handleReport, IInv, LateKept, Durable
<1>8. ASSUME NEW b \in late, handleLateReport(b) PROVE LateKept'
  BY <1>8, DurableStep DEF handleLateReport, IInv, LateKept, Durable
<1>9. ASSUME NEW saved \in BOOLEAN, NEW reaches \in BOOLEAN, Exit(saved, reaches) PROVE LateKept'
  <2>1. late' # late => outbox # NoBatch /\ diskOutbox = outbox
    BY <1>9 DEF Exit, Abandon, IInv, TypeInv, Busy, Saved
  <2>2. late' = late \/ (late' = late \cup {outbox} /\ outbox.chunks \subseteq Disk)
    BY <1>9, <2>1 DEF Exit, Abandon, Disk, ChunksOf
  <2> QED BY <2>2, DurableStep DEF IInv, LateKept, Durable
<1> QED
  BY <1>1, <1>2, <1>3, <1>4, <1>5, <1>6, <1>7, <1>8, <1>9 DEF Next, vars, engineVars,
     reportVars, journalVars, ruleVars, ledgerVars, netVars, histVars, TransferRule,
     BumpConfigVersion, recordTraffic, formBatch, retryBatch, saveFails, send, receiveAck,
     Restart, NextHour

\* A saved policy never changes.
LEMMA PoliciesKept ==
  IInv /\ [Next]_vars => \A v \in Versions : policy[v] # NoPolicy => policy'[v] = policy[v]
<1> SUFFICES ASSUME IInv, [Next]_vars PROVE \A v \in Versions : policy[v] # NoPolicy => policy'[v] = policy[v]
  OBVIOUS
<1>1. CASE UNCHANGED policy
  BY <1>1
<1>2. ASSUME saveTrafficPolicies PROVE \A v \in Versions : policy[v] # NoPolicy => policy'[v] = policy[v]
  BY <1>2 DEF saveTrafficPolicies, IInv, TypeInv, TypeOK
<1> QED
  BY <1>1, <1>2 DEF Next, vars, engineVars, reportVars, journalVars, ruleVars, ledgerVars,
     netVars, histVars, TransferRule, BumpConfigVersion, apply, recordTraffic, checkpointTraffic,
     formBatch, retryBatch, saveBeforeSend, saveFails, send, receiveAck, saveAfterAck,
     requestFails, handleReport, handleLateReport, Exit, Restart, NextHour

\* A forwarder of an applied configuration was running before, or is new.
LEMMA ApplyForwarders ==
  ASSUME NEW cfg, NEW rebuilt
  PROVE  \A f \in Apply(cfg, rebuilt) :
           \/ f \in running
           \/ f.version = cfg.version /\ f.rule \in Rules /\ f.user = cfg.users[f.rule]
  BY DEF Apply

\* What runs, is cached and was recorded agrees with the saved policies.
LEMMA DeliveredNext == IInv /\ [Next]_vars => Delivered'
<1> SUFFICES ASSUME IInv, [Next]_vars PROVE Delivered'
  OBVIOUS
<1>1. CASE UNCHANGED <<running, closing, effective, diskConfig, policy, meta>>
  BY <1>1 DEF IInv, Delivered, Forwarded
<1>2. ASSUME NEW ok \in BOOLEAN, NEW saved \in BOOLEAN, NEW cached \in BOOLEAN,
             NEW rebuilt \in SUBSET Rules, apply(ok, rebuilt, saved, cached) PROVE Delivered'
  <2>0. PICK cfg \in Configs : cfg = [version |-> version, users |-> owner]
    BY DEF IInv, TypeInv, TypeOK, Configs
  <2>1. /\ policy'[version] = owner /\ owner \in [Rules -> Users] /\ owner # NoPolicy
        /\ version \in Versions /\ cfg.version = version /\ cfg.users = owner
    BY <1>2, <2>0, TrafficReportAssumption DEF apply, saveTrafficPolicies, IInv, TypeInv, TypeOK
  <2>2. \A v \in Versions : policy[v] # NoPolicy => policy'[v] = policy[v]
    BY PoliciesKept
  <2>3. \A f \in Apply(cfg, rebuilt) :
          \/ f \in running
          \/ f.version = cfg.version /\ f.rule \in Rules /\ f.user = cfg.users[f.rule]
    BY ApplyForwarders
  <2>4. running' \cup closing' \subseteq running \cup closing \cup Apply(cfg, rebuilt)
    BY <1>2, <2>0 DEF apply
  <2>5. \A f \in running \cup closing : f.version \in Versions
    BY DEF IInv, TypeInv, TypeOK, Forwarders
  <2>6. \A f \in running' \cup closing' :
          policy'[f.version] # NoPolicy /\ policy'[f.version][f.rule] = f.user
    BY <2>1, <2>2, <2>3, <2>4, <2>5 DEF IInv, Delivered
  <2>7. \A e \in {effective, diskConfig} : e # NoConfig =>
          e.version \in Versions /\ e.users # NoPolicy /\ policy'[e.version] = e.users
    BY <2>2, TrafficReportAssumption DEF IInv, TypeInv, TypeOK, Delivered, Configs
  <2>8. effective' \in {effective, cfg} /\ diskConfig' \in {effective, diskConfig, cfg}
    BY <1>2, <2>0 DEF apply
  <2>9. \A c \in Forwarded : policy'[meta[c].version] # NoPolicy
                               /\ policy'[meta[c].version][meta[c].rule] = meta[c].user
    BY <2>2 DEF IInv, TypeInv, TypeOK, Delivered, Forwarded, Metas
  <2>10. meta' = meta
    BY <1>2 DEF apply, histVars
  <2> QED BY <2>1, <2>6, <2>7, <2>8, <2>9, <2>10 DEF Delivered, Forwarded
<1>3. ASSUME NEW c \in Chunks, NEW f \in running \cup closing, recordTraffic(c, f) PROVE Delivered'
  <2>1. /\ Forwarded' = Forwarded \cup {c}
        /\ \A x \in Forwarded : x # c /\ meta'[x] = meta[x]
        /\ meta'[c].rule = f.rule /\ meta'[c].version = f.version /\ meta'[c].user = f.user
    BY <1>3 DEF recordTraffic, Forwarded
  <2> QED BY <1>3, <2>1 DEF recordTraffic, engineVars, ruleVars, IInv, Delivered
<1>4. ASSUME NEW saved \in BOOLEAN, NEW reaches \in BOOLEAN, Exit(saved, reaches) PROVE Delivered'
  BY <1>4 DEF Exit, ruleVars, IInv, Delivered, Forwarded
<1>5. ASSUME NEW ok \in BOOLEAN, Restart(ok) PROVE Delivered'
  <2>1. diskConfig # NoConfig => \A f \in Apply(diskConfig, Rules) :
          f.version = diskConfig.version /\ f.rule \in Rules /\ f.user = diskConfig.users[f.rule]
    BY DEF Apply, IInv, TypeInv, TypeOK, Forwarders
  <2>2. diskConfig # NoConfig => diskConfig.users # NoPolicy /\ policy[diskConfig.version] = diskConfig.users
    BY TrafficReportAssumption DEF IInv, TypeInv, TypeOK, Delivered, Configs
  <2>3. UNCHANGED <<closing, diskConfig, policy, meta>>
    BY <1>5 DEF Restart, ruleVars, histVars
  <2>4. UNCHANGED <<running, effective>> \/ (/\ diskConfig # NoConfig
                                            /\ running' = Apply(diskConfig,
                                            Rules) /\ effective' = diskConfig)
    BY <1>5 DEF Restart
  <2> QED BY <2>1, <2>2, <2>3, <2>4 DEF IInv, Delivered, Forwarded
<1> QED
  BY <1>1, <1>2, <1>3, <1>4, <1>5 DEF Next, vars, engineVars, reportVars, journalVars, ruleVars,
     ledgerVars, netVars, histVars, TransferRule, BumpConfigVersion, checkpointTraffic,
     formBatch, retryBatch, saveBeforeSend, saveFails, send, receiveAck, saveAfterAck,
     requestFails, handleReport, handleLateReport, NextHour

\* What one report adds to the ledger is right.
LEMMA ChargedRight ==
  ASSUME IInv, NEW b \in Known, RecordNodeReport(b)
  PROVE  \A e \in ledger' : \/ e \in ledger
                            \/ /\ e.chunk \in Forwarded
                               /\ e.user = meta[e.chunk].user /\ e.hour = meta[e.chunk].hour
<1>1. \A c \in b.chunks : /\ c \in Forwarded /\ meta[c].hour = b.hour
                          /\ ChargedUser(c, b) = meta[c].user
  BY DEF IInv, Attributed, Delivered, ChargedUser
<1> QED BY <1>1 DEF RecordNodeReport, ledgerVars

\* Charges go to the owner and hour of the traffic.
LEMMA RightfulNext == IInv /\ [Next]_vars => Rightful'
<1> SUFFICES ASSUME IInv, [Next]_vars PROVE Rightful'
  OBVIOUS
<1>1. CASE UNCHANGED <<ledger, meta>>
  BY <1>1 DEF IInv, Rightful, Forwarded
<1>2. ASSUME NEW c \in Chunks, NEW f \in running \cup closing, recordTraffic(c, f) PROVE Rightful'
  <2>1. c \notin Forwarded /\ Forwarded' = Forwarded \cup {c} /\ \A x \in Forwarded : meta'[x] = meta[x]
    BY <1>2 DEF recordTraffic, Forwarded
  <2> QED BY <1>2, <2>1 DEF recordTraffic, ledgerVars, IInv, Rightful
<1>3. CASE handleReport
  <2>1. outbox \in Known /\ meta' = meta
    BY <1>3 DEF handleReport, IInv, TypeInv, Busy, Known, histVars
  <2> QED BY <1>3, <2>1, ChargedRight DEF handleReport, IInv, Rightful, Forwarded
<1>4. ASSUME NEW b \in late, handleLateReport(b) PROVE Rightful'
  <2>1. b \in Known /\ meta' = meta
    BY <1>4 DEF handleLateReport, Known, histVars
  <2> QED BY <1>4, <2>1, ChargedRight DEF handleLateReport, IInv, Rightful, Forwarded
<1> QED
  BY <1>1, <1>2, <1>3, <1>4 DEF Next, vars, engineVars, reportVars, journalVars, ruleVars,
     ledgerVars, netVars, histVars, TransferRule, BumpConfigVersion, apply, checkpointTraffic,
     formBatch, retryBatch, saveBeforeSend, saveFails, send, receiveAck, saveAfterAck,
     requestFails, Exit, Restart, NextHour

\* Every step keeps the invariant.
LEMMA NextInv == IInv /\ [Next]_vars => IInv'
  BY NextType, AttributedNext, OnePlaceNext, SavedNext, AnsweredNext, RecoveredNext, CountedNext,
     LateKeptNext, DeliveredNext, RightfulNext DEF IInv

\* The invariant holds in every reachable state.
LEMMA Invariance == Spec => []IInv
  BY InitInv, NextInv, PTL DEF Spec

-----------------------------------------------------------------------------
(* The theorems. *)

\* Every variable keeps its type, whatever the bounds are.
THEOREM TypeCorrect == Spec => []TypeOK
<1>1. IInv => TypeOK
  BY DEF IInv, TypeInv
<1> QED BY <1>1, Invariance, PTL

\* No write is charged twice: retries, late requests and restarts included
\* (traffic_report.go, the receipt).
THEOREM ChargedOnce == Spec => []ExactlyOnce
<1>1. IInv => ExactlyOnce
  <2> SUFFICES ASSUME IInv, NEW c \in Chunks PROVE charges[c] <= 1
    BY DEF ExactlyOnce
  <2> QED BY DEF IInv, Counted
<1> QED BY <1>1, Invariance, PTL

\* Every charge goes to the owner the carrying configuration named and to the
\* hour of the write (saveTrafficPolicies, recordTraffic).
THEOREM ChargedRightfully == Spec => []RightfulCharge
<1>1. IInv => RightfulCharge
  BY DEF IInv, Rightful, RightfulCharge
<1> QED BY <1>1, Invariance, PTL

\* A request is on the wire only when its batch is on disk or charged (report).
THEOREM SavedFirst == Spec => []PersistedBeforeSent
<1>1. IInv => PersistedBeforeSent
  <2> SUFFICES ASSUME IInv PROVE PersistedBeforeSent
    OBVIOUS
  <2>1. call = "sent" => outbox.chunks \subseteq Disk
    BY DEF IInv, TypeInv, Busy, Saved, Disk, ChunksOf
  <2> QED BY <2>1 DEF IInv, LateKept, PersistedBeforeSent
<1> QED BY <1>1, Invariance, PTL

\* Batches with one identifier are one batch, and no two batches share traffic:
\* a retry resends the frozen batch and nothing else (report).
THEOREM FrozenBatches == Spec => [](ImmutableBatch /\ NoSharedTraffic)
<1>1. IInv => ImmutableBatch /\ NoSharedTraffic
  BY DEF IInv, OnePlace
<1> QED BY <1>1, Invariance, PTL

\* A request, retried or late, carries what was saved before, one batch under one
\* identifier, and no traffic of another batch (Client.report, retryBatch).
THEOREM SendsSafely == Spec => []SentSafely
<1>1. PersistedBeforeSent /\ ImmutableBatch /\ NoSharedTraffic => SentSafely
  BY DEF SentSafely
<1> QED BY <1>1, SavedFirst, FrozenBatches, PTL

\* Journalled traffic stays journalled until it is charged (saveReports).
THEOREM NeverDropped == Spec => DurableUntilBilled
<1>1. IInv /\ [Next]_vars => [Disk \cup Billed \subseteq Disk' \cup Billed']_vars
  BY DurableStep DEF Durable
<1> QED BY <1>1, Invariance, PTL DEF Spec, DurableUntilBilled

-----------------------------------------------------------------------------
(* Losses, and the abstract specification. *)

\* A checkpoint or a save moves traffic; only an exit without a save loses it.

LossGoal ==
  Lost' = Lost \/ (up /\ ~up' /\ UNCHANGED journalVars /\ Lost' \cap Disk = {})

\* Every step loses nothing, or is a crash that leaves the disk alone.
LEMMA LossStep == IInv /\ [Next]_vars => LossGoal
<1> SUFFICES ASSUME IInv, [Next]_vars PROVE LossGoal
  OBVIOUS
<1> USE DEF LossGoal
<1>1. CASE UNCHANGED <<samples, pending, outbox, diskPending, diskOutbox, charges, meta>>
  BY <1>1 DEF IInv, Recovered, Lost, Forwarded, Memory, Disk, ChunksOf, Billed, Memory
<1>2. ASSUME NEW ok \in BOOLEAN, NEW saved \in BOOLEAN, NEW cached \in BOOLEAN,
             NEW rebuilt \in SUBSET Rules, apply(ok, rebuilt, saved, cached) PROVE LossGoal
  BY <1>2 DEF apply, Checkpoint, journalVars, ledgerVars, histVars, IInv, Recovered, Lost,
     Forwarded, Memory, Disk, ChunksOf, Billed
<1>3. ASSUME NEW c \in Chunks, NEW f \in running \cup closing, recordTraffic(c, f) PROVE LossGoal
  <2>1. /\ Forwarded' = Forwarded \cup {c} /\ c \notin Forwarded /\ c \in Memory' \cup Disk' \cup Billed'
        /\ Memory' \cup Disk' \cup Billed' = Memory \cup Disk \cup Billed \cup {c}
    BY <1>3 DEF recordTraffic, Forwarded, journalVars, ledgerVars, Memory, Disk, ChunksOf, Billed
  <2> QED BY <2>1 DEF Lost
<1>4. ASSUME NEW saved \in BOOLEAN, checkpointTraffic(saved) PROVE LossGoal
  BY <1>4 DEF checkpointTraffic, Checkpoint, journalVars, ledgerVars, histVars, IInv, Recovered,
     Lost, Forwarded, Memory, Disk, ChunksOf, Billed, TypeInv, Busy
<1>5. ASSUME NEW id \in Ids, formBatch(id) PROVE LossGoal
  <2>1. /\ outbox' \in Batches /\ outbox'.chunks = nextTrafficBucket(pending \cup samples)
        /\ outbox'.chunks \subseteq pending \cup samples
    BY <1>5, FormBatchType DEF IInv, TypeInv, nextTrafficBucket, Eligible
  <2>2. /\ pending' = (pending \cup samples) \ outbox'.chunks /\ outbox = NoBatch /\ samples' = {}
        /\ UNCHANGED <<diskPending, diskOutbox, charges, meta>>
    BY <1>5, <2>1 DEF formBatch, nextTrafficBucket, journalVars, ledgerVars, histVars
  <2>3. Memory' = Memory
    BY <2>1, <2>2, TrafficReportAssumption DEF Memory, ChunksOf
  <2> QED BY <2>2, <2>3 DEF Lost, Disk, Billed, Forwarded
<1>6. CASE retryBatch
  BY <1>6 DEF retryBatch, journalVars, ledgerVars, histVars, IInv, Recovered, Lost, Forwarded,
     Memory, Disk, ChunksOf, Billed
<1>7. CASE saveBeforeSend
  BY <1>7 DEF saveBeforeSend, ledgerVars, histVars, IInv, Recovered, Lost, Forwarded, Memory,
     Disk, ChunksOf, Billed, OnePlace, TypeInv, Busy
<1>8. CASE receiveAck
  <2>1. outbox # NoBatch /\ outbox.chunks \subseteq Billed
    BY <1>8, BilledByReceipt DEF receiveAck, IInv, TypeInv, TypeOK, Busy, Answered, Batches
  <2>2. Memory = Memory' \cup outbox.chunks
    BY <1>8, <2>1 DEF receiveAck, Memory, ChunksOf
  <2>3. UNCHANGED <<diskPending, diskOutbox, charges, meta>>
    BY <1>8 DEF receiveAck, journalVars, ledgerVars, histVars
  <2> QED BY <2>1, <2>2, <2>3 DEF Lost, Disk, Billed, Forwarded
<1>9. CASE saveAfterAck
  BY <1>9 DEF saveAfterAck, ledgerVars, histVars, IInv, Recovered, Lost, Forwarded, Memory, Disk,
     ChunksOf, Billed, OnePlace, TypeInv, Busy
<1>10. CASE handleReport
  <2>1. outbox \in Known /\ outbox.chunks \subseteq Memory
    BY <1>10 DEF handleReport, IInv, TypeInv, Busy, Known, Memory, ChunksOf
  <2>2. Billed' = Billed \cup (outbox.chunks \cap Chunks)
    BY <1>10, <2>1, RecordStep DEF handleReport
  <2>3. UNCHANGED <<samples, pending, outbox, diskPending, diskOutbox, meta>>
    BY <1>10 DEF handleReport, reportVars, journalVars, histVars
  <2> QED BY <2>1, <2>2, <2>3 DEF Lost, Memory, Disk, Forwarded
<1>11. ASSUME NEW b \in late, handleLateReport(b) PROVE LossGoal
  <2>1. b \in Known /\ b.chunks \subseteq Disk \cup Billed
    BY DEF Known, IInv, LateKept, Durable
  <2>2. Billed' = Billed \cup (b.chunks \cap Chunks)
    BY <1>11, <2>1, RecordStep DEF handleLateReport
  <2>3. UNCHANGED <<samples, pending, outbox, diskPending, diskOutbox, meta>>
    BY <1>11 DEF handleLateReport, reportVars, journalVars, histVars
  <2> QED BY <2>1, <2>2, <2>3 DEF Lost, Memory, Disk, Forwarded
<1>12. ASSUME NEW saved \in BOOLEAN, NEW reaches \in BOOLEAN, Exit(saved, reaches) PROVE LossGoal
  <2>1. CASE saved
    BY <1>12, <2>1 DEF Exit, ledgerVars, IInv, Recovered, Lost, Forwarded, Memory, Disk,
       ChunksOf, Billed
  <2>2. CASE ~saved
    <3>1. up /\ ~up' /\ UNCHANGED journalVars
      BY <1>12, <2>2 DEF Exit
    <3>2. Lost' \cap Disk = {}
      BY <3>1 DEF journalVars, Lost, Disk
    <3> QED BY <3>1, <3>2
  <2> QED BY <2>1, <2>2
<1>13. ASSUME NEW ok \in BOOLEAN, Restart(ok) PROVE LossGoal
  BY <1>13 DEF Restart, journalVars, ledgerVars, histVars, IInv, Recovered, Lost, Forwarded,
     Memory, Disk, ChunksOf, Billed
<1> QED
  BY <1>1, <1>2, <1>3, <1>4, <1>5, <1>6, <1>7, <1>8, <1>9, <1>10, <1>11, <1>12, <1>13 DEF Next,
     vars, engineVars, reportVars, journalVars, ruleVars, ledgerVars, netVars, histVars,
     TransferRule, BumpConfigVersion, saveFails, send, requestFails, NextHour

\* A stop that saves loses nothing, and a crash only what no checkpoint had
\* written (the end of Run, checkpointTraffic).
THEOREM LossOnlyByCrash == Spec => OnlyCrashLoses
<1>1. IInv /\ [Next]_vars =>
        [Lost' # Lost => up /\ ~up' /\ UNCHANGED journalVars /\ Lost' \cap Disk = {}]_vars
  BY LossStep DEF LossGoal
<1> QED BY <1>1, Invariance, PTL DEF Spec, OnlyCrashLoses

\* Traffic is lost only with the memory of a process that dies unsaved, and what
\* was saved stays until it is charged (saveReports, captureTraffic).
THEOREM DropsNothing == Spec => NothingDropped
BY NeverDropped, LossOnlyByCrash DEF NothingDropped

\* The first states of the reports are first states of the metering.
LEMMA MeteredInit == Init => Metered!Init
<1> SUFFICES ASSUME Init PROVE Metered!Init
  OBVIOUS
<1>1. Forwarded = {} /\ Disk = {} /\ Billed = {} /\ Lost = {}
  BY DEF Init, Forwarded, Disk, Billed, Lost, ChunksOf
<1> QED BY <1>1 DEF Init, Metered!Init

\* The report handler is a charge of the abstract specification, or nothing.
LEMMA MeteredRecord ==
  ASSUME IInv, NEW b \in Known, b \in Batches, b.chunks \subseteq Disk \cup Billed, RecordNodeReport(b),
         UNCHANGED <<meta, diskPending, diskOutbox>>, Lost' = Lost
  PROVE  [Metered!Next]_(Metered!vars)
<1>1. Forwarded' = Forwarded /\ Disk' = Disk
  BY DEF Forwarded, Disk
<1>2. CASE UNCHANGED ledgerVars
  BY <1>1, <1>2 DEF ledgerVars, Billed, Metered!vars
<1>3. CASE ~ UNCHANGED ledgerVars
  <2>1. /\ b.chunks # {} /\ b \notin receipts
        /\ charges' = [c \in Chunks |-> IF c \in b.chunks THEN charges[c] + 1 ELSE charges[c]]
        /\ ledger' = ledger \cup {[chunk |-> c, user |-> ChargedUser(c, b), hour |-> b.hour] :
                                    c \in b.chunks}
    BY <1>3 DEF RecordNodeReport
  <2>2. b.chunks \in SUBSET Chunks
    BY DEF Batches
  <2>3. \A c \in b.chunks : charges[c] = 0
    BY <2>1, <2>2 DEF IInv, Counted, OnePlace, NoSharedTraffic, Known
  <2>4. \A c \in b.chunks : c \in Forwarded /\ meta[c].hour = b.hour /\ ChargedUser(c, b) = meta[c].user
    BY DEF IInv, Attributed, Delivered, ChargedUser
  <2> DEFINE usage == [c \in Forwarded |-> [user |-> meta[c].user, hour |-> meta[c].hour]]
  <2>5. ledger' = ledger \cup {[chunk |-> c, user |-> usage[c].user, hour |-> usage[c].hour] : c \in b.chunks}
    BY <2>1, <2>4
  <2>6. Disk' \cup Billed' = Disk \cup Billed
    BY <1>1, <2>2, RecordStep
  <2>7. usage' = usage
    BY <1>1
  <2>8. Metered!Charge(b.chunks)
    BY <2>1, <2>3, <2>5, <2>6, <2>7 DEF Metered!Charge
  <2> QED BY <2>2, <2>8 DEF Metered!Next
<1> QED BY <1>2, <1>3

\* A step that neither records nor charges secures some traffic or loses some.
LEMMA MeteredMove ==
  ASSUME IInv, IInv', [Next]_vars, UNCHANGED <<meta, charges, ledger>>
  PROVE  [Metered!Next]_(Metered!vars)
<1> DEFINE usage == [c \in Forwarded |-> [user |-> meta[c].user, hour |-> meta[c].hour]]
<1>1. Forwarded' = Forwarded /\ Billed' = Billed /\ usage' = usage
  BY DEF Forwarded, Billed
<1>2. /\ Disk' \cup Billed' \subseteq Forwarded
      /\ DOMAIN usage = Forwarded /\ Forwarded \subseteq Chunks
  <2>1. Disk' \subseteq Forwarded'
    BY DEF IInv, Attributed, Disk, ChunksOf, Known
  <2>2. Billed \subseteq Forwarded
    BY BilledByReceipt DEF IInv, Attributed, Known
  <2> QED BY <1>1, <2>1, <2>2 DEF IInv, TypeInv, TypeOK, Forwarded
<1>3. CASE Lost' = Lost
  <2> DEFINE S == (Disk' \cup Billed') \ (Disk \cup Billed)
  <2>1. S \in SUBSET Chunks /\ S \subseteq Forwarded \ ((Disk \cup Billed) \cup Lost)
    BY <1>2, <1>3 DEF Lost
  <2>2. Disk' \cup Billed' = (Disk \cup Billed) \cup S
    BY DurableStep DEF Durable
  <2>3. Metered!Secure(S)
    BY <1>1, <1>2, <1>3, <2>1, <2>2 DEF Metered!Secure, Metered!Recorded
  <2> QED BY <2>1, <2>3 DEF Metered!Next
<1>4. CASE Lost' # Lost
  <2> DEFINE S == Lost' \ Lost
  <2>1. ~up' /\ UNCHANGED journalVars /\ Lost' \cap Disk = {}
    BY <1>4, LossStep DEF LossGoal
  <2>2. Disk' = Disk /\ Memory' = {}
    BY <2>1 DEF journalVars, Disk, IInv, Recovered, Memory, ChunksOf
  <2>3. Lost \subseteq Lost'
    BY <1>1, <2>2 DEF Lost
  <2>4. S \in SUBSET Chunks /\ S \subseteq Forwarded \ ((Disk \cup Billed) \cup Lost)
    BY <1>1, <1>2, <2>2 DEF Lost
  <2>5. Metered!Lose(S)
    BY <1>1, <1>2, <2>2, <2>3, <2>4 DEF Metered!Lose, Metered!Recorded
  <2> QED BY <2>4, <2>5 DEF Metered!Next
<1> QED BY <1>3, <1>4

\* A step of the reports is a step of the metering, or none of it.
LEMMA MeteredNext == IInv /\ IInv' /\ [Next]_vars => [Metered!Next]_(Metered!vars)
<1> SUFFICES ASSUME IInv, IInv', [Next]_vars PROVE [Metered!Next]_(Metered!vars)
  OBVIOUS
<1>1. CASE UNCHANGED <<meta, charges, ledger>>
  BY <1>1, MeteredMove
<1>2. ASSUME NEW c \in Chunks, NEW f \in running \cup closing, recordTraffic(c, f)
      PROVE  [Metered!Next]_(Metered!vars)
  <2> DEFINE usage == [x \in Forwarded |-> [user |-> meta[x].user, hour |-> meta[x].hour]]
  <2>1. /\ c \notin Forwarded /\ Forwarded' = Forwarded \cup {c}
        /\ meta' = [x \in Forwarded \cup {c} |->
              IF x = c THEN [rule |-> f.rule, version |-> f.version, hour |-> hour, user |-> f.user]
                       ELSE meta[x]]
        /\ UNCHANGED <<diskPending, diskOutbox, charges, ledger>>
    BY <1>2 DEF recordTraffic, Forwarded, journalVars, ledgerVars
  <2>2. usage' = [x \in DOMAIN usage \cup {c} |->
                    IF x = c THEN [user |-> f.user, hour |-> hour] ELSE usage[x]]
    BY <2>1
  <2>3. f.user \in Users /\ hour \in Hours
    BY DEF IInv, TypeInv, TypeOK, Forwarders
  <2>4. Disk' = Disk /\ Billed' = Billed
    BY <2>1 DEF Disk, Billed
  <2>5. up' = up
    BY <1>2 DEF recordTraffic, engineVars
  <2>6. Lost' = Lost
    BY <2>5, LossStep DEF LossGoal
  <2>7. PICK u \in Users, h \in Hours : u = f.user /\ h = hour
    BY <2>3
  <2>8. Metered!Record(c, u, h)
    BY <2>1, <2>2, <2>4, <2>6, <2>7 DEF Metered!Record, Metered!Recorded
  <2> QED BY <2>8 DEF Metered!Next
<1>3. CASE handleReport
  <2>1. /\ outbox \in Known /\ outbox \in Batches /\ outbox.chunks \subseteq Disk
    BY <1>3 DEF handleReport, IInv, TypeInv, TypeOK, Busy, Saved, Known, Disk, ChunksOf
  <2>2. UNCHANGED <<meta, diskPending, diskOutbox, up>>
    BY <1>3 DEF handleReport, histVars, journalVars, engineVars
  <2>3. Lost' = Lost
    BY <2>2, LossStep DEF LossGoal
  <2> QED BY <1>3, <2>1, <2>2, <2>3, MeteredRecord DEF handleReport
<1>4. ASSUME NEW b \in late, handleLateReport(b) PROVE [Metered!Next]_(Metered!vars)
  <2>1. b \in Known /\ b \in Batches /\ b.chunks \subseteq Disk \cup Billed
    BY DEF IInv, TypeInv, TypeOK, LateKept, Known
  <2>2. UNCHANGED <<meta, diskPending, diskOutbox, up>>
    BY <1>4 DEF handleLateReport, histVars, journalVars, engineVars
  <2>3. Lost' = Lost
    BY <2>2, LossStep DEF LossGoal
  <2> QED BY <1>4, <2>1, <2>2, <2>3, MeteredRecord DEF handleLateReport
<1> QED
  BY <1>1, <1>2, <1>3, <1>4 DEF Next, vars, engineVars, reportVars, journalVars, ruleVars,
     ledgerVars,
     netVars, histVars, TransferRule, BumpConfigVersion, apply, checkpointTraffic,
     formBatch, retryBatch, saveBeforeSend, saveFails, send, receiveAck, saveAfterAck,
     requestFails, Exit, Restart, NextHour

\* The pipeline implements the abstract metering: whatever is retried, answered
\* late, crashed or reconfigured, traffic is recorded, secured or lost, and
\* charged once to its owner and hour.
THEOREM ImplementsMetering == Spec => MeteredSpec
<1>1. Init => Metered!Init
  BY MeteredInit
<1>2. IInv /\ IInv' /\ [Next]_vars => [Metered!Next]_(Metered!vars)
  BY MeteredNext
<1> QED BY <1>1, <1>2, Invariance, PTL DEF Spec, MeteredSpec, Metered!Spec

-----------------------------------------------------------------------------
(* The ingress. *)

\* The requests that count as open, those of one address or device, and the
\* state of a table: a key counts its requests, and every one of them has a key.
Stages ==
  {"idle", "admitted", "counted", "saving", "saved", "connected", "touching", "closing", "closed"}
Holder == Clients \cup {Unused.client}
Marks == [First : Nat, Last : Nat, Conns : Nat]
Counting(q) == {r \in Slots : q[r].pc \notin {"idle", "admitted"}}
Asking(q, kind, key) == {r \in Counting(q) : q[r].client[kind] = key}
Tallied(t, q, kind) ==
  /\ IsFiniteSet(DOMAIN t) /\ t \in [DOMAIN t -> Marks]
  /\ \A key \in DOMAIN t : t[key].Conns = Cardinality(Asking(q, kind, key))
  /\ \A r \in Counting(q) : q[r].client[kind] \in DOMAIN t

\* The keys of a table, with those its admitted requests are about to add.
Admitted(q) == {r \in Slots : q[r].pc = "admitted"}
Places(t, q, kind) == DOMAIN t \cup {q[r].client[kind] : r \in Admitted(q)}
Fits(limit, t, q, kind) == limit = 0 \/ Cardinality(Places(t, q, kind)) <= limit
Alone(q) == \A a, b \in Slots : q[a].pc \notin Between /\ q[b].pc \notin Between => a = b

\* What a request holds of a session is a number only while none was rebuilt.
Shaped(q) == \E V : q \in [Slots -> [pc : Stages, client : Holder, id : V, conns : V]]

IngressTypes ==
  /\ spec \in LimitSpecs /\ now \in Nat /\ lost \in Nat /\ overlapped \in BOOLEAN
  /\ Shaped(request)
Strictly ==
  /\ IsFiniteSet(Counting(request))
  /\ Tallied(ips, request, "ip") /\ Tallied(devices, request, "device")
  /\ ~overlapped =>
       /\ Alone(request)
       /\ Fits(minInt(spec.ruleIPs, spec.userIPs), ips, request, "ip")
       /\ Fits(spec.userDevices, devices, request, "device")

\* A session and the row of its client, apart from a request that is between the
\* two: the live rows of a client are the one its session knows of.
Writing == {"saving", "saved", "touching", "closing"}
Live(c, i) == \A id \in DOMAIN rows : rows[id].client = c /\ rows[id].conns > 0 => id = i
RowOf(c, i) == i \in DOMAIN rows /\ rows[i].client = c
Agrees(c) ==
  IF c \in DOMAIN sessions
  THEN /\ RowOf(c, sessions[c].ID) /\ rows[sessions[c].ID].conns = sessions[c].ConnCount
       /\ Live(c, sessions[c].ID)
  ELSE Live(c, 0)
Written(r) ==
  LET c == request[r].client
      i == request[r].id
      at(p) == request[r].pc = p
  IN /\ at("saving") =>
          /\ c \in DOMAIN sessions /\ sessions[c].ID = i
          /\ sessions[c].ConnCount = request[r].conns
          /\ i # 0 => RowOf(c, i) /\ rows[i].conns > 0
     /\ at("saved") =>
          /\ c \in DOMAIN sessions /\ RowOf(c, i)
          /\ rows[i].conns = sessions[c].ConnCount
     /\ at("touching") =>
          /\ c \in DOMAIN sessions /\ sessions[c].ID = i /\ RowOf(c, i)
          /\ rows[i].conns > 0 /\ sessions[c].ConnCount = rows[i].conns + 1
     /\ at("closing") =>
          /\ RowOf(c, i)
          /\ IF c \in DOMAIN sessions
             THEN sessions[c].ID = i /\ rows[i].conns = sessions[c].ConnCount + 1
             ELSE rows[i].conns = 1
     /\ request[r].pc \in Writing => Live(c, i)
Quiet(c) == \A r \in Slots : request[r].pc \in Writing => request[r].client # c
BookTypes ==
  /\ sessions \in [DOMAIN sessions -> [ID : Nat, ConnCount : Nat \ {0}, LastSeen : Nat]]
  /\ rows \in [DOMAIN rows -> [client : Holder, conns : Nat, seen : Nat]]
  /\ \E n \in Nat : DOMAIN rows \subseteq 1..n
  /\ request \in [Slots -> [pc : Stages, client : Holder, id : Nat, conns : Nat]]
Booked == BookTypes /\ (\A r \in Slots : Written(r)) /\ (\A c : Quiet(c) => Agrees(c))
IngressInv == IngressTypes /\ Strictly /\ (~overlapped /\ lost = 0 => Booked)

\* A table after it was cleaned up: only keys without a connection left it.
Cleaned(t, t2) ==
  /\ DOMAIN t2 \subseteq DOMAIN t /\ t2 \in [DOMAIN t2 -> Marks]
  /\ \A key \in DOMAIN t2 : t2[key].Conns = t[key].Conns
  /\ \A key \in DOMAIN t \ DOMAIN t2 : t[key].Conns = 0

\* A table that is cleaned up, while the requests that count stay as they are.
LEMMA TableKept ==
  ASSUME NEW q, NEW q2, NEW t, NEW t2, NEW kind, Tallied(t, q, kind),
         Counting(q2) = Counting(q), \A r \in Counting(q) : q2[r].client = q[r].client,
         Cleaned(t, t2), IsFiniteSet(Counting(q))
  PROVE  Tallied(t2, q2, kind)
<1> USE DEF Cleaned
<1>1. \A key : Asking(q2, kind, key) = Asking(q, kind, key)
  BY DEF Asking
<1>2. IsFiniteSet(DOMAIN t2)
  BY FS_Subset DEF Tallied
<1>3. ASSUME NEW r \in Counting(q2) PROVE q2[r].client[kind] \in DOMAIN t2
  <2>1. PICK key : key = q[r].client[kind]
    OBVIOUS
  <2>2. key \in DOMAIN t /\ r \in Asking(q, kind, key)
    BY <1>3, <2>1 DEF Tallied, Asking
  <2>3. IsFiniteSet(Asking(q, kind, key))
    BY FS_Subset DEF Asking
  <2>4. Cardinality(Asking(q, kind, key)) # 0
    BY <2>2, <2>3, FS_EmptySet
  <2> QED BY <1>3, <2>1, <2>2, <2>4 DEF Tallied
<1> QED BY <1>1, <1>2, <1>3 DEF Tallied

\* A request that is counted adds its key, or one to it.
LEMMA TableRaised ==
  ASSUME NEW q, NEW q2, NEW t, NEW kind, NEW r \in Slots, Tallied(t, q, kind), now \in Nat,
         r \notin Counting(q), Counting(q2) = Counting(q) \cup {r},
         \A s \in Slots : q2[s].client = q[s].client, IsFiniteSet(Counting(q))
  PROVE  Tallied(OneMore(t, q[r].client[kind]), q2, kind)
<1>1. PICK key : key = q[r].client[kind]
  OBVIOUS
<1>2. PICK t2 : t2 = OneMore(t, key)
  OBVIOUS
<1>3. Entry(t, key) \in Marks /\ Entry(t, key).Conns = Cardinality(Asking(q, kind, key))
  <2>1. CASE key \in DOMAIN t
    BY <2>1 DEF Entry, Tallied
  <2>2. CASE key \notin DOMAIN t
    <3>1. Asking(q, kind, key) = {}
      BY <2>2 DEF Tallied, Asking
    <3> QED BY <2>2, <3>1, FS_EmptySet DEF Entry, Marks
  <2> QED BY <2>1, <2>2
<1>4. PICK one : one = [Entry(t, key) EXCEPT !.Conns = @ + 1, !.Last = now]
  OBVIOUS
<1>14. one \in Marks /\ one.Conns = Entry(t, key).Conns + 1
  <2>1. PICK mark \in Marks : mark = Entry(t, key)
    BY <1>3
  <2>2. one = [mark EXCEPT !.Conns = mark.Conns + 1, !.Last = now]
    BY <1>4, <2>1
  <2>3. one \in Marks /\ one.Conns = mark.Conns + 1
    <3>1. PICK n : n = mark.Conns + 1
      OBVIOUS
    <3>2. n \in Nat
      BY <3>1 DEF Marks
    <3>3. one = [mark EXCEPT !.Conns = n, !.Last = now]
      BY <2>2, <3>1
    <3> QED BY <3>1, <3>2, <3>3 DEF Marks
  <2> QED BY <2>1, <2>3
<1>5. DOMAIN t2 = DOMAIN t \cup {key} /\ \A k \in DOMAIN t2 : t2[k] = IF k = key THEN one ELSE t[k]
  BY <1>2, <1>4 DEF OneMore, WithIt
<1>6. t2 = [k \in DOMAIN t2 |-> t2[k]]
  BY <1>2 DEF OneMore, WithIt
<1>7. t2 \in [DOMAIN t2 -> Marks]
  BY <1>5, <1>6, <1>14 DEF Tallied
<1>8. IsFiniteSet(DOMAIN t2)
  BY <1>5, FS_AddElement DEF Tallied
<1>9. Asking(q2, kind, key) = Asking(q, kind, key) \cup {r} /\ r \notin Asking(q, kind, key)
  BY <1>1 DEF Asking, Counting
<1>10. \A k : k # key => Asking(q2, kind, k) = Asking(q, kind, k)
  BY <1>1 DEF Asking, Counting
<1>11. Cardinality(Asking(q2, kind, key)) = Cardinality(Asking(q, kind, key)) + 1
  <2>1. IsFiniteSet(Asking(q, kind, key))
    BY FS_Subset DEF Asking
  <2> QED BY <1>9, <2>1, FS_AddElement
<1>12. \A k \in DOMAIN t2 : t2[k].Conns = Cardinality(Asking(q2, kind, k))
  BY <1>3, <1>5, <1>10, <1>11, <1>14 DEF Tallied
<1>13. \A s \in Counting(q2) : q2[s].client[kind] \in DOMAIN t2
  BY <1>1, <1>5 DEF Tallied, Counting
<1> QED BY <1>1, <1>2, <1>5, <1>7, <1>8, <1>12, <1>13 DEF Tallied

\* A request that is no longer counted takes one from its key, and no other.
LEMMA TableLowered ==
  ASSUME NEW q, NEW q2, NEW t, NEW kind, NEW r \in Counting(q), Tallied(t, q, kind), now \in Nat,
         Counting(q2) = Counting(q) \ {r},
         \A s \in Slots \ {r} : q2[s].client = q[s].client, IsFiniteSet(Counting(q))
  PROVE  Tallied(OneLess(t, q[r].client[kind]), q2, kind)
<1>1. PICK key : key = q[r].client[kind]
  OBVIOUS
<1>2. PICK t2 : t2 = OneLess(t, key)
  OBVIOUS
<1>3. key \in DOMAIN t /\ t[key] \in Marks
  BY <1>1 DEF Tallied
<1>4. r \in Asking(q, kind, key) /\ IsFiniteSet(Asking(q, kind, key))
  BY <1>1, FS_Subset DEF Asking
<1>5. /\ t[key].Conns = Cardinality(Asking(q, kind, key)) /\ t[key].Conns > 0
      /\ Cardinality(Asking(q, kind, key) \ {r}) = t[key].Conns - 1
  <2>1. Cardinality(Asking(q, kind, key)) # 0
    BY <1>4, FS_EmptySet
  <2>2. Cardinality(Asking(q, kind, key)) \in Nat
    BY <1>4, FS_CardinalityType
  <2>3. t[key].Conns = Cardinality(Asking(q, kind, key))
    BY <1>3 DEF Tallied
  <2>4. Cardinality(Asking(q, kind, key) \ {r}) = Cardinality(Asking(q, kind, key)) - 1
    BY <1>4, FS_RemoveElement
  <2> QED BY <2>1, <2>2, <2>3, <2>4
<1>6. PICK one : one = [t[key] EXCEPT !.Conns = t[key].Conns - 1, !.Last = now]
  OBVIOUS
<1>7. one \in Marks /\ one.Conns = t[key].Conns - 1
  <2>1. PICK mark \in Marks : mark = t[key]
    BY <1>3
  <2>2. mark.Conns - 1 \in Nat
    BY <1>5, <2>1 DEF Marks
  <2> QED BY <1>6, <2>1, <2>2 DEF Marks
<1>8. t2 = [t EXCEPT ![key] = one]
  <2>1. t2 = [t EXCEPT ![key] = [t[key] EXCEPT !.Conns = IF t[key].Conns > 0 THEN t[key].Conns - 1 ELSE 0, !.Last = now]]
    BY <1>2, <1>3 DEF OneLess, Tallied, Marks
  <2> QED BY <1>5, <1>6, <2>1
<1>9. /\ DOMAIN t2 = DOMAIN t /\ t2 \in [DOMAIN t -> Marks]
      /\ \A k \in DOMAIN t : t2[k] = IF k = key THEN one ELSE t[k]
  BY <1>3, <1>7, <1>8 DEF Tallied
<1>10. \A k : Asking(q2, kind, k) = IF k = key THEN Asking(q, kind, key) \ {r} ELSE Asking(q, kind, k)
  BY <1>1 DEF Asking, Counting
<1>11. \A k \in DOMAIN t2 : t2[k].Conns = Cardinality(Asking(q2, kind, k))
  BY <1>5, <1>7, <1>9, <1>10 DEF Tallied
<1>12. \A s \in Counting(q2) : q2[s].client[kind] \in DOMAIN t2
  BY <1>9 DEF Tallied, Counting
<1> QED BY <1>1, <1>2, <1>9, <1>11, <1>12 DEF Tallied

\* Cleaning up, and the check of an address or a device, only clean; and who is
\* let in has a place or there is one left.
LEMMA TableCleaned ==
  ASSUME NEW t, NEW q, NEW kind, Tallied(t, q, kind), now \in Nat
  PROVE  /\ Cleaned(t, t)
         /\ \A gone \in SUBSET DOMAIN t :
              (\A key \in gone : t[key].Conns = 0) => Cleaned(t, Dropping(t, gone))
         /\ \A key, limit :
              LET a == Allow(t, key, limit)
              IN /\ Cleaned(t, a.table)
                 /\ a.ok => \/ limit = 0 \/ key \in DOMAIN a.table
                            \/ Cardinality(DOMAIN a.table) < limit
<1>1. Cleaned(t, t)
  BY DEF Cleaned, Tallied
<1>2. ASSUME NEW gone \in SUBSET DOMAIN t, \A key \in gone : t[key].Conns = 0
      PROVE  Cleaned(t, Dropping(t, gone))
  BY <1>2 DEF Cleaned, Dropping, Tallied
<1>3. ASSUME NEW key, NEW limit
      PROVE  LET a == Allow(t, key, limit)
             IN /\ Cleaned(t, a.table)
                /\ a.ok => \/ limit = 0 \/ key \in DOMAIN a.table
                           \/ Cardinality(DOMAIN a.table) < limit
  <2>1. PICK left : left = prune(t)
    OBVIOUS
  <2>2. Cleaned(t, left)
    BY <1>2, <2>1 DEF prune
  <2>3. CASE limit = 0
    BY <1>1, <2>3 DEF Allow
  <2>4. CASE limit # 0 /\ key \in DOMAIN left
    <3>1. PICK seen : seen = [left EXCEPT ![key].Last = now]
      OBVIOUS
    <3>2. /\ DOMAIN seen = DOMAIN left /\ seen \in [DOMAIN left -> Marks]
          /\ \A k \in DOMAIN left : seen[k].Conns = left[k].Conns
      BY <2>2, <2>4, <3>1 DEF Cleaned, Marks
    <3>3. Cleaned(t, seen)
      BY <2>2, <3>2 DEF Cleaned
    <3> QED BY <2>1, <2>4, <3>1, <3>2, <3>3 DEF Allow
  <2>5. CASE limit # 0 /\ key \notin DOMAIN left
    BY <2>1, <2>2, <2>5 DEF Allow
  <2> QED BY <2>3, <2>4, <2>5
<1> QED BY <1>1, <1>2, <1>3

\* What becomes of the requests when one of them moves.
MovesTo(q, q2, r, p, i, n) ==
  /\ Shaped(q2) /\ \A s \in Slots \ {r} : q2[s] = q[s]
  /\ q2[r].pc = p /\ q2[r].client = q[r].client /\ q2[r].id = i /\ q2[r].conns = n

\* The shapes in which the code writes a move.
LEMMA Moved ==
  ASSUME NEW q, NEW r \in Slots, NEW p \in Stages, NEW i, NEW n, Shaped(q)
  PROVE  /\ MovesTo(q, [q EXCEPT ![r].pc = p], r, p, q[r].id, q[r].conns)
         /\ MovesTo(q, [q EXCEPT ![r].pc = p, ![r].id = i], r, p, i, q[r].conns)
         /\ MovesTo(q, [q EXCEPT ![r].pc = p, ![r].id = i, ![r].conns = n], r, p, i, n)
<1>1. PICK V : q \in [Slots -> [pc : Stages, client : Holder, id : V, conns : V]]
  BY DEF Shaped
<1>2. PICK W : W = V \cup {i, n}
  OBVIOUS
<1>3. q \in [Slots -> [pc : Stages, client : Holder, id : W, conns : W]]
  BY <1>1, <1>2
<1>4. ASSUME NEW x \in [pc : Stages, client : Holder, id : W, conns : W], x.client = q[r].client
      PROVE  MovesTo(q, [q EXCEPT ![r] = x], r, x.pc, x.id, x.conns)
  <2>1. [q EXCEPT ![r] = x] \in [Slots -> [pc : Stages, client : Holder, id : W, conns : W]]
    BY <1>3
  <2> QED BY <1>3, <1>4, <2>1 DEF MovesTo, Shaped
<1>5. q[r] \in [pc : Stages, client : Holder, id : W, conns : W]
  BY <1>3
<1>6. MovesTo(q, [q EXCEPT ![r].pc = p], r, p, q[r].id, q[r].conns)
  <2>1. PICK x : x = [q[r] EXCEPT !.pc = p]
    OBVIOUS
  <2>2. x \in [pc : Stages, client : Holder, id : W, conns : W] /\ x.client = q[r].client
        /\ x.pc = p /\ x.id = q[r].id /\ x.conns = q[r].conns
    BY <1>5, <2>1
  <2>3. [q EXCEPT ![r].pc = p] = [q EXCEPT ![r] = x]
    BY <1>3, <2>1
  <2> QED BY <1>4, <2>2, <2>3
<1>7. MovesTo(q, [q EXCEPT ![r].pc = p, ![r].id = i], r, p, i, q[r].conns)
  <2>1. PICK x : x = [q[r] EXCEPT !.pc = p, !.id = i]
    OBVIOUS
  <2>2. x \in [pc : Stages, client : Holder, id : W, conns : W] /\ x.client = q[r].client
        /\ x.pc = p /\ x.id = i /\ x.conns = q[r].conns
    BY <1>2, <1>5, <2>1
  <2>3. [q EXCEPT ![r].pc = p, ![r].id = i] = [q EXCEPT ![r] = x]
    BY <1>3, <2>1
  <2> QED BY <1>4, <2>2, <2>3
<1>8. MovesTo(q, [q EXCEPT ![r].pc = p, ![r].id = i, ![r].conns = n], r, p, i, n)
  <2>1. PICK x : x = [q[r] EXCEPT !.pc = p, !.id = i, !.conns = n]
    OBVIOUS
  <2>2. x \in [pc : Stages, client : Holder, id : W, conns : W] /\ x.client = q[r].client
        /\ x.pc = p /\ x.id = i /\ x.conns = n
    BY <1>2, <1>5, <2>1
  <2>3. [q EXCEPT ![r].pc = p, ![r].id = i, ![r].conns = n] = [q EXCEPT ![r] = x]
    BY <1>3, <2>1
  <2> QED BY <1>4, <2>2, <2>3
<1> QED BY <1>6, <1>7, <1>8

\* A request put in another state altogether.
LEMMA Placed ==
  ASSUME NEW q, NEW r \in Slots, NEW x \in [pc : Stages, client : Holder, id : Nat, conns : Nat], Shaped(q)
  PROVE  LET q2 == [q EXCEPT ![r] = x] IN
           Shaped(q2) /\ q2[r] = x /\ \A s \in Slots \ {r} : q2[s] = q[s]
<1>1. PICK V : q \in [Slots -> [pc : Stages, client : Holder, id : V, conns : V]]
  BY DEF Shaped
<1>2. PICK W : W = V \cup Nat
  OBVIOUS
<1>3. x \in [pc : Stages, client : Holder, id : W, conns : W]
  BY <1>2
<1>4. q \in [Slots -> [pc : Stages, client : Holder, id : W, conns : W]]
  BY <1>1, <1>2
<1>5. [q EXCEPT ![r] = x] \in [Slots -> [pc : Stages, client : Holder, id : W, conns : W]]
  BY <1>3, <1>4
<1> QED BY <1>4, <1>5 DEF Shaped

\* A free request, and one that is just connected, are requests.
LEMMA FreeRequests ==
  /\ Unused \in [pc : Stages, client : Holder, id : Nat, conns : Nat] /\ Unused.pc = "idle"
  /\ \A c \in Holder : /\ Connected(c) \in [pc : Stages, client : Holder, id : Nat, conns : Nat]
                       /\ Connected(c).pc = "connected" /\ Connected(c).client = c
BY DEF Unused, Connected, Holder, Stages

\* At first nothing is counted, and nothing is written.
LEMMA IngressInit == InitIngress => IngressInv
<1> SUFFICES ASSUME InitIngress PROVE IngressInv
  OBVIOUS
<1>1. /\ spec \in LimitSpecs /\ now = 0 /\ lost = 0 /\ overlapped = FALSE
      /\ ips = <<>> /\ devices = <<>> /\ sessions = <<>> /\ rows = <<>>
      /\ request = [r \in Slots |-> Unused]
  BY DEF InitIngress
<1>2. request \in [Slots -> [pc : Stages, client : Holder, id : Nat, conns : Nat]]
  BY <1>1, FreeRequests
<1>3. IngressTypes
  BY <1>1, <1>2 DEF IngressTypes, Shaped
<1>4. \A r \in Slots : request[r].pc = "idle"
  BY <1>1, FreeRequests
<1>5. Strictly
  <2>1. Counting(request) = {} /\ Admitted(request) = {}
    BY <1>4 DEF Counting, Admitted
  <2>2. Alone(request)
    BY <1>4 DEF Alone, Between
  <2>3. DOMAIN ips = {} /\ DOMAIN devices = {} /\ ips \in [{} -> Marks] /\ devices \in [{} -> Marks]
    BY <1>1
  <2>4. Tallied(ips, request, "ip") /\ Tallied(devices, request, "device")
    BY <2>1, <2>3, FS_EmptySet DEF Tallied
  <2>5. Cardinality({}) = 0 /\ IsFiniteSet({})
    BY FS_EmptySet
  <2>6. Places(ips, request, "ip") = {} /\ Places(devices, request, "device") = {}
    BY <2>1, <2>3 DEF Places
  <2>7. Fits(minInt(spec.ruleIPs, spec.userIPs), ips, request, "ip") /\ Fits(spec.userDevices, devices, request, "device")
    <3>1. minInt(spec.ruleIPs, spec.userIPs) \in Nat /\ spec.userDevices \in Nat
      BY <1>1, LimitsNumbered DEF minInt
    <3> QED BY <2>5, <2>6, <3>1 DEF Fits
  <2> QED BY <2>1, <2>2, <2>4, <2>5, <2>7 DEF Strictly
<1>6. Booked
  <2>1. DOMAIN sessions = {} /\ DOMAIN rows = {} /\ DOMAIN rows \subseteq 1..0
    BY <1>1
  <2>2. sessions \in [{} -> [ID : Nat, ConnCount : Nat \ {0}, LastSeen : Nat]]
    BY <1>1
  <2>3. rows \in [{} -> [client : Holder, conns : Nat, seen : Nat]]
    BY <1>1
  <2>4. BookTypes
    BY <1>2, <2>1, <2>2, <2>3 DEF BookTypes
  <2>5. \A r \in Slots : Written(r)
    BY <1>4 DEF Written, Writing
  <2>6. \A c : Agrees(c)
    BY <2>1 DEF Agrees, Live
  <2> QED BY <2>4, <2>5, <2>6 DEF Booked
<1> QED BY <1>3, <1>5, <1>6 DEF IngressInv

\* At most one request is about to add a key, so the places are finitely many.
LEMMA FewPlaces ==
  ASSUME NEW q, Alone(q), NEW t, NEW kind, IsFiniteSet(DOMAIN t)
  PROVE  IsFiniteSet(Places(t, q, kind))
<1>1. CASE Admitted(q) = {}
  BY <1>1 DEF Places
<1>2. CASE Admitted(q) # {}
  <2>1. PICK r : r \in Admitted(q)
    BY <1>2
  <2>2. Admitted(q) = {r}
    BY <2>1 DEF Admitted, Alone, Between
  <2>3. Places(t, q, kind) = DOMAIN t \cup {q[r].client[kind]}
    BY <2>2 DEF Places
  <2> QED BY <2>3, FS_AddElement
<1> QED BY <1>1, <1>2

\* A step that only cleans, and in which requests that count go on counting.
LEMMA StrictlyKept ==
  ASSUME Strictly, IngressTypes, spec' = spec, Cleaned(ips, ips'), Cleaned(devices, devices'),
         Counting(request') = Counting(request), Admitted(request') \subseteq Admitted(request),
         \A r \in Counting(request) \cup Admitted(request') : request'[r].client = request[r].client,
         ~overlapped' => ~overlapped /\ Alone(request')
  PROVE  Strictly'
<1>1. IsFiniteSet(Counting(request'))
  BY DEF Strictly
<1>2. Tallied(ips', request', "ip") /\ Tallied(devices', request', "device")
  BY TableKept DEF Strictly
<1>3. ASSUME NEW limit \in Nat, NEW t, NEW t2, NEW kind, Alone(request),
             Cleaned(t, t2), Fits(limit, t, request, kind), IsFiniteSet(DOMAIN t)
      PROVE  Fits(limit, t2, request', kind)
  <2>1. Places(t2, request', kind) \subseteq Places(t, request, kind)
    BY <1>3 DEF Places, Cleaned
  <2>2. IsFiniteSet(Places(t, request, kind))
    BY <1>3, FewPlaces
  <2>3. /\ Cardinality(Places(t2, request', kind)) <= Cardinality(Places(t, request, kind))
        /\ Cardinality(Places(t2, request', kind)) \in Nat /\ Cardinality(Places(t, request, kind)) \in Nat
    BY <2>1, <2>2, FS_Subset, FS_CardinalityType
  <2> QED BY <1>3, <2>3 DEF Fits
<1>4. minInt(spec.ruleIPs, spec.userIPs) \in Nat /\ spec.userDevices \in Nat
  BY LimitsNumbered DEF minInt, IngressTypes
<1>5. minInt(spec.ruleIPs, spec.userIPs)' = minInt(spec.ruleIPs, spec.userIPs)
  BY DEF minInt
<1>6. ASSUME ~overlapped'
      PROVE  /\ Alone(request') /\ Fits(minInt(spec.ruleIPs, spec.userIPs), ips', request', "ip")
             /\ Fits(spec.userDevices, devices', request', "device")
  <2>1. ~overlapped /\ Alone(request') /\ Alone(request)
    BY <1>6 DEF Strictly
  <2>2. IsFiniteSet(DOMAIN ips) /\ IsFiniteSet(DOMAIN devices)
    BY DEF Strictly, Tallied
  <2> QED BY <1>3, <1>4, <2>1, <2>2 DEF Strictly
<1> QED BY <1>1, <1>2, <1>5, <1>6 DEF Strictly

\* A request that moves on while no other is in the middle of something.
LEMMA AloneKept ==
  ASSUME NEW q, NEW q2, NEW r \in Slots, \A s \in Slots \ {r} : q2[s] = q[s],
         \/ \A s \in Slots \ {r} : q[s].pc \in Between
         \/ Alone(q) /\ q[r].pc \notin Between
  PROVE  Alone(q2)
BY DEF Alone

\* The moves of a request that neither add nor remove a connection.
LEMMA StrictlyMoved ==
  ASSUME IngressInv, NEW r \in Slots, UNCHANGED <<spec, ips, devices>>,
         \A s \in Slots \ {r} : request'[s] = request[s],
         request'[r].client = request[r].client,
         request[r].pc \notin {"idle", "admitted"}, request'[r].pc \notin {"idle", "admitted"},
         \/ overlapped' = overlapped /\ request[r].pc \notin Between
         \/ overlapped' = (overlapped \/ SomeoneElse(r))
  PROVE  Strictly'
<1>1. Cleaned(ips, ips') /\ Cleaned(devices, devices')
  BY TableCleaned DEF IngressInv, IngressTypes, Strictly
<1>2. /\ Counting(request') = Counting(request) /\ Admitted(request') = Admitted(request)
      /\ \A s \in Slots : request'[s].client = request[s].client
  BY DEF Counting, Admitted
<1>3. ~overlapped' => ~overlapped /\ Alone(request')
  BY AloneKept DEF SomeoneElse, IngressInv, Strictly
<1> QED BY <1>1, <1>2, <1>3, StrictlyKept DEF IngressInv, Counting, Admitted

\* Requests that write nothing leave the book as it is.
LEMMA BookKept ==
  ASSUME Booked, UNCHANGED <<sessions, rows>>,
         request' \in [Slots -> [pc : Stages, client : Holder, id : Nat, conns : Nat]],
         \A s \in Slots : \/ request'[s] = request[s]
                          \/ request[s].pc \notin Writing /\ request'[s].pc \notin Writing
  PROVE  Booked'
<1>1. BookTypes'
  BY DEF Booked, BookTypes
<1>2. \A c, i : (Live(c, i)' <=> Live(c, i)) /\ (RowOf(c, i)' <=> RowOf(c, i))
  BY DEF Live, RowOf
<1>3. ASSUME NEW s \in Slots PROVE Written(s)'
  <2>1. CASE request'[s] = request[s]
    <3>1. Written(s)
      BY DEF Booked
    <3> QED BY <1>2, <2>1, <3>1 DEF Written
  <2>2. CASE request'[s].pc \notin Writing
    BY <2>2 DEF Written, Writing
  <2> QED BY <2>1, <2>2
<1>4. ASSUME NEW c, Quiet(c)' PROVE Agrees(c)'
  <2>1. Quiet(c)
    BY <1>4 DEF Quiet
  <2>2. Agrees(c)
    BY <2>1 DEF Booked
  <2> QED BY <1>2, <2>2 DEF Agrees
<1> QED BY <1>1, <1>3, <1>4 DEF Booked

\* One request that writes, or begins or ends to, concerns its own client only.
LEMMA BookWritten ==
  ASSUME Booked, BookTypes', NEW r \in Slots, NEW c, request[r].client = c, request'[r].client = c,
         \A s \in Slots \ {r} : request'[s] = request[s] /\ request[s].pc \notin Writing,
         \A d : d # c => (d \in DOMAIN sessions' <=> d \in DOMAIN sessions),
         \A d \in DOMAIN sessions : d # c => sessions'[d] = sessions[d],
         \A id \in DOMAIN rows : rows[id].client # c => id \in DOMAIN rows' /\ rows'[id] = rows[id],
         \A id \in DOMAIN rows' : rows'[id].client # c => id \in DOMAIN rows /\ rows'[id] = rows[id],
         Written(r)', request'[r].pc \notin Writing => Agrees(c)'
  PROVE  Booked'
<1>1. ASSUME NEW s \in Slots PROVE Written(s)'
  <2>1. CASE s = r
    BY <2>1
  <2>2. CASE s # r
    <3>1. request'[s].pc \notin Writing
      BY <2>2
    <3> QED BY <3>1 DEF Written, Writing
  <2> QED BY <2>1, <2>2
<1>2. ASSUME NEW d, Quiet(d)' PROVE Agrees(d)'
  <2>1. CASE d = c
    BY <1>2, <2>1 DEF Quiet
  <2>2. CASE d # c
    <3>1. Quiet(d)
      BY <2>2 DEF Quiet
    <3>2. Agrees(d)
      BY <3>1 DEF Booked
    <3>3. \A i : (Live(d, i) => Live(d, i)') /\ (RowOf(d, i) => RowOf(d, i)' /\ rows'[i] = rows[i])
      BY <2>2 DEF Live, RowOf
    <3>4. CASE d \in DOMAIN sessions
      <4>1. PICK i : i = sessions[d].ID
        OBVIOUS
      <4>2. RowOf(d, i) /\ rows[i].conns = sessions[d].ConnCount /\ Live(d, i)
        BY <3>2, <3>4, <4>1 DEF Agrees
      <4>3. RowOf(d, i)' /\ rows'[i].conns = sessions'[d].ConnCount /\ Live(d, i)'
        BY <2>2, <3>3, <3>4, <4>2
      <4>4. d \in DOMAIN sessions' /\ i = sessions'[d].ID
        BY <2>2, <3>4, <4>1
      <4> QED BY <4>3, <4>4 DEF Agrees
    <3>5. CASE d \notin DOMAIN sessions
      BY <2>2, <3>2, <3>3, <3>5 DEF Agrees
    <3> QED BY <3>4, <3>5
  <2> QED BY <2>1, <2>2
<1> QED BY <1>1, <1>2 DEF Booked

\* Who passes the check has a place in each table, or takes the last one left.
LEMMA PlaceTaken ==
  ASSUME NEW t, NEW t2, NEW kind, NEW limit \in Nat, NEW r \in Slots, Strictly,
         Tallied(t, request, kind), Alone(request), Fits(limit, t, request, kind), Cleaned(t, t2),
         limit = 0 \/ request'[r].client[kind] \in DOMAIN t2 \/ Cardinality(DOMAIN t2) < limit,
         Admitted(request') = {r}
  PROVE  Fits(limit, t2, request', kind)
<1>1. Places(t2, request', kind) = DOMAIN t2 \cup {request'[r].client[kind]}
  BY DEF Places
<1>2. IsFiniteSet(DOMAIN t2)
  BY FS_Subset DEF Tallied, Cleaned
<1>3. CASE limit = 0
  BY <1>3 DEF Fits
<1>4. CASE request'[r].client[kind] \in DOMAIN t2
  <2>1. Places(t2, request', kind) \subseteq Places(t, request, kind)
    BY <1>1, <1>4 DEF Places, Cleaned
  <2>2. IsFiniteSet(Places(t, request, kind))
    BY FewPlaces DEF Tallied
  <2>3. /\ Cardinality(Places(t2, request', kind)) <= Cardinality(Places(t, request, kind))
        /\ Cardinality(Places(t2, request', kind)) \in Nat /\ Cardinality(Places(t, request, kind)) \in Nat
    BY <2>1, <2>2, FS_Subset, FS_CardinalityType
  <2> QED BY <2>3 DEF Fits
<1>5. CASE request'[r].client[kind] \notin DOMAIN t2 /\ Cardinality(DOMAIN t2) < limit
  <2>1. Cardinality(DOMAIN t2) \in Nat
    BY <1>2, FS_CardinalityType
  <2>2. Cardinality(Places(t2, request', kind)) = Cardinality(DOMAIN t2) + 1
    BY <1>1, <1>2, <1>5, FS_AddElement
  <2> QED BY <1>5, <2>1, <2>2 DEF Fits
<1> QED BY <1>3, <1>4, <1>5

\* A request is checked.
LEMMA Checks ==
  ASSUME IngressInv, NEW r \in Slots, request[r].pc = "idle", NEW c \in Clients, NEW udp \in BOOLEAN,
         CheckIngress(r, c, udp)
  PROVE  IngressInv'
<1>1. PICK byIP : byIP = Allow(ips, c.ip, minInt(spec.ruleIPs, spec.userIPs))
  OBVIOUS
<1>2. PICK byDevice : byDevice = Allow(devices, c.device, spec.userDevices)
  OBVIOUS
<1>3. /\ overlapped' = (overlapped \/ SomeoneElse(r)) /\ UNCHANGED <<spec, now, sessions, rows, touches, lost>>
      /\ ips' \in {ips, byIP.table} /\ devices' \in {devices, byDevice.table}
      /\ \/ request' = request
         \/ /\ request' = [request EXCEPT ![r].pc = "admitted", ![r].client = c]
            /\ byIP.ok /\ ips' = byIP.table /\ byDevice.ok /\ devices' = byDevice.table
  BY <1>1, <1>2 DEF CheckIngress
<1>4. Cleaned(ips, ips') /\ Cleaned(devices, devices')
  BY <1>1, <1>2, <1>3, TableCleaned DEF IngressInv, IngressTypes, Strictly
<1>5. ~overlapped' => ~overlapped /\ Alone(request) /\ \A s \in Slots : request[s].pc \in Between
  <2>1. request[r].pc \in Between
    BY DEF Between
  <2> QED BY <1>3, <2>1 DEF SomeoneElse, IngressInv, Strictly
<1>6. overlapped' \in BOOLEAN
  BY <1>3
<1>7. CASE request' = request
  <2>1. IngressTypes'
    BY <1>3, <1>6, <1>7 DEF IngressInv, IngressTypes, Shaped
  <2>2. Strictly'
    BY <1>3, <1>4, <1>5, <1>7, StrictlyKept DEF IngressInv, Counting, Admitted
  <2>3. ~overlapped' /\ lost' = 0 => Booked'
    <3>1. ASSUME Booked PROVE Booked'
      BY <1>3, <1>7, <3>1, BookKept DEF Booked, BookTypes
    <3> QED BY <1>3, <1>5, <3>1 DEF IngressInv
  <2> QED BY <2>1, <2>2, <2>3 DEF IngressInv
<1>8. CASE /\ request' = [request EXCEPT ![r].pc = "admitted", ![r].client = c]
           /\ byIP.ok /\ ips' = byIP.table /\ byDevice.ok /\ devices' = byDevice.table
  <2>1. \A V : request \in [Slots -> [pc : Stages, client : Holder, id : V, conns : V]] =>
          request' \in [Slots -> [pc : Stages, client : Holder, id : V, conns : V]]
    BY ZenonT(30), <1>8 DEF Stages, Holder
  <2>2. IngressTypes'
    BY <1>3, <1>6, <2>1 DEF IngressInv, IngressTypes, Shaped
  <2>3. /\ \A s \in Slots \ {r} : request'[s] = request[s]
        /\ request'[r].pc = "admitted" /\ request'[r].client = c
    BY <1>8 DEF IngressInv, IngressTypes, Shaped
  <2>4. Counting(request') = Counting(request) /\ r \notin Counting(request)
    BY <2>3 DEF Counting
  <2>5. Tallied(ips', request', "ip") /\ Tallied(devices', request', "device")
    <3>1. \A s \in Counting(request) : request'[s].client = request[s].client
      BY <2>3, <2>4 DEF Counting
    <3> QED BY <1>4, <2>4, <3>1, TableKept DEF IngressInv, Strictly
  <2>6. ASSUME ~overlapped'
        PROVE  /\ Alone(request') /\ Fits(minInt(spec.ruleIPs, spec.userIPs), ips', request', "ip")
               /\ Fits(spec.userDevices, devices', request', "device")
    <3>1. Admitted(request') = {r}
      BY <1>5, <2>3, <2>6 DEF Admitted, Between
    <3>2. Alone(request')
      BY <1>5, <2>3, <2>6, AloneKept
    <3>3. minInt(spec.ruleIPs, spec.userIPs) \in Nat /\ spec.userDevices \in Nat
      BY LimitsNumbered DEF minInt, IngressInv, IngressTypes
    <3>4. /\ \/ minInt(spec.ruleIPs, spec.userIPs) = 0 \/ c.ip \in DOMAIN ips'
             \/ Cardinality(DOMAIN ips') < minInt(spec.ruleIPs, spec.userIPs)
          /\ \/ spec.userDevices = 0 \/ c.device \in DOMAIN devices'
             \/ Cardinality(DOMAIN devices') < spec.userDevices
      BY <1>1, <1>2, <1>8, TableCleaned DEF IngressInv, IngressTypes, Strictly
    <3>5. Fits(minInt(spec.ruleIPs, spec.userIPs), ips', request', "ip")
      BY <1>4, <1>5, <2>3, <2>6, <3>1, <3>3, <3>4, PlaceTaken DEF IngressInv, Strictly
    <3>6. Fits(spec.userDevices, devices', request', "device")
      BY <1>4, <1>5, <2>3, <2>6, <3>1, <3>3, <3>4, PlaceTaken DEF IngressInv, Strictly
    <3> QED BY <3>2, <3>5, <3>6
  <2>7. Strictly'
    BY <1>3, <2>4, <2>5, <2>6 DEF IngressInv, Strictly, minInt
  <2>8. ASSUME Booked PROVE Booked'
    <3>1. request' \in [Slots -> [pc : Stages, client : Holder, id : Nat, conns : Nat]]
      BY <2>1, <2>8 DEF Booked, BookTypes
    <3>2. request[r].pc \notin Writing /\ request'[r].pc \notin Writing
      BY <2>3 DEF Writing
    <3> QED BY <1>3, <2>3, <2>8, <3>1, <3>2, BookKept
  <2> QED BY <1>3, <1>5, <2>2, <2>7, <2>8 DEF IngressInv
<1> QED BY <1>3, <1>7, <1>8

\* A checked connection opens: it is counted in both tables.
LEMMA Opens == ASSUME IngressInv, NEW r \in Slots, OpenConn(r) PROVE IngressInv'
<1>1. /\ request[r].pc = "admitted" /\ request' = [request EXCEPT ![r].pc = "counted"]
      /\ ips' = OneMore(ips, request[r].client.ip) /\ devices' = OneMore(devices, request[r].client.device)
      /\ UNCHANGED <<spec, now, sessions, rows, overlapped, lost>>
  BY DEF OpenConn, counters
<1>2. MovesTo(request, request', r, "counted", request[r].id, request[r].conns)
  <2>1. Shaped(request) /\ "counted" \in Stages
    BY DEF IngressInv, IngressTypes, Stages
  <2>2. MovesTo(request, [request EXCEPT ![r].pc = "counted"], r, "counted", request[r].id, request[r].conns)
    BY <2>1, Moved
  <2> QED BY <1>1, <2>2
<1>12. Shaped(request') /\ \A s \in Slots \ {r} : request'[s] = request[s]
  BY <1>2 DEF MovesTo
<1>3. request'[r].pc = "counted" /\ \A s \in Slots : request'[s].client = request[s].client
  BY <1>2 DEF MovesTo
<1>4. IngressTypes'
  BY <1>1, <1>12 DEF IngressInv, IngressTypes
<1>5. r \notin Counting(request) /\ Counting(request') = Counting(request) \cup {r}
  BY <1>1, <1>3, <1>12 DEF Counting
<1>6. /\ Tallied(ips', request', "ip") /\ Tallied(devices', request', "device")
      /\ DOMAIN ips' = DOMAIN ips \cup {request[r].client.ip}
      /\ DOMAIN devices' = DOMAIN devices \cup {request[r].client.device}
  <2>1. /\ Tallied(ips, request, "ip") /\ Tallied(devices, request, "device")
        /\ IsFiniteSet(Counting(request)) /\ now \in Nat
    BY DEF IngressInv, IngressTypes, Strictly
  <2>2. Tallied(OneMore(ips, request[r].client["ip"]), request', "ip")
    BY <1>3, <1>5, <2>1, TableRaised
  <2>3. DOMAIN OneMore(ips, request[r].client["ip"]) = DOMAIN ips \cup {request[r].client["ip"]}
    BY DEF OneMore, WithIt
  <2>4. Tallied(OneMore(devices, request[r].client["device"]), request', "device")
    BY <1>3, <1>5, <2>1, TableRaised
  <2>5. DOMAIN OneMore(devices, request[r].client["device"]) = DOMAIN devices \cup {request[r].client["device"]}
    BY DEF OneMore, WithIt
  <2> QED BY <1>1, <2>2, <2>3, <2>4, <2>5
<1>7. IsFiniteSet(Counting(request'))
  BY <1>5, FS_AddElement DEF IngressInv, Strictly
<1>8. Places(ips', request', "ip") = Places(ips, request, "ip")
      /\ Places(devices', request', "device") = Places(devices, request, "device")
  <2>1. Admitted(request) = Admitted(request') \cup {r}
    BY <1>1, <1>3, <1>12 DEF Admitted
  <2>2. \A kind, t, t2 : DOMAIN t2 = DOMAIN t \cup {request[r].client[kind]} =>
          Places(t2, request', kind) = Places(t, request, kind)
    <3>1. \A kind : {request[s].client[kind] : s \in Admitted(request)}
                     = {request'[s].client[kind] : s \in Admitted(request')} \cup {request[r].client[kind]}
      BY <1>3, <2>1 DEF Admitted
    <3> QED BY <3>1 DEF Places
  <2>3. /\ DOMAIN ips' = DOMAIN ips \cup {request[r].client["ip"]}
        /\ DOMAIN devices' = DOMAIN devices \cup {request[r].client["device"]}
    BY <1>6
  <2> QED BY <2>2, <2>3
<1>9. Alone(request) => Alone(request')
  BY <1>1, <1>12, AloneKept DEF Between
<1>10. Strictly'
  BY <1>1, <1>6, <1>7, <1>8, <1>9 DEF IngressInv, Strictly, Fits, minInt
<1>11. ASSUME Booked PROVE Booked'
  <2>1. request' \in [Slots -> [pc : Stages, client : Holder, id : Nat, conns : Nat]]
    BY <1>1, <1>11 DEF Booked, BookTypes, Stages
  <2> QED BY <1>1, <1>3, <1>12, <1>11, <2>1, BookKept DEF Writing
<1> QED BY <1>1, <1>4, <1>10, <1>11 DEF IngressInv

\* A connection closes: it leaves both tables' counts.
LEMMA Closes == ASSUME IngressInv, NEW r \in Slots, CloseConn(r) PROVE IngressInv'
<1>1. /\ request[r].pc = "closed" /\ request' = [request EXCEPT ![r] = Unused]
      /\ ips' = OneLess(ips, request[r].client.ip) /\ devices' = OneLess(devices, request[r].client.device)
      /\ UNCHANGED <<spec, now, sessions, rows, overlapped, lost>>
  BY DEF CloseConn, counters
<1>2. /\ Shaped(request') /\ \A s \in Slots \ {r} : request'[s] = request[s]
      /\ request'[r] = Unused
  <2>1. Shaped(request)
    BY DEF IngressInv, IngressTypes
  <2>2. Unused \in [pc : Stages, client : Holder, id : Nat, conns : Nat]
    BY FreeRequests
  <2>3. LET q2 == [request EXCEPT ![r] = Unused] IN
          Shaped(q2) /\ q2[r] = Unused /\ \A s \in Slots \ {r} : q2[s] = request[s]
    BY <2>1, <2>2, Placed
  <2> QED BY <1>1, <2>3
<1>3. request'[r].pc = "idle" /\ \A s \in Slots \ {r} : request'[s].client = request[s].client
  BY <1>2, FreeRequests
<1>4. IngressTypes'
  BY <1>1, <1>2 DEF IngressInv, IngressTypes
<1>5. r \in Counting(request) /\ Counting(request') = Counting(request) \ {r}
  BY <1>1, <1>2, <1>3 DEF Counting
<1>6. /\ Tallied(ips', request', "ip") /\ Tallied(devices', request', "device")
      /\ DOMAIN ips' = DOMAIN ips /\ DOMAIN devices' = DOMAIN devices
  <2>1. /\ Tallied(ips, request, "ip") /\ Tallied(devices, request, "device")
        /\ IsFiniteSet(Counting(request)) /\ now \in Nat
    BY DEF IngressInv, IngressTypes, Strictly
  <2>2. Tallied(OneLess(ips, request[r].client["ip"]), request', "ip")
    BY <1>3, <1>5, <2>1, TableLowered
  <2>3. Tallied(OneLess(devices, request[r].client["device"]), request', "device")
    BY <1>3, <1>5, <2>1, TableLowered
  <2>4. \A t, key : DOMAIN OneLess(t, key) = DOMAIN t
    BY DEF OneLess
  <2> QED BY <1>1, <2>2, <2>3, <2>4
<1>7. IsFiniteSet(Counting(request'))
  BY <1>5, FS_RemoveElement DEF IngressInv, Strictly
<1>8. Places(ips', request', "ip") = Places(ips, request, "ip")
      /\ Places(devices', request', "device") = Places(devices, request, "device")
  <2>1. Admitted(request) = Admitted(request') /\ r \notin Admitted(request)
    BY <1>1, <1>2, <1>3 DEF Admitted
  <2>2. \A s \in Admitted(request) : request'[s] = request[s]
    BY <1>2, <2>1 DEF Admitted
  <2> QED BY <1>6, <2>1, <2>2 DEF Places
<1>9. Alone(request) => Alone(request')
  BY <1>1, <1>2, AloneKept DEF Between
<1>10. Strictly'
  BY <1>1, <1>6, <1>7, <1>8, <1>9 DEF IngressInv, Strictly, Fits, minInt
<1>11. ASSUME Booked PROVE Booked'
  <2>1. request' \in [Slots -> [pc : Stages, client : Holder, id : Nat, conns : Nat]]
    BY <1>1, <1>11, FreeRequests DEF Booked, BookTypes
  <2> QED BY <1>1, <1>2, <1>3, <1>11, <2>1, BookKept DEF Writing
<1> QED BY <1>1, <1>4, <1>10, <1>11 DEF IngressInv

\* What every step between those two has in common: it moves one request that
\* counts, and leaves both tables alone.
LEMMA OneMoves ==
  ASSUME IngressInv, NEW r \in Slots, NEW p \in Stages \ {"idle", "admitted"}, NEW i, NEW n,
         request[r].pc \notin {"idle", "admitted"}, MovesTo(request, request', r, p, i, n),
         UNCHANGED <<spec, now, ips, devices>>, lost' \in {lost, lost + 1},
         \/ overlapped' = overlapped /\ request[r].pc \notin Between
         \/ overlapped' = (overlapped \/ SomeoneElse(r))
  PROVE  /\ IngressTypes' /\ Strictly'
         /\ ~overlapped' /\ lost' = 0 =>
              /\ Booked /\ lost' = lost
              /\ \A s \in Slots \ {r} : request'[s] = request[s] /\ request[s].pc \notin Writing
              /\ request'[r].client = request[r].client
              /\ request[r].pc \in Writing => Written(r)
              /\ request[r].pc \notin Writing => Agrees(request[r].client)
              /\ i \in Nat /\ n \in Nat =>
                   request' \in [Slots -> [pc : Stages, client : Holder, id : Nat, conns : Nat]]
<1>1. /\ Shaped(request') /\ \A s \in Slots \ {r} : request'[s] = request[s]
      /\ request'[r].pc = p /\ request'[r].client = request[r].client
      /\ request'[r].id = i /\ request'[r].conns = n
  BY DEF MovesTo
<1>2. IngressTypes'
  <2>1. overlapped' \in BOOLEAN /\ lost' \in Nat
    <3>1. overlapped \in BOOLEAN /\ lost \in Nat
      BY DEF IngressInv, IngressTypes
    <3>2. lost' \in Nat
      BY <3>1
    <3>3. overlapped' \in BOOLEAN
      BY <3>1
    <3> QED BY <3>2, <3>3
  <2> QED BY <1>1, <2>1 DEF IngressInv, IngressTypes
<1>3. Strictly'
  BY <1>1, StrictlyMoved
<1>4. ASSUME ~overlapped', lost' = 0
      PROVE  /\ Booked /\ lost' = lost
             /\ \A s \in Slots \ {r} : request'[s] = request[s] /\ request[s].pc \notin Writing
             /\ request'[r].client = request[r].client
             /\ request[r].pc \in Writing => Written(r)
             /\ request[r].pc \notin Writing => Agrees(request[r].client)
             /\ i \in Nat /\ n \in Nat =>
                  request' \in [Slots -> [pc : Stages, client : Holder, id : Nat, conns : Nat]]
  <2>1. lost = 0 /\ ~overlapped
    BY <1>4 DEF IngressInv, IngressTypes
  <2>2. Booked
    BY <2>1 DEF IngressInv
  <2>3. \A s \in Slots \ {r} : request[s].pc \in Between
    BY <1>4, <2>1 DEF SomeoneElse, IngressInv, Strictly, Alone
  <2>4. \A s \in Slots \ {r} : request[s].pc \notin Writing
    BY <2>3 DEF Between, Writing
  <2>5. request[r].pc \notin Writing => Agrees(request[r].client)
    BY <2>2, <2>4 DEF Booked, Quiet
  <2>6. ASSUME i \in Nat, n \in Nat
        PROVE  request' \in [Slots -> [pc : Stages, client : Holder, id : Nat, conns : Nat]]
    <3>1. PICK V : request' \in [Slots -> [pc : Stages, client : Holder, id : V, conns : V]]
      BY <1>1 DEF Shaped
    <3>2. request \in [Slots -> [pc : Stages, client : Holder, id : Nat, conns : Nat]]
      BY <2>2 DEF Booked, BookTypes
    <3>3. request'[r] \in [pc : Stages, client : Holder, id : Nat, conns : Nat]
      <4>1. PICK x \in [pc : Stages, client : Holder, id : V, conns : V] : x = request'[r]
        BY <3>1
      <4>2. x.id = i /\ x.conns = n
        BY <1>1, <4>1
      <4>3. x \in [pc : Stages, client : Holder, id : Nat, conns : Nat]
        BY <2>6, <4>2
      <4> QED BY <4>1, <4>3
    <3>4. \A s \in Slots : request'[s] \in [pc : Stages, client : Holder, id : Nat, conns : Nat]
      BY <1>1, <3>2, <3>3
    <3> QED BY <3>1, <3>4
  <2> QED BY <1>1, <2>1, <2>2, <2>4, <2>5, <2>6, <1>4 DEF Booked
<1> QED BY <1>2, <1>3, <1>4

\* A session is counted in memory, and a copy of it is about to be saved.
LEMMA SessionOpens == ASSUME IngressInv, NEW r \in Slots, OpenSession(r) PROVE IngressInv'
<1>1. PICK c : c = request[r].client
  OBVIOUS
<1>2. PICK st : st = IF c \in DOMAIN sessions THEN sessions[c] ELSE [ID |-> 0, ConnCount |-> 0, LastSeen |-> now]
  OBVIOUS
<1>3. PICK st2 : st2 = [st EXCEPT !.ConnCount = @ + 1, !.LastSeen = now]
  OBVIOUS
<1>4. /\ request[r].pc = "counted" /\ sessions' = WithIt(sessions, c, st2)
      /\ request' = [request EXCEPT ![r].pc = "saving", ![r].id = st.ID, ![r].conns = st.ConnCount + 1]
      /\ UNCHANGED <<spec, now, ips, devices, rows, overlapped, lost>>
  BY <1>1, <1>2, <1>3 DEF OpenSession, seenTables, counters
<1>5. MovesTo(request, request', r, "saving", st.ID, st.ConnCount + 1)
  BY <1>4, Moved DEF IngressInv, IngressTypes, Stages
<1>6. "saving" \in Stages \ {"idle", "admitted"} /\ request[r].pc \notin Between
  BY <1>4 DEF Stages, Between
<1>7. /\ IngressTypes' /\ Strictly'
      /\ ~overlapped' /\ lost' = 0 =>
           /\ Booked /\ lost' = lost
           /\ \A s \in Slots \ {r} : request'[s] = request[s] /\ request[s].pc \notin Writing
           /\ request'[r].client = request[r].client
           /\ request[r].pc \notin Writing => Agrees(request[r].client)
           /\ st.ID \in Nat /\ st.ConnCount + 1 \in Nat =>
                request' \in [Slots -> [pc : Stages, client : Holder, id : Nat, conns : Nat]]
  BY <1>4, <1>5, <1>6, OneMoves
<1>8. ASSUME ~overlapped', lost' = 0 PROVE Booked'
  <2>1. BookTypes /\ Booked /\ Agrees(c) /\ now \in Nat
    BY <1>1, <1>4, <1>7, <1>8 DEF Booked, IngressInv, IngressTypes, Writing
  <2>2. st.ID \in Nat /\ st.ConnCount \in Nat /\ st \in [ID : Nat, ConnCount : Nat, LastSeen : Nat]
    <3>1. CASE c \in DOMAIN sessions
      BY <1>2, <2>1, <3>1 DEF BookTypes
    <3>2. CASE c \notin DOMAIN sessions
      BY <1>2, <2>1, <3>2
    <3> QED BY <3>1, <3>2
  <2>3. st2 \in [ID : Nat, ConnCount : Nat \ {0}, LastSeen : Nat] /\ st2.ID = st.ID /\ st2.ConnCount = st.ConnCount + 1
    <3>1. PICK n : n = st.ConnCount + 1
      OBVIOUS
    <3>2. n \in Nat \ {0} /\ st2 = [st EXCEPT !.ConnCount = n, !.LastSeen = now]
      BY <1>3, <2>2, <3>1
    <3> QED BY <2>1, <2>2, <3>1, <3>2
  <2>4. /\ DOMAIN sessions' = DOMAIN sessions \cup {c}
        /\ sessions' = [d \in DOMAIN sessions \cup {c} |-> IF d = c THEN st2 ELSE sessions[d]]
    BY <1>4 DEF WithIt
  <2>5. BookTypes'
    <3>1. sessions' \in [DOMAIN sessions' -> [ID : Nat, ConnCount : Nat \ {0}, LastSeen : Nat]]
      BY <2>1, <2>3, <2>4 DEF BookTypes
    <3>2. rows' \in [DOMAIN rows' -> [client : Holder, conns : Nat, seen : Nat]] /\ \E n \in Nat : DOMAIN rows' \subseteq 1..n
      BY <1>4, <2>1 DEF BookTypes
    <3>3. request' \in [Slots -> [pc : Stages, client : Holder, id : Nat, conns : Nat]]
      BY <1>7, <1>8, <2>2
    <3> QED BY <3>1, <3>2, <3>3 DEF BookTypes
  <2>6. /\ request'[r].pc = "saving" /\ request'[r].client = c
        /\ request'[r].id = st.ID /\ request'[r].conns = st.ConnCount + 1
    BY <1>1, <1>5 DEF MovesTo
  <2>7. Live(c, st.ID) /\ (st.ID # 0 => RowOf(c, st.ID) /\ rows[st.ID].conns > 0)
    <3>1. CASE c \in DOMAIN sessions
      BY <1>2, <2>1, <3>1 DEF Agrees, BookTypes
    <3>2. CASE c \notin DOMAIN sessions
      BY <1>2, <2>1, <3>2 DEF Agrees
    <3> QED BY <3>1, <3>2
  <2>8. Written(r)'
    BY <1>4, <2>3, <2>4, <2>6, <2>7 DEF Written, Live, RowOf
  <2>9. request'[r].pc \in Writing
    BY <2>6 DEF Writing
  <2>10. /\ \A d : d # c => (d \in DOMAIN sessions' <=> d \in DOMAIN sessions)
         /\ \A d \in DOMAIN sessions : d # c => sessions'[d] = sessions[d]
    BY <2>4
  <2>11. /\ \A id \in DOMAIN rows : rows[id].client # c => id \in DOMAIN rows' /\ rows'[id] = rows[id]
         /\ \A id \in DOMAIN rows' : rows'[id].client # c => id \in DOMAIN rows /\ rows'[id] = rows[id]
    BY <1>4
  <2>12. \A s \in Slots \ {r} : request'[s] = request[s] /\ request[s].pc \notin Writing
    BY <1>7, <1>8
  <2>13. request[r].client = c /\ request'[r].client = c
    BY <1>1, <2>6
  <2> QED BY <2>1, <2>5, <2>8, <2>9, <2>10, <2>11, <2>12, <2>13, BookWritten
<1> QED BY <1>7, <1>8 DEF IngressInv

\* A set of numbers that is not empty has a least one.
LEMMA LeastNumber ==
  ASSUME NEW S \in SUBSET Nat, S # {}
  PROVE  \E x \in S : \A y \in S : x <= y
<1>1. PICK x \in S : \A y \in S : ~(<<y, x>> \in OpToRel(<, Nat))
  BY NatLessThanWellFounded, WFMin
<1>2. \A y \in S : x \in Nat /\ y \in Nat /\ ~(y < x)
  BY <1>1 DEF OpToRel
<1>3. \A y \in S : x <= y
  BY <1>2
<1> QED BY <1>3

\* The number that follows those of all rows is new.
LEMMA NextNumber ==
  ASSUME NEW S, NEW n \in Nat, S \subseteq 1..n
  PROVE  Max(S \cup {0}) + 1 \in 1..(n + 1) /\ Max(S \cup {0}) + 1 \notin S
<1>1. PICK A : A = S \cup {0}
  OBVIOUS
<1>2. PICK U : U = {u \in Nat : \A y \in A : y <= u}
  OBVIOUS
<1>3. n \in U /\ U \in SUBSET Nat
  BY <1>1, <1>2
<1>4. PICK u \in U : \A v \in U : u <= v
  BY <1>3, LeastNumber
<1>5. u \in A
  <2>1. CASE u = 0
    BY <1>1, <2>1
  <2>2. CASE u # 0 /\ u \notin A
    <3>1. u - 1 \in Nat /\ \A y \in A : y <= u - 1
      BY <1>1, <1>2, <1>4, <2>2
    <3>2. u - 1 \in U
      BY <1>2, <3>1
    <3> QED BY <1>2, <1>4, <3>2
  <2> QED BY <2>1, <2>2
<1>6. u \in A /\ \A y \in A : u >= y
  BY <1>2, <1>4, <1>5
<1>7. Max(A) \in A /\ \A y \in A : Max(A) >= y
  BY <1>6 DEF Max
<1>8. PICK m : m = Max(A)
  OBVIOUS
<1>9. m \in 0..n /\ \A y \in S : m >= y
  <2>1. m \in A /\ \A y \in A : m >= y
    BY <1>7, <1>8
  <2>2. A \subseteq 0..n
    BY <1>1
  <2> QED BY <1>1, <2>1, <2>2
<1>10. m + 1 \in 1..(n + 1) /\ m + 1 \notin S
  BY <1>9
<1> QED BY <1>1, <1>8, <1>10

\* What was counted is saved in the row of the session, or in a new one.
LEMMA SessionSaved == ASSUME IngressInv, NEW r \in Slots, SaveSession(r) PROVE IngressInv'
<1>1. PICK c : c = request[r].client
  OBVIOUS
<1>2. PICK id : id = IF request[r].id > 0 THEN request[r].id ELSE Max(DOMAIN rows \cup {0}) + 1
  OBVIOUS
<1>3. /\ request[r].pc = "saving" /\ UNCHANGED <<spec, now, ips, devices, sessions, overlapped>>
      /\ \/ /\ rows' = WithIt(rows, id, [client |-> c, conns |-> request[r].conns, seen |-> now])
            /\ request' = [request EXCEPT ![r].pc = "saved", ![r].id = id, ![r].conns = 0] /\ lost' = lost
         \/ lost' = lost + 1 /\ request' = [request EXCEPT ![r] = Connected(c)]
  BY <1>1, <1>2 DEF SaveSession, seenTables
<1>4. request[r].pc \notin Between /\ request[r].pc \notin {"idle", "admitted"}
  BY <1>3 DEF Between
<1>5. CASE lost' = lost + 1 /\ request' = [request EXCEPT ![r] = Connected(c)]
  <2>1. c \in Holder
    BY <1>1 DEF IngressInv, IngressTypes, Shaped
  <2>2. Connected(c) \in [pc : Stages, client : Holder, id : Nat, conns : Nat]
    BY <2>1, FreeRequests
  <2>3. LET q2 == [request EXCEPT ![r] = Connected(c)] IN
          Shaped(q2) /\ q2[r] = Connected(c) /\ \A s \in Slots \ {r} : q2[s] = request[s]
    BY <2>2, Placed DEF IngressInv, IngressTypes
  <2>4. /\ Shaped(request') /\ \A s \in Slots \ {r} : request'[s] = request[s]
        /\ request'[r].pc = "connected" /\ request'[r].client = request[r].client
    BY <1>1, <1>5, <2>1, <2>3, FreeRequests
  <2>5. lost' \in Nat /\ lost' # 0
    BY <1>5 DEF IngressInv, IngressTypes
  <2>6. IngressTypes'
    BY <1>3, <2>4, <2>5 DEF IngressInv, IngressTypes
  <2>7. Strictly'
    BY <1>3, <1>4, <2>4, StrictlyMoved
  <2> QED BY <2>5, <2>6, <2>7 DEF IngressInv
<1>6. CASE /\ rows' = WithIt(rows, id, [client |-> c, conns |-> request[r].conns, seen |-> now])
           /\ request' = [request EXCEPT ![r].pc = "saved", ![r].id = id, ![r].conns = 0] /\ lost' = lost
  <2>1. MovesTo(request, request', r, "saved", id, 0)
    BY <1>6, Moved DEF IngressInv, IngressTypes, Stages
  <2>2. "saved" \in Stages \ {"idle", "admitted"}
    BY DEF Stages
  <2>3. /\ IngressTypes' /\ Strictly'
        /\ ~overlapped' /\ lost' = 0 =>
             /\ Booked /\ lost' = lost
             /\ \A s \in Slots \ {r} : request'[s] = request[s] /\ request[s].pc \notin Writing
             /\ request'[r].client = request[r].client
             /\ request[r].pc \in Writing => Written(r)
             /\ id \in Nat /\ 0 \in Nat =>
                  request' \in [Slots -> [pc : Stages, client : Holder, id : Nat, conns : Nat]]
    BY <1>3, <1>4, <1>6, <2>1, <2>2, OneMoves
  <2>4. ASSUME ~overlapped', lost' = 0 PROVE Booked'
    <3>1. BookTypes /\ Booked /\ Written(r) /\ now \in Nat /\ c \in Holder
      BY <1>1, <1>3, <2>3, <2>4 DEF Booked, IngressInv, IngressTypes, Writing, Shaped
    <3>2. /\ c \in DOMAIN sessions /\ sessions[c].ID = request[r].id
          /\ sessions[c].ConnCount = request[r].conns
          /\ request[r].id # 0 => RowOf(c, request[r].id) /\ rows[request[r].id].conns > 0
          /\ Live(c, request[r].id) /\ request[r].id \in Nat /\ request[r].conns \in Nat
      BY <1>1, <1>3, <3>1 DEF Written, Writing, BookTypes
    <3>3. PICK n \in Nat : DOMAIN rows \subseteq 1..n
      BY <3>1 DEF BookTypes
    <3>4. /\ id \in 1..(n + 1) /\ \A j \in DOMAIN rows : rows[j].client = c /\ rows[j].conns > 0 => j = id
          /\ id \in DOMAIN rows => rows[id].client = c
      <4>1. CASE request[r].id > 0
        BY <1>2, <3>2, <3>3, <4>1 DEF Live, RowOf
      <4>2. CASE request[r].id = 0
        <5>1. id \in 1..(n + 1) /\ id \notin DOMAIN rows
          BY <1>2, <3>3, <4>2, NextNumber
        <5> QED BY <3>2, <3>3, <4>2, <5>1 DEF Live
      <4> QED BY <3>2, <4>1, <4>2
    <3>5. PICK row : row = [client |-> c, conns |-> request[r].conns, seen |-> now]
      OBVIOUS
    <3>6. row \in [client : Holder, conns : Nat, seen : Nat] /\ row.client = c /\ row.conns = request[r].conns
      BY <3>1, <3>2, <3>5
    <3>7. /\ DOMAIN rows' = DOMAIN rows \cup {id}
          /\ rows' = [j \in DOMAIN rows \cup {id} |-> IF j = id THEN row ELSE rows[j]]
      BY <1>6, <3>5 DEF WithIt
    <3>8. BookTypes'
      <4>1. rows' \in [DOMAIN rows' -> [client : Holder, conns : Nat, seen : Nat]]
        BY <3>1, <3>6, <3>7 DEF BookTypes
      <4>2. n + 1 \in Nat /\ DOMAIN rows' \subseteq 1..(n + 1)
        BY <3>3, <3>4, <3>7
      <4>3. request' \in [Slots -> [pc : Stages, client : Holder, id : Nat, conns : Nat]]
        BY <2>3, <2>4, <3>4
      <4> QED BY <1>3, <3>1, <4>1, <4>2, <4>3 DEF BookTypes
    <3>9. request'[r].pc = "saved" /\ request'[r].client = c /\ request'[r].id = id
      BY <1>1, <2>1 DEF MovesTo
    <3>10. Written(r)'
      BY <1>3, <3>2, <3>4, <3>6, <3>7, <3>9 DEF Written, Live, RowOf
    <3>11. request'[r].pc \in Writing
      BY <3>9 DEF Writing
    <3>12. /\ \A j \in DOMAIN rows : rows[j].client # c => j \in DOMAIN rows' /\ rows'[j] = rows[j]
           /\ \A j \in DOMAIN rows' : rows'[j].client # c => j \in DOMAIN rows /\ rows'[j] = rows[j]
      BY <3>4, <3>6, <3>7
    <3>13. \A s \in Slots \ {r} : request'[s] = request[s] /\ request[s].pc \notin Writing
      BY <2>3, <2>4
    <3>14. request[r].client = c /\ request'[r].client = c
      BY <1>1, <3>9
    <3> QED BY <1>3, <3>1, <3>8, <3>10, <3>11, <3>12, <3>13, <3>14, BookWritten
  <2> QED BY <2>3, <2>4 DEF IngressInv
<1> QED BY <1>3, <1>5, <1>6

\* The memory is told which row was written.
LEMMA SessionNamed == ASSUME IngressInv, NEW r \in Slots, SetID(r) PROVE IngressInv'
<1>1. PICK c : c = request[r].client
  OBVIOUS
<1>2. /\ request[r].pc = "saved" /\ request' = [request EXCEPT ![r] = Connected(c)]
      /\ sessions' = IF c \in DOMAIN sessions THEN [sessions EXCEPT ![c].ID = request[r].id] ELSE sessions
      /\ UNCHANGED <<spec, now, ips, devices, rows, overlapped, lost>>
  BY <1>1 DEF SetID, seenTables, counters
<1>3. c \in Holder
  BY <1>1 DEF IngressInv, IngressTypes, Shaped
<1>4. LET q2 == [request EXCEPT ![r] = Connected(c)] IN
        Shaped(q2) /\ q2[r] = Connected(c) /\ \A s \in Slots \ {r} : q2[s] = request[s]
  <2>1. Connected(c) \in [pc : Stages, client : Holder, id : Nat, conns : Nat]
    BY <1>3, FreeRequests
  <2> QED BY <2>1, Placed DEF IngressInv, IngressTypes
<1>5. /\ Shaped(request') /\ \A s \in Slots \ {r} : request'[s] = request[s]
      /\ request'[r] = Connected(c)
  BY <1>2, <1>4
<1>6. Connected(c).id \in Nat /\ Connected(c).conns \in Nat /\ Connected(c).pc = "connected" /\ Connected(c).client = c
  BY <1>3, FreeRequests
<1>7. MovesTo(request, request', r, "connected", Connected(c).id, Connected(c).conns)
  BY <1>1, <1>5, <1>6 DEF MovesTo
<1>8. "connected" \in Stages \ {"idle", "admitted"} /\ request[r].pc \notin Between /\ request[r].pc \notin {"idle", "admitted"}
  BY <1>2 DEF Stages, Between
<1>9. /\ IngressTypes' /\ Strictly'
      /\ ~overlapped' /\ lost' = 0 =>
           /\ Booked /\ lost' = lost
           /\ \A s \in Slots \ {r} : request'[s] = request[s] /\ request[s].pc \notin Writing
           /\ request'[r].client = request[r].client
           /\ request[r].pc \in Writing => Written(r)
           /\ Connected(c).id \in Nat /\ Connected(c).conns \in Nat =>
                request' \in [Slots -> [pc : Stages, client : Holder, id : Nat, conns : Nat]]
  BY <1>2, <1>7, <1>8, OneMoves
<1>10. ASSUME ~overlapped', lost' = 0 PROVE Booked'
  <2>1. BookTypes /\ Booked /\ Written(r)
    BY <1>2, <1>9, <1>10 DEF Booked, Writing
  <2>2. PICK i : i = request[r].id
    OBVIOUS
  <2>3. /\ c \in DOMAIN sessions /\ RowOf(c, i) /\ rows[i].conns = sessions[c].ConnCount /\ Live(c, i) /\ i \in Nat
    BY <1>1, <1>2, <2>1, <2>2 DEF Written, Writing, BookTypes
  <2>4. PICK st : st = [sessions[c] EXCEPT !.ID = i]
    OBVIOUS
  <2>5. /\ st \in [ID : Nat, ConnCount : Nat \ {0}, LastSeen : Nat]
        /\ st.ID = i /\ st.ConnCount = sessions[c].ConnCount
    BY <2>1, <2>3, <2>4 DEF BookTypes
  <2>6. sessions' = [sessions EXCEPT ![c] = st]
    BY <1>2, <2>1, <2>2, <2>3, <2>4 DEF BookTypes
  <2>7. DOMAIN sessions' = DOMAIN sessions /\ \A d \in DOMAIN sessions : sessions'[d] = IF d = c THEN st ELSE sessions[d]
    BY <2>1, <2>3, <2>6 DEF BookTypes
  <2>8. BookTypes'
    <3>1. sessions' \in [DOMAIN sessions' -> [ID : Nat, ConnCount : Nat \ {0}, LastSeen : Nat]]
      BY <2>1, <2>5, <2>6, <2>7 DEF BookTypes
    <3>2. request' \in [Slots -> [pc : Stages, client : Holder, id : Nat, conns : Nat]]
      BY <1>6, <1>9, <1>10
    <3> QED BY <1>2, <2>1, <3>1, <3>2 DEF BookTypes
  <2>9. request'[r].pc = "connected" /\ request'[r].client = c
    BY <1>5, <1>6
  <2>10. Agrees(c)'
    BY <1>2, <2>3, <2>5, <2>7 DEF Agrees, Live, RowOf
  <2>11. Written(r)'
    BY <2>9 DEF Written, Writing
  <2>12. /\ \A d : d # c => (d \in DOMAIN sessions' <=> d \in DOMAIN sessions)
         /\ \A d \in DOMAIN sessions : d # c => sessions'[d] = sessions[d]
    BY <2>7
  <2>13. /\ \A id \in DOMAIN rows : rows[id].client # c => id \in DOMAIN rows' /\ rows'[id] = rows[id]
         /\ \A id \in DOMAIN rows' : rows'[id].client # c => id \in DOMAIN rows /\ rows'[id] = rows[id]
    BY <1>2
  <2>14. \A s \in Slots \ {r} : request'[s] = request[s] /\ request[s].pc \notin Writing
    BY <1>9, <1>10
  <2>15. request[r].client = c /\ request'[r].client = c
    BY <1>1, <2>9
  <2> QED BY <2>1, <2>8, <2>10, <2>11, <2>12, <2>13, <2>14, <2>15, BookWritten
<1> QED BY <1>9, <1>10 DEF IngressInv

\* A touch counts one more in memory, and is about to do so in the row.
LEMMA SessionTouched == ASSUME IngressInv, NEW r \in Slots, TouchSession(r) PROVE IngressInv'
<1>1. PICK c : c = request[r].client
  OBVIOUS
<1>2. PICK i, p : i = sessions[c].ID /\ p = IF i = 0 THEN "connected" ELSE "touching"
  OBVIOUS
<1>3. /\ request[r].pc = "connected" /\ c \in DOMAIN sessions
      /\ sessions' = [sessions EXCEPT ![c].ConnCount = @ + 1, ![c].LastSeen = now]
      /\ request' = [request EXCEPT ![r].pc = p, ![r].id = i]
      /\ overlapped' = (overlapped \/ SomeoneElse(r))
      /\ UNCHANGED <<spec, now, ips, devices, rows, lost>>
  BY <1>1, <1>2 DEF TouchSession, seenTables
<1>4. p \in Stages \ {"idle", "admitted"}
  BY <1>2 DEF Stages
<1>5. MovesTo(request, request', r, p, i, request[r].conns)
  BY <1>3, <1>4, Moved DEF IngressInv, IngressTypes
<1>6. request[r].pc \notin {"idle", "admitted"} /\ request[r].pc \notin Writing
  BY <1>3 DEF Writing
<1>7. /\ IngressTypes' /\ Strictly'
      /\ ~overlapped' /\ lost' = 0 =>
           /\ Booked /\ lost' = lost
           /\ \A s \in Slots \ {r} : request'[s] = request[s] /\ request[s].pc \notin Writing
           /\ request'[r].client = request[r].client
           /\ request[r].pc \notin Writing => Agrees(request[r].client)
           /\ i \in Nat /\ request[r].conns \in Nat =>
                request' \in [Slots -> [pc : Stages, client : Holder, id : Nat, conns : Nat]]
  BY <1>3, <1>4, <1>5, <1>6, OneMoves
<1>8. ASSUME ~overlapped', lost' = 0 PROVE Booked'
  <2>1. BookTypes /\ Booked /\ Agrees(c) /\ now \in Nat
    BY <1>1, <1>6, <1>7, <1>8 DEF Booked, IngressInv, IngressTypes
  <2>2. /\ RowOf(c, i) /\ rows[i].conns = sessions[c].ConnCount /\ Live(c, i)
        /\ sessions[c] \in [ID : Nat, ConnCount : Nat \ {0}, LastSeen : Nat] /\ request[r].conns \in Nat
    BY <1>2, <1>3, <2>1 DEF Agrees, BookTypes
  <2>3. i \in Nat \ {0} /\ p = "touching"
    BY <1>2, <2>1, <2>2 DEF RowOf, BookTypes
  <2>4. PICK st : st = [sessions[c] EXCEPT !.ConnCount = sessions[c].ConnCount + 1, !.LastSeen = now]
    OBVIOUS
  <2>5. /\ st \in [ID : Nat, ConnCount : Nat \ {0}, LastSeen : Nat]
        /\ st.ID = i /\ st.ConnCount = sessions[c].ConnCount + 1
    <3>1. PICK n, old : n = sessions[c].ConnCount + 1 /\ old = sessions[c]
      OBVIOUS
    <3>2. n \in Nat \ {0} /\ old \in [ID : Nat, ConnCount : Nat \ {0}, LastSeen : Nat]
      BY <2>2, <3>1
    <3>3. st = [old EXCEPT !.ConnCount = n, !.LastSeen = now] /\ old.ID = i
      BY <1>2, <2>4, <3>1
    <3> QED BY <2>1, <3>1, <3>2, <3>3
  <2>6. sessions' = [sessions EXCEPT ![c] = st]
    BY <1>3, <2>1, <2>4 DEF BookTypes
  <2>7. DOMAIN sessions' = DOMAIN sessions /\ \A d \in DOMAIN sessions : sessions'[d] = IF d = c THEN st ELSE sessions[d]
    BY <1>3, <2>1, <2>6 DEF BookTypes
  <2>8. BookTypes'
    <3>1. sessions' \in [DOMAIN sessions' -> [ID : Nat, ConnCount : Nat \ {0}, LastSeen : Nat]]
      BY <2>1, <2>5, <2>6, <2>7 DEF BookTypes
    <3>2. request' \in [Slots -> [pc : Stages, client : Holder, id : Nat, conns : Nat]]
      BY <1>7, <1>8, <2>2, <2>3
    <3> QED BY <1>3, <2>1, <3>1, <3>2 DEF BookTypes
  <2>9. request'[r].pc = "touching" /\ request'[r].client = c /\ request'[r].id = i
    BY <1>1, <1>5, <2>3 DEF MovesTo
  <2>10. rows[i].conns > 0 /\ sessions'[c].ConnCount = rows[i].conns + 1 /\ sessions'[c].ID = i
    BY <1>3, <2>2, <2>5, <2>7
  <2>11. Written(r)' /\ request'[r].pc \in Writing
    BY <1>3, <2>2, <2>7, <2>9, <2>10 DEF Written, Live, RowOf, Writing
  <2>12. /\ \A d : d # c => (d \in DOMAIN sessions' <=> d \in DOMAIN sessions)
         /\ \A d \in DOMAIN sessions : d # c => sessions'[d] = sessions[d]
    BY <2>7
  <2>13. /\ \A id \in DOMAIN rows : rows[id].client # c => id \in DOMAIN rows' /\ rows'[id] = rows[id]
         /\ \A id \in DOMAIN rows' : rows'[id].client # c => id \in DOMAIN rows /\ rows'[id] = rows[id]
    BY <1>3
  <2>14. \A s \in Slots \ {r} : request'[s] = request[s] /\ request[s].pc \notin Writing
    BY <1>7, <1>8
  <2>15. request[r].client = c /\ request'[r].client = c
    BY <1>1, <2>9
  <2> QED BY <2>1, <2>8, <2>11, <2>12, <2>13, <2>14, <2>15, BookWritten
<1> QED BY <1>7, <1>8 DEF IngressInv

\* A session loses a connection, or ends with its last, and the row is about to
\* lose it.
LEMMA SessionCloses == ASSUME IngressInv, NEW r \in Slots, CloseSession(r) PROVE IngressInv'
<1>1. PICK c : c = request[r].client
  OBVIOUS
<1>2. PICK i, p : i = (IF c \in DOMAIN sessions THEN sessions[c].ID ELSE 0) /\ p = IF i = 0 THEN "closed" ELSE "closing"
  OBVIOUS
<1>3. /\ request[r].pc = "connected"
      /\ sessions' = IF c \notin DOMAIN sessions THEN sessions
                     ELSE IF sessions[c].ConnCount <= 1 THEN Dropping(sessions, {c})
                     ELSE [sessions EXCEPT ![c].ConnCount = @ - 1, ![c].LastSeen = now]
      /\ request' = [request EXCEPT ![r].pc = p, ![r].id = i]
      /\ overlapped' = (overlapped \/ SomeoneElse(r))
      /\ UNCHANGED <<spec, now, ips, devices, rows, lost>>
  BY <1>1, <1>2 DEF CloseSession, seenTables, counters
<1>4. p \in Stages \ {"idle", "admitted"}
  BY <1>2 DEF Stages
<1>5. MovesTo(request, request', r, p, i, request[r].conns)
  BY <1>3, <1>4, Moved DEF IngressInv, IngressTypes
<1>6. request[r].pc \notin {"idle", "admitted"} /\ request[r].pc \notin Writing
  BY <1>3 DEF Writing
<1>7. /\ IngressTypes' /\ Strictly'
      /\ ~overlapped' /\ lost' = 0 =>
           /\ Booked /\ lost' = lost
           /\ \A s \in Slots \ {r} : request'[s] = request[s] /\ request[s].pc \notin Writing
           /\ request'[r].client = request[r].client
           /\ request[r].pc \notin Writing => Agrees(request[r].client)
           /\ i \in Nat /\ request[r].conns \in Nat =>
                request' \in [Slots -> [pc : Stages, client : Holder, id : Nat, conns : Nat]]
  BY <1>3, <1>4, <1>5, <1>6, OneMoves
<1>8. request'[r].pc = p /\ request'[r].client = c /\ request'[r].id = i
  BY <1>1, <1>5 DEF MovesTo
<1>9. ASSUME ~overlapped', lost' = 0 PROVE Booked'
  <2>1. BookTypes /\ Booked /\ Agrees(c) /\ now \in Nat /\ request[r].conns \in Nat
    BY <1>1, <1>6, <1>7, <1>9 DEF Booked, BookTypes, IngressInv, IngressTypes
  <2>2. \A s \in Slots \ {r} : request'[s] = request[s] /\ request[s].pc \notin Writing
    BY <1>7, <1>9
  <2>3. request[r].client = c /\ request'[r].client = c
    BY <1>1, <1>8
  <2>4. CASE c \notin DOMAIN sessions
    <3>1. p = "closed" /\ i = 0 /\ UNCHANGED <<sessions, rows>>
      BY <1>2, <1>3, <2>4
    <3>2. request' \in [Slots -> [pc : Stages, client : Holder, id : Nat, conns : Nat]]
      BY <1>7, <1>9, <2>1, <3>1
    <3>3. request'[r].pc \notin Writing
      BY <1>8, <3>1 DEF Writing
    <3> QED BY <1>6, <2>1, <2>2, <3>1, <3>2, <3>3, BookKept
  <2>5. CASE c \in DOMAIN sessions
    <3>1. /\ i = sessions[c].ID /\ RowOf(c, i) /\ rows[i].conns = sessions[c].ConnCount /\ Live(c, i)
          /\ sessions[c] \in [ID : Nat, ConnCount : Nat \ {0}, LastSeen : Nat]
      BY <1>2, <2>1, <2>5 DEF Agrees, BookTypes
    <3>2. i \in Nat \ {0} /\ p = "closing"
      BY <1>2, <2>1, <3>1 DEF RowOf, BookTypes
    <3>3. /\ sessions' \in [DOMAIN sessions' -> [ID : Nat, ConnCount : Nat \ {0}, LastSeen : Nat]]
          /\ DOMAIN sessions' \in {DOMAIN sessions, DOMAIN sessions \ {c}}
          /\ \A d \in DOMAIN sessions : d # c => sessions'[d] = sessions[d]
          /\ IF c \in DOMAIN sessions' THEN sessions'[c].ID = i /\ rows[i].conns = sessions'[c].ConnCount + 1
             ELSE rows[i].conns = 1
      <4>1. CASE sessions[c].ConnCount <= 1
        <5>1. sessions' = [d \in DOMAIN sessions \ {c} |-> sessions[d]]
          BY <1>3, <2>5, <4>1 DEF Dropping
        <5>2. sessions' \in [DOMAIN sessions \ {c} -> [ID : Nat, ConnCount : Nat \ {0}, LastSeen : Nat]]
          BY <2>1, <5>1 DEF BookTypes
        <5>3. rows[i].conns = 1
          BY <3>1, <4>1
        <5> QED BY <5>1, <5>2, <5>3
      <4>2. CASE ~(sessions[c].ConnCount <= 1)
        <5>1. PICK n, old : n = sessions[c].ConnCount - 1 /\ old = sessions[c]
          OBVIOUS
        <5>2. n \in Nat \ {0} /\ old \in [ID : Nat, ConnCount : Nat \ {0}, LastSeen : Nat] /\ rows[i].conns = n + 1
          BY <3>1, <4>2, <5>1
        <5>3. PICK st : st = [old EXCEPT !.ConnCount = n, !.LastSeen = now]
          OBVIOUS
        <5>4. st \in [ID : Nat, ConnCount : Nat \ {0}, LastSeen : Nat] /\ st.ID = i /\ st.ConnCount = n
          BY <2>1, <3>1, <5>1, <5>2, <5>3
        <5>5. sessions' = [sessions EXCEPT ![c] = st]
          BY <1>3, <2>1, <2>5, <4>2, <5>1, <5>3 DEF BookTypes
        <5>6. /\ DOMAIN sessions' = DOMAIN sessions
              /\ \A d \in DOMAIN sessions : sessions'[d] = IF d = c THEN st ELSE sessions[d]
              /\ sessions' \in [DOMAIN sessions -> [ID : Nat, ConnCount : Nat \ {0}, LastSeen : Nat]]
          BY <2>1, <2>5, <5>4, <5>5 DEF BookTypes
        <5> QED BY <2>5, <5>2, <5>4, <5>6
      <4> QED BY <4>1, <4>2
    <3>4. BookTypes'
      <4>1. request' \in [Slots -> [pc : Stages, client : Holder, id : Nat, conns : Nat]]
        BY <1>7, <1>9, <2>1, <3>2
      <4> QED BY <1>3, <2>1, <3>3, <4>1 DEF BookTypes
    <3>5. Written(r)' /\ request'[r].pc \in Writing
      BY <1>3, <1>8, <3>1, <3>2, <3>3 DEF Written, Live, RowOf, Writing
    <3>6. \A d : d # c => (d \in DOMAIN sessions' <=> d \in DOMAIN sessions)
      BY <3>3
    <3>7. /\ \A id \in DOMAIN rows : rows[id].client # c => id \in DOMAIN rows' /\ rows'[id] = rows[id]
          /\ \A id \in DOMAIN rows' : rows'[id].client # c => id \in DOMAIN rows /\ rows'[id] = rows[id]
      BY <1>3
    <3> QED BY <2>1, <2>2, <2>3, <3>3, <3>4, <3>5, <3>6, <3>7, BookWritten
  <2> QED BY <2>4, <2>5
<1> QED BY <1>7, <1>9 DEF IngressInv

\* The row follows.
LEMMA RowFollows == ASSUME IngressInv, NEW r \in Slots, Updated(r) PROVE IngressInv'
<1>1. PICK c, i, rises : c = request[r].client /\ i = request[r].id /\ rises = (request[r].pc = "touching")
  OBVIOUS
<1>2. PICK p : p = IF rises THEN "connected" ELSE "closed"
  OBVIOUS
<1>3. /\ request[r].pc \in {"touching", "closing"}
      /\ request' = [request EXCEPT ![r].pc = p, ![r].id = 0]
      /\ UNCHANGED <<spec, now, ips, devices, sessions, overlapped>>
      /\ \/ rows' = UpdateRow(r, IF rises THEN "up" ELSE "down") /\ lost' = lost
         \/ lost' = lost + 1 /\ rows' = rows
  BY <1>1, <1>2 DEF Updated, seenTables
<1>4. p \in Stages \ {"idle", "admitted"} /\ p \notin Writing
  BY <1>2 DEF Stages, Writing
<1>5. MovesTo(request, request', r, p, 0, request[r].conns)
  BY <1>3, <1>4, Moved DEF IngressInv, IngressTypes
<1>6. request[r].pc \notin {"idle", "admitted"} /\ request[r].pc \in Writing /\ request[r].pc \notin Between
  BY <1>3 DEF Writing, Between
<1>7. /\ IngressTypes' /\ Strictly'
      /\ ~overlapped' /\ lost' = 0 =>
           /\ Booked /\ lost' = lost
           /\ \A s \in Slots \ {r} : request'[s] = request[s] /\ request[s].pc \notin Writing
           /\ request'[r].client = request[r].client
           /\ request[r].pc \in Writing => Written(r)
           /\ 0 \in Nat /\ request[r].conns \in Nat =>
                request' \in [Slots -> [pc : Stages, client : Holder, id : Nat, conns : Nat]]
  BY <1>3, <1>4, <1>5, <1>6, OneMoves
<1>8. request'[r].pc = p /\ request'[r].client = c
  BY <1>1, <1>5 DEF MovesTo
<1>9. ASSUME ~overlapped', lost' = 0 PROVE Booked'
  <2>1. BookTypes /\ Booked /\ Written(r) /\ now \in Nat /\ request[r].conns \in Nat
    BY <1>6, <1>7, <1>9 DEF Booked, BookTypes, IngressInv, IngressTypes
  <2>2. /\ RowOf(c, i) /\ rows[i].conns > 0 /\ Live(c, i)
        /\ rows[i] \in [client : Holder, conns : Nat, seen : Nat] /\ i \in DOMAIN rows
        /\ IF rises THEN c \in DOMAIN sessions /\ sessions[c].ID = i /\ sessions[c].ConnCount = rows[i].conns + 1
           ELSE IF c \in DOMAIN sessions THEN sessions[c].ID = i /\ rows[i].conns = sessions[c].ConnCount + 1
           ELSE rows[i].conns = 1
        /\ c \in DOMAIN sessions => sessions[c].ConnCount \in Nat
    BY <1>1, <1>3, <1>6, <2>1 DEF Written, RowOf, BookTypes
  <2>3. PICK n : n = IF rises THEN rows[i].conns + 1 ELSE rows[i].conns - 1
    OBVIOUS
  <2>4. /\ n \in Nat
        /\ IF c \in DOMAIN sessions THEN sessions[c].ID = i /\ sessions[c].ConnCount = n ELSE n = 0
    BY <2>2, <2>3
  <2>5. PICK row : row = [rows[i] EXCEPT !.seen = now, !.conns = n]
    OBVIOUS
  <2>6. row \in [client : Holder, conns : Nat, seen : Nat] /\ row.client = c /\ row.conns = n
    BY <2>1, <2>2, <2>4, <2>5 DEF RowOf
  <2>7. rows' = [rows EXCEPT ![i] = row]
    <3>1. lost' # lost + 1
      BY <1>9 DEF IngressInv, IngressTypes
    <3>2. rows' = UpdateRow(r, IF rises THEN "up" ELSE "down")
      BY <1>3, <3>1
    <3>3. CASE rises
      <4>1. rows' = [rows EXCEPT ![i].seen = now, ![i].conns = @ + 1]
        BY <1>1, <2>2, <3>2, <3>3 DEF UpdateRow
      <4> QED BY <2>1, <2>2, <2>3, <2>5, <3>3, <4>1 DEF BookTypes
    <3>4. CASE ~rises
      <4>1. rows' = [rows EXCEPT ![i].seen = now, ![i].conns = IF @ > 0 THEN @ - 1 ELSE 0]
        BY <1>1, <2>2, <3>2, <3>4 DEF UpdateRow
      <4> QED BY <2>1, <2>2, <2>3, <2>5, <3>4, <4>1 DEF BookTypes
    <3> QED BY <3>3, <3>4
  <2>8. DOMAIN rows' = DOMAIN rows /\ \A j \in DOMAIN rows : rows'[j] = IF j = i THEN row ELSE rows[j]
    BY <2>1, <2>2, <2>7 DEF BookTypes
  <2>9. BookTypes'
    <3>1. rows' \in [DOMAIN rows' -> [client : Holder, conns : Nat, seen : Nat]]
      BY <2>1, <2>2, <2>6, <2>7, <2>8 DEF BookTypes
    <3>2. request' \in [Slots -> [pc : Stages, client : Holder, id : Nat, conns : Nat]]
      BY <1>7, <1>9, <2>1
    <3> QED BY <1>3, <2>1, <2>8, <3>1, <3>2 DEF BookTypes
  <2>10. Agrees(c)'
    BY <1>3, <2>2, <2>4, <2>6, <2>8 DEF Agrees, Live, RowOf
  <2>11. Written(r)'
    BY <1>4, <1>8 DEF Written, Writing
  <2>12. /\ \A d : d # c => (d \in DOMAIN sessions' <=> d \in DOMAIN sessions)
         /\ \A d \in DOMAIN sessions : d # c => sessions'[d] = sessions[d]
    BY <1>3
  <2>13. /\ \A id \in DOMAIN rows : rows[id].client # c => id \in DOMAIN rows' /\ rows'[id] = rows[id]
         /\ \A id \in DOMAIN rows' : rows'[id].client # c => id \in DOMAIN rows /\ rows'[id] = rows[id]
    BY <2>2, <2>6, <2>8 DEF RowOf
  <2>14. \A s \in Slots \ {r} : request'[s] = request[s] /\ request[s].pc \notin Writing
    BY <1>7, <1>9
  <2>15. request[r].client = c /\ request'[r].client = c
    BY <1>1, <1>8
  <2> QED BY <2>1, <2>9, <2>10, <2>11, <2>12, <2>13, <2>14, <2>15, BookWritten
<1> QED BY <1>7, <1>9 DEF IngressInv

\* The windows are cleaned up.
LEMMA WindowsCleaned == ASSUME IngressInv, Cleanup PROVE IngressInv'
<1>1. PICK old, gone : /\ old = {k \in DOMAIN ips : ips[k].Conns = 0 /\ now - ips[k].Last > IPWindow}
                       /\ gone = {k \in DOMAIN devices : devices[k].Conns = 0 /\ now - devices[k].Last > IPWindow}
  OBVIOUS
<1>2. /\ ips' = Dropping(ips, old) /\ devices' = Dropping(devices, gone)
      /\ UNCHANGED <<spec, now, sessions, rows, request, overlapped, lost>>
  BY <1>1 DEF Cleanup, counters
<1>3. Cleaned(ips, ips') /\ Cleaned(devices, devices')
  <2>1. Tallied(ips, request, "ip") /\ Tallied(devices, request, "device") /\ now \in Nat
    BY DEF IngressInv, IngressTypes, Strictly
  <2>2. old \in SUBSET DOMAIN ips /\ gone \in SUBSET DOMAIN devices
    BY <1>1
  <2>3. (\A k \in old : ips[k].Conns = 0) /\ (\A k \in gone : devices[k].Conns = 0)
    BY <1>1
  <2> QED BY <1>2, <2>1, <2>2, <2>3, TableCleaned
<1>4. IngressTypes'
  BY <1>2 DEF IngressInv, IngressTypes, Shaped
<1>5. Strictly'
  BY <1>2, <1>3, StrictlyKept DEF IngressInv, Strictly
<1>6. ASSUME Booked PROVE Booked'
  BY <1>2, <1>6, BookKept DEF Booked, BookTypes
<1> QED BY <1>2, <1>4, <1>5, <1>6 DEF IngressInv

\* Time passes.
LEMMA TimePasses == ASSUME IngressInv, Tick PROVE IngressInv'
<1>1. UNCHANGED <<spec, ips, devices, sessions, rows, request, overlapped, lost>> /\ now' = now + 1
  BY DEF Tick, seenTables, counters
<1>2. IngressTypes'
  BY <1>1 DEF IngressInv, IngressTypes, Shaped
<1>3. Cleaned(ips, ips') /\ Cleaned(devices, devices')
  BY <1>1, TableCleaned DEF IngressInv, IngressTypes, Strictly
<1>4. Strictly'
  BY <1>1, <1>3, StrictlyKept DEF IngressInv, Strictly
<1>5. ASSUME Booked PROVE Booked'
  BY <1>1, <1>5, BookKept DEF Booked, BookTypes
<1> QED BY <1>1, <1>2, <1>4, <1>5 DEF IngressInv

\* Sessions and rows are cleaned up: none that counts a connection goes.
LEMMA SessionsCleaned == ASSUME IngressInv, CleanupSessions PROVE IngressInv'
<1>1. PICK old, gone : /\ old = {c \in DOMAIN sessions : sessions[c].ConnCount = 0 /\ now - sessions[c].LastSeen > IdleTimeout}
                       /\ gone = {id \in DOMAIN rows : rows[id].conns = 0 /\ now - rows[id].seen > IdleTimeout}
  OBVIOUS
<1>2. /\ sessions' = Dropping(sessions, old) /\ rows' = Dropping(rows, gone)
      /\ UNCHANGED <<spec, now, ips, devices, request, overlapped, lost>>
  BY <1>1 DEF CleanupSessions, seenTables, counters
<1>3. IngressTypes'
  BY <1>2 DEF IngressInv, IngressTypes, Shaped
<1>4. Cleaned(ips, ips') /\ Cleaned(devices, devices')
  BY <1>2, TableCleaned DEF IngressInv, IngressTypes, Strictly
<1>5. Strictly'
  BY <1>2, <1>4, StrictlyKept DEF IngressInv, Strictly
<1>6. ASSUME Booked PROVE Booked'
  <2>1. BookTypes
    BY <1>6 DEF Booked
  <2>2. \A c \in DOMAIN sessions : sessions[c].ConnCount # 0
    BY <2>1 DEF BookTypes
  <2>3. sessions' = sessions
    <3>1. old = {}
      BY <1>1, <2>2
    <3>2. sessions' = [c \in DOMAIN sessions |-> sessions[c]]
      BY <1>2, <3>1 DEF Dropping
    <3> QED BY <2>1, <3>2 DEF BookTypes
  <2>4. rows' = [id \in DOMAIN rows \ gone |-> rows[id]]
    BY <1>2 DEF Dropping
  <2>5. /\ DOMAIN rows' \subseteq DOMAIN rows /\ \A id \in DOMAIN rows' : rows'[id] = rows[id]
        /\ \A id \in DOMAIN rows : rows[id].conns > 0 => id \in DOMAIN rows'
    BY <1>1, <2>4
  <2>6. rows' \in [DOMAIN rows' -> [client : Holder, conns : Nat, seen : Nat]]
    BY <2>1, <2>4 DEF BookTypes
  <2>7. BookTypes'
    BY <1>2, <2>1, <2>3, <2>5, <2>6 DEF BookTypes
  <2>8. \A c, i : /\ Live(c, i) => Live(c, i)'
                  /\ RowOf(c, i) /\ rows[i].conns > 0 => RowOf(c, i)' /\ rows'[i] = rows[i]
    BY <2>5 DEF Live, RowOf
  <2>9. \A c, i : Live(c, i) => Live(c, i)'
    BY <2>8
  <2>10. ASSUME NEW r \in Slots PROVE Written(r)'
    <3>1. PICK c, i : c = request[r].client /\ i = request[r].id
      OBVIOUS
    <3>2. Written(r) /\ request' = request
      BY <1>2, <1>6 DEF Booked
    <3>3. c \in DOMAIN sessions => sessions[c].ConnCount \in Nat \ {0}
      BY <2>1 DEF BookTypes
    <3>4. request[r].pc \in Writing => Live(c, i)'
      BY <2>9, <3>1, <3>2 DEF Written
    <3>5. CASE request[r].pc \notin Writing
      BY <3>2, <3>5 DEF Written, Writing
    <3>6. CASE request[r].pc = "saving"
      BY <2>3, <2>8, <3>1, <3>2, <3>4, <3>6 DEF Written
    <3>7. CASE request[r].pc = "saved"
      BY <2>3, <2>8, <3>1, <3>2, <3>3, <3>4, <3>7 DEF Written
    <3>8. CASE request[r].pc = "touching"
      BY <2>3, <2>8, <3>1, <3>2, <3>3, <3>4, <3>8 DEF Written
    <3>9. CASE request[r].pc = "closing"
      BY <2>3, <2>8, <3>1, <3>2, <3>3, <3>4, <3>9 DEF Written
    <3> QED BY <3>5, <3>6, <3>7, <3>8, <3>9 DEF Writing
  <2>11. ASSUME NEW c, Quiet(c)' PROVE Agrees(c)'
    <3>1. Agrees(c)
      BY <1>2, <1>6, <2>11 DEF Booked, Quiet
    <3>2. c \in DOMAIN sessions => sessions[c].ConnCount \in Nat \ {0}
      BY <2>1 DEF BookTypes
    <3> QED BY <2>3, <2>8, <3>1, <3>2 DEF Agrees
  <2> QED BY <2>7, <2>10, <2>11 DEF Booked
<1> QED BY <1>2, <1>3, <1>5, <1>6 DEF IngressInv

\* A restart forgets the connections; the sessions read back are not promised.
LEMMA SessionsRebuilt == ASSUME IngressInv, RebuildSessions PROVE IngressInv'
<1>1. /\ lost' = lost + 1 /\ ips' = <<>> /\ devices' = <<>> /\ request' = [r \in Slots |-> Unused]
      /\ UNCHANGED <<spec, now, overlapped>>
  BY DEF RebuildSessions
<1>2. lost' \in Nat /\ lost' # 0
  BY <1>1 DEF IngressInv, IngressTypes
<1>3. request' \in [Slots -> [pc : Stages, client : Holder, id : Nat, conns : Nat]]
  BY <1>1, FreeRequests
<1>4. IngressTypes'
  BY <1>1, <1>2, <1>3 DEF IngressInv, IngressTypes, Shaped
<1>5. \A r \in Slots : request'[r].pc = "idle"
  BY <1>1, FreeRequests
<1>6. Counting(request') = {} /\ Admitted(request') = {} /\ Alone(request')
  BY <1>5 DEF Counting, Admitted, Alone, Between
<1>7. DOMAIN ips' = {} /\ DOMAIN devices' = {} /\ ips' \in [{} -> Marks] /\ devices' \in [{} -> Marks]
  BY <1>1
<1>8. Tallied(ips', request', "ip") /\ Tallied(devices', request', "device")
  BY <1>6, <1>7, FS_EmptySet DEF Tallied
<1>9. Places(ips', request', "ip") = {} /\ Places(devices', request', "device") = {}
  BY <1>6, <1>7 DEF Places
<1>10. minInt(spec.ruleIPs, spec.userIPs)' \in Nat /\ spec'.userDevices \in Nat
  BY <1>1, LimitsNumbered DEF minInt, IngressInv, IngressTypes
<1>11. /\ Fits(minInt(spec.ruleIPs, spec.userIPs)', ips', request', "ip")
       /\ Fits(spec'.userDevices, devices', request', "device")
  BY <1>9, <1>10, FS_EmptySet DEF Fits
<1>12. Strictly'
  BY <1>6, <1>8, <1>11, FS_EmptySet DEF Strictly
<1> QED BY <1>2, <1>4, <1>12 DEF IngressInv

\* Every step keeps what is counted in the windows and in the rows.
LEMMA IngressStep == IngressInv /\ [NextIngress]_ingressVars => IngressInv'
<1> SUFFICES ASSUME IngressInv, [NextIngress]_ingressVars PROVE IngressInv'
  OBVIOUS
<1>1. ASSUME NEW r \in Slots, Handled(r) PROVE IngressInv'
  BY <1>1, Checks, Opens, Closes, SessionOpens, SessionSaved, SessionNamed, SessionTouched,
     SessionCloses, RowFollows DEF Handled
<1>2. CASE Cleanup \/ CleanupSessions \/ RebuildSessions \/ Tick
  BY <1>2, WindowsCleaned, SessionsCleaned, SessionsRebuilt, TimePasses
<1>3. CASE UNCHANGED ingressVars
  <2>1. UNCHANGED <<spec, now, ips, devices, sessions, rows, request, overlapped, lost>>
    BY <1>3 DEF ingressVars
  <2>2. IngressTypes'
    BY <2>1 DEF IngressInv, IngressTypes, Shaped
  <2>3. Cleaned(ips, ips') /\ Cleaned(devices, devices')
    BY <2>1, TableCleaned DEF IngressInv, IngressTypes, Strictly
  <2>4. Strictly'
    BY <2>1, <2>3, StrictlyKept DEF IngressInv, Strictly
  <2>5. ASSUME Booked PROVE Booked'
    BY <2>1, <2>5, BookKept DEF Booked, BookTypes
  <2> QED BY <2>1, <2>2, <2>4, <2>5 DEF IngressInv
<1> QED BY <1>1, <1>2, <1>3 DEF NextIngress

\* The connections of a session that are open count in it, and together they are
\* within the limit of connections, with the one that was just let in.
StoreTypes ==
  /\ sessions \in [DOMAIN sessions -> [ID : Nat, ConnCount : Nat, LastSeen : Nat]]
  /\ IsFiniteSet(DOMAIN sessions)
  /\ rows \in [DOMAIN rows -> [client : Holder, conns : Nat, seen : Nat]]
  /\ \E n \in Nat : DOMAIN rows \subseteq 0..n
  /\ request \in [Slots -> [pc : Stages, client : Holder, id : Nat, conns : Nat]]
Holding(q) == {r \in Slots : q[r].pc \in {"saving", "saved", "connected", "touching"}}
HeldBy(q, c) == {r \in Holding(q) : q[r].client = c}
Held ==
  /\ \A r \in Holding(request) : request[r].client \in DOMAIN sessions
  /\ \A c \in DOMAIN sessions : Cardinality(HeldBy(request, c)) <= sessions[c].ConnCount
Served(q) == {r \in Slots : q[r].pc # "idle"}
ServedWithin ==
  ~overlapped => /\ IsFiniteSet(Served(request))
                 /\ Limited(minInt(spec.ruleConns, spec.userConns), Cardinality(Served(request)))
HeldInv == StoreTypes /\ Held /\ ServedWithin

\* At first no session is held.
LEMMA HeldInit == InitIngress => HeldInv
<1> SUFFICES ASSUME InitIngress PROVE HeldInv
  OBVIOUS
<1>1. spec \in LimitSpecs /\ sessions = <<>> /\ rows = <<>> /\ request = [r \in Slots |-> Unused]
  BY DEF InitIngress
<1>2. request \in [Slots -> [pc : Stages, client : Holder, id : Nat, conns : Nat]]
  BY <1>1, FreeRequests
<1>3. DOMAIN sessions = {} /\ DOMAIN rows = {} /\ DOMAIN rows \subseteq 0..0
  BY <1>1
<1>4. sessions \in [{} -> [ID : Nat, ConnCount : Nat, LastSeen : Nat]] /\ rows \in [{} -> [client : Holder, conns : Nat, seen : Nat]]
  BY <1>1
<1>5. StoreTypes
  BY <1>2, <1>3, <1>4, FS_EmptySet DEF StoreTypes
<1>6. \A r \in Slots : request[r].pc = "idle"
  BY <1>1, FreeRequests
<1>7. Holding(request) = {} /\ Served(request) = {}
  BY <1>6 DEF Holding, Served
<1>8. Held
  BY <1>3, <1>7 DEF Held
<1>9. minInt(spec.ruleConns, spec.userConns) \in Nat
  BY <1>1, LimitsNumbered DEF minInt
<1>10. ServedWithin
  BY <1>7, <1>9, FS_EmptySet DEF ServedWithin, Limited
<1> QED BY <1>5, <1>8, <1>10 DEF HeldInv

\* Requests that stop holding, and counts that grow, keep what is held counted.
LEMMA HeldKept ==
  ASSUME Held, StoreTypes, StoreTypes', IsFiniteSet(Holding(request)),
         Holding(request') \subseteq Holding(request),
         \A r \in Holding(request') : request'[r].client = request[r].client,
         DOMAIN sessions' = DOMAIN sessions,
         \A c \in DOMAIN sessions : sessions'[c].ConnCount >= sessions[c].ConnCount
  PROVE  Held'
<1>1. \A r \in Holding(request') : request'[r].client \in DOMAIN sessions'
  BY DEF Held
<1>2. ASSUME NEW c \in DOMAIN sessions' PROVE Cardinality(HeldBy(request', c)) <= sessions'[c].ConnCount
  <2>1. HeldBy(request', c) \subseteq HeldBy(request, c) /\ HeldBy(request, c) \subseteq Holding(request)
    BY DEF HeldBy
  <2>2. IsFiniteSet(HeldBy(request, c))
    BY <2>1, FS_Subset
  <2>3. /\ Cardinality(HeldBy(request', c)) <= Cardinality(HeldBy(request, c))
        /\ Cardinality(HeldBy(request', c)) \in Nat /\ Cardinality(HeldBy(request, c)) \in Nat
    BY <2>1, <2>2, FS_Subset, FS_CardinalityType
  <2>4. sessions[c].ConnCount \in Nat /\ sessions'[c].ConnCount \in Nat
    BY <1>2 DEF StoreTypes
  <2> QED BY <1>2, <2>3, <2>4 DEF Held
<1> QED BY <1>1, <1>2 DEF Held

\* Finitely many connections hold a session: each of them is counted.
LEMMA HoldingFinite ==
  ASSUME IngressInv
  PROVE  IsFiniteSet(Holding(request)) /\ Holding(request) \subseteq Counting(request)
<1>1. Holding(request) \subseteq Counting(request)
  BY DEF Holding, Counting
<1> QED BY <1>1, FS_Subset DEF IngressInv, Strictly

\* Requests that end keep those served within the limit of connections.
LEMMA ServedKept ==
  ASSUME ServedWithin, IngressInv, spec' = spec, Served(request') \subseteq Served(request), ~overlapped' => ~overlapped
  PROVE  ServedWithin'
<1>1. minInt(spec.ruleConns, spec.userConns) \in Nat
  BY LimitsNumbered DEF minInt, IngressInv, IngressTypes
<1>2. ASSUME ~overlapped'
      PROVE  /\ IsFiniteSet(Served(request'))
             /\ Limited(minInt(spec.ruleConns, spec.userConns), Cardinality(Served(request')))
  <2>1. IsFiniteSet(Served(request)) /\ Limited(minInt(spec.ruleConns, spec.userConns), Cardinality(Served(request)))
    BY <1>2 DEF ServedWithin
  <2>2. /\ IsFiniteSet(Served(request')) /\ Cardinality(Served(request')) <= Cardinality(Served(request))
        /\ Cardinality(Served(request')) \in Nat /\ Cardinality(Served(request)) \in Nat
    BY <2>1, FS_Subset, FS_CardinalityType
  <2> QED BY <1>1, <2>1, <2>2 DEF Limited
<1>3. minInt(spec.ruleConns, spec.userConns)' = minInt(spec.ruleConns, spec.userConns)
  BY DEF minInt
<1> QED BY <1>2, <1>3 DEF ServedWithin

\* A sum of counts is at least what any of its keys count: who is counted can be
\* numbered within the count of its key.
LEMMA SumBounds ==
  ASSUME NEW f, f \in [DOMAIN f -> Nat], IsFiniteSet(DOMAIN f)
  PROVE  /\ SumOf(f) \in Nat
         /\ \A S, key : /\ key \in [S -> DOMAIN f]
                        /\ \A k \in DOMAIN f : LET of == {x \in S : key[x] = k} IN
                             IsFiniteSet(of) /\ Cardinality(of) <= f[k]
                        => IsFiniteSet(S) /\ Cardinality(S) <= SumOf(f)
<1>1. PICK ones : ones = [k \in DOMAIN f |-> {k} \X (1..f[k])]
  OBVIOUS
<1>2. PICK All : All = UNION {ones[k] : k \in DOMAIN f}
  OBVIOUS
<1>3. SumOf(f) = Cardinality(All)
  BY <1>1, <1>2 DEF SumOf
<1>4. \A k \in DOMAIN f : IsFiniteSet(ones[k])
  <2> TAKE k \in DOMAIN f
  <2>1. IsFiniteSet({k}) /\ IsFiniteSet(1..f[k])
    <3>1. f[k] \in Int /\ 1 \in Int
      OBVIOUS
    <3> QED BY <3>1, FS_Singleton, FS_Interval
  <2> QED BY <1>1, <2>1, FS_Product
<1>5. IsFiniteSet(All)
  <2>1. PICK R : R = {ones[k] : k \in DOMAIN f}
    OBVIOUS
  <2>2. ones \in Surjection(DOMAIN f, R)
    BY <1>1, <2>1 DEF Surjection
  <2>3. IsFiniteSet(R)
    BY <2>2, FS_Surjection
  <2>4. \A T \in R : IsFiniteSet(T)
    BY <1>4, <2>1
  <2> QED BY <1>2, <2>1, <2>3, <2>4, FS_UNION
<1>6. ASSUME NEW S, NEW key \in [S -> DOMAIN f],
             \A k \in DOMAIN f : LET of == {x \in S : key[x] = k} IN IsFiniteSet(of) /\ Cardinality(of) <= f[k]
      PROVE  IsFiniteSet(S) /\ Cardinality(S) <= SumOf(f)
  <2>1. PICK of : of = [k \in DOMAIN f |-> {x \in S : key[x] = k}]
    OBVIOUS
  <2>2. \A k \in DOMAIN f : Injection(of[k], 1..f[k]) # {}
    <3> TAKE k \in DOMAIN f
    <3>1. PICK n \in Nat : n = Cardinality(of[k]) /\ n <= f[k] /\ IsFiniteSet(of[k])
      BY <1>6, <2>1, FS_CardinalityType
    <3>2. PICK b \in Bijection(1..n, of[k]) : TRUE
      BY <3>1, FS_CardinalityType DEF ExistsBijection
    <3>3. PICK g : g = [x \in of[k] |-> CHOOSE i \in 1..n : b[i] = x]
      OBVIOUS
    <3>4. \A x \in of[k] : g[x] \in 1..n /\ b[g[x]] = x
      BY <3>2, <3>3 DEF Bijection, Surjection
    <3>5. g \in [of[k] -> 1..f[k]]
      <4>1. f[k] \in Nat
        OBVIOUS
      <4>2. 1..n \subseteq 1..f[k]
        BY <3>1, <4>1
      <4> QED BY <3>3, <3>4, <4>2
    <3> QED BY <3>4, <3>5 DEF Injection, IsInjective
  <2>3. PICK num : num = [k \in DOMAIN f |-> CHOOSE g \in Injection(of[k], 1..f[k]) : TRUE]
    OBVIOUS
  <2>4. \A k \in DOMAIN f : num[k] \in Injection(of[k], 1..f[k])
    BY <2>2, <2>3
  <2>5. PICK h : h = [x \in S |-> <<key[x], num[key[x]][x]>>]
    OBVIOUS
  <2>6. \A x \in S : key[x] \in DOMAIN f /\ x \in of[key[x]] /\ num[key[x]][x] \in 1..f[key[x]]
    BY <2>1, <2>4 DEF Injection
  <2>7. h \in [S -> All]
    BY <1>1, <1>2, <2>5, <2>6
  <2>8. \A x, y \in S : h[x] = h[y] => x = y
    <3> SUFFICES ASSUME NEW x \in S, NEW y \in S, h[x] = h[y] PROVE x = y
      OBVIOUS
    <3>1. PICK k : k = key[x]
      OBVIOUS
    <3>2. k = key[y] /\ num[k][x] = num[k][y]
      BY <2>5, <3>1
    <3>3. k \in DOMAIN f /\ x \in of[k] /\ y \in of[k]
      BY <2>6, <3>1, <3>2
    <3> QED BY <2>4, <3>2, <3>3 DEF Injection, IsInjective
  <2>9. h \in Injection(S, All)
    BY <2>7, <2>8 DEF Injection, IsInjective
  <2> QED BY <1>3, <1>5, <2>9, FS_Injection
<1> QED BY <1>3, <1>5, <1>6, FS_CardinalityType

\* What is held of a request that goes on, to where it goes.
LEMMA HeldMoves ==
  ASSUME IngressInv, HeldInv, NEW r \in Slots, NEW p \in Stages, NEW i \in Nat, NEW n \in Nat,
         MovesTo(request, request', r, p, i, n)
  PROVE  /\ request' \in [Slots -> [pc : Stages, client : Holder, id : Nat, conns : Nat]]
         /\ \A s \in Slots \ {r} : request'[s] = request[s]
         /\ \A s \in Slots : request'[s].client = request[s].client
         /\ request'[r].pc = p
<1>1. /\ Shaped(request') /\ \A s \in Slots \ {r} : request'[s] = request[s]
      /\ request'[r].pc = p /\ request'[r].client = request[r].client
      /\ request'[r].id = i /\ request'[r].conns = n
  BY DEF MovesTo
<1>2. PICK V : request' \in [Slots -> [pc : Stages, client : Holder, id : V, conns : V]]
  BY <1>1 DEF Shaped
<1>3. request'[r] \in [pc : Stages, client : Holder, id : Nat, conns : Nat]
  <2>1. PICK x \in [pc : Stages, client : Holder, id : V, conns : V] : x = request'[r]
    BY <1>2
  <2>2. x.id = i /\ x.conns = n
    BY <1>1, <2>1
  <2> QED BY <2>1, <2>2
<1>4. \A s \in Slots : request'[s] \in [pc : Stages, client : Holder, id : Nat, conns : Nat]
  BY <1>1, <1>3 DEF HeldInv, StoreTypes
<1> QED BY <1>1, <1>2, <1>4

\* Steps that leave the sessions alone.
LEMMA HeldFrame ==
  ASSUME IngressInv, HeldInv, spec' = spec, sessions' = sessions, NEW r \in Slots,
         request' \in [Slots -> [pc : Stages, client : Holder, id : Nat, conns : Nat]],
         rows' \in [DOMAIN rows' -> [client : Holder, conns : Nat, seen : Nat]],
         \E n \in Nat : DOMAIN rows' \subseteq 0..n,
         \A s \in Slots \ {r} : request'[s] = request[s],
         r \in Holding(request') => r \in Holding(request) /\ request'[r].client = request[r].client,
         request[r].pc # "idle" \/ request'[r].pc = "idle",
         ~overlapped' => ~overlapped
  PROVE  HeldInv'
<1>1. StoreTypes'
  BY DEF HeldInv, StoreTypes
<1>2. Holding(request') \subseteq Holding(request) /\ \A s \in Holding(request') : request'[s].client = request[s].client
  BY DEF Holding
<1>3. \A c \in DOMAIN sessions : sessions'[c].ConnCount >= sessions[c].ConnCount
  BY DEF HeldInv, StoreTypes
<1>4. Held'
  BY <1>1, <1>2, <1>3, HeldKept, HoldingFinite DEF HeldInv
<1>5. Served(request') \subseteq Served(request)
  BY DEF Served
<1> QED BY <1>1, <1>4, <1>5, ServedKept DEF HeldInv

\* A request is let in while the sessions count fewer connections than the limit.
\* Served alone, every other one is held in its session, so that is no more than
\* were served.
LEMMA HeldChecks ==
  ASSUME IngressInv, HeldInv, NEW r \in Slots, request[r].pc = "idle", NEW c \in Clients,
         NEW udp \in BOOLEAN, CheckIngress(r, c, udp)
  PROVE  HeldInv'
<1>1. PICK limit : limit = minInt(spec.ruleConns, spec.userConns)
  OBVIOUS
<1>2. /\ overlapped' = (overlapped \/ SomeoneElse(r)) /\ UNCHANGED <<spec, sessions, rows>>
      /\ \/ request' = request
         \/ /\ request' = [request EXCEPT ![r].pc = "admitted", ![r].client = c]
            /\ ~LimitOver(limit, AccountConnections)
  BY <1>1 DEF CheckIngress
<1>3. CASE request' = request
  BY <1>2, <1>3, HeldFrame DEF HeldInv, StoreTypes
<1>4. CASE request' = [request EXCEPT ![r].pc = "admitted", ![r].client = c] /\ ~LimitOver(limit, AccountConnections)
  <2>1. request' \in [Slots -> [pc : Stages, client : Holder, id : Nat, conns : Nat]]
    BY ZenonT(30), <1>4 DEF HeldInv, StoreTypes, Stages, Holder
  <2>2. (\A s \in Slots \ {r} : request'[s] = request[s]) /\ request'[r].pc = "admitted"
    BY <1>4 DEF HeldInv, StoreTypes
  <2>3. StoreTypes'
    BY <1>2, <2>1 DEF HeldInv, StoreTypes
  <2>4. Holding(request') = Holding(request) /\ \A s \in Holding(request') : request'[s].client = request[s].client
    BY <2>2 DEF Holding
  <2>5. \A d \in DOMAIN sessions : sessions'[d].ConnCount >= sessions[d].ConnCount
    BY <1>2 DEF HeldInv, StoreTypes
  <2>6. Held'
    BY <1>2, <2>3, <2>4, <2>5, HeldKept, HoldingFinite DEF HeldInv
  <2>7. ASSUME ~overlapped'
        PROVE  IsFiniteSet(Served(request')) /\ Limited(limit, Cardinality(Served(request')))
    <3>1. \A s \in Slots : request[s].pc \in Between
      BY <1>2, <2>7 DEF SomeoneElse, Between
    <3>2. Served(request) = Holding(request) /\ Served(request') = Served(request) \cup {r} /\ r \notin Served(request)
      BY <2>2, <3>1 DEF Served, Holding, Between
    <3>3. IsFiniteSet(Holding(request)) /\ IsFiniteSet(Served(request'))
          /\ Cardinality(Served(request')) = Cardinality(Holding(request)) + 1
      BY <3>2, HoldingFinite, FS_AddElement
    <3>4. limit \in Nat
      BY <1>1, LimitsNumbered DEF minInt, IngressInv, IngressTypes
    <3>5. PICK f : f = [d \in DOMAIN sessions |-> sessions[d].ConnCount]
      OBVIOUS
    <3>6. f \in [DOMAIN f -> Nat] /\ DOMAIN f = DOMAIN sessions /\ IsFiniteSet(DOMAIN f)
      BY <3>5 DEF HeldInv, StoreTypes
    <3>7. PICK key : key = [s \in Holding(request) |-> request[s].client]
      OBVIOUS
    <3>8. key \in [Holding(request) -> DOMAIN f]
      BY <3>6, <3>7 DEF HeldInv, Held
    <3>9. ASSUME NEW k \in DOMAIN f
          PROVE  LET of == {s \in Holding(request) : key[s] = k} IN IsFiniteSet(of) /\ Cardinality(of) <= f[k]
      <4>1. {s \in Holding(request) : key[s] = k} = HeldBy(request, k)
        BY <3>7 DEF HeldBy
      <4>2. IsFiniteSet(HeldBy(request, k))
        BY <3>3, FS_Subset DEF HeldBy
      <4>3. Cardinality(HeldBy(request, k)) <= f[k]
        BY <3>5, <3>6, <3>9 DEF HeldInv, Held
      <4> QED BY <4>1, <4>2, <4>3
    <3>10. SumOf(f) \in Nat /\ Cardinality(Holding(request)) <= SumOf(f)
      BY <3>6, <3>8, <3>9, SumBounds
    <3>11. AccountConnections = SumOf(f)
      BY <3>5 DEF AccountConnections
    <3>12. limit = 0 \/ SumOf(f) < limit
      BY <1>4, <3>4, <3>10, <3>11 DEF LimitOver
    <3>13. Cardinality(Holding(request)) \in Nat
      BY <3>3, FS_CardinalityType
    <3>14. limit = 0 \/ Cardinality(Served(request')) <= limit
      BY <3>3, <3>4, <3>10, <3>12, <3>13
    <3> QED BY <3>3, <3>14 DEF Limited
  <2>8. ServedWithin'
    BY <1>1, <1>2, <2>7 DEF ServedWithin, minInt
  <2> QED BY <2>3, <2>6, <2>8 DEF HeldInv
<1> QED BY <1>2, <1>3, <1>4

\* The tables of addresses and devices are none of the sessions.
LEMMA HeldOpens ==
  ASSUME IngressInv, HeldInv, NEW r \in Slots, OpenConn(r) \/ CloseConn(r)
  PROVE  HeldInv'
<1>1. CASE OpenConn(r)
  <2>1. /\ request[r].pc = "admitted" /\ request' = [request EXCEPT ![r].pc = "counted"]
        /\ UNCHANGED <<spec, sessions, rows, overlapped>>
    BY <1>1 DEF OpenConn
  <2>2. request' \in [Slots -> [pc : Stages, client : Holder, id : Nat, conns : Nat]]
    BY <2>1 DEF HeldInv, StoreTypes, Stages
  <2>3. (\A s \in Slots \ {r} : request'[s] = request[s]) /\ request'[r].pc = "counted"
    BY <2>1 DEF HeldInv, StoreTypes
  <2> QED BY <2>1, <2>2, <2>3, HeldFrame DEF HeldInv, StoreTypes, Holding
<1>2. CASE CloseConn(r)
  <2>1. /\ request[r].pc = "closed" /\ request' = [request EXCEPT ![r] = Unused]
        /\ UNCHANGED <<spec, sessions, rows, overlapped>>
    BY <1>2 DEF CloseConn
  <2>2. request' \in [Slots -> [pc : Stages, client : Holder, id : Nat, conns : Nat]]
    BY <2>1, FreeRequests DEF HeldInv, StoreTypes
  <2>3. (\A s \in Slots \ {r} : request'[s] = request[s]) /\ request'[r].pc = "idle"
    BY <2>1, FreeRequests DEF HeldInv, StoreTypes
  <2> QED BY <2>1, <2>2, <2>3, HeldFrame DEF HeldInv, StoreTypes, Holding
<1> QED BY <1>1, <1>2

\* A connection that opens its session is counted in it.
LEMMA HeldSessionOpens == ASSUME IngressInv, HeldInv, NEW r \in Slots, OpenSession(r) PROVE HeldInv'
<1>1. PICK c : c = request[r].client
  OBVIOUS
<1>2. PICK st : st = IF c \in DOMAIN sessions THEN sessions[c] ELSE [ID |-> 0, ConnCount |-> 0, LastSeen |-> now]
  OBVIOUS
<1>3. PICK st2 : st2 = [st EXCEPT !.ConnCount = @ + 1, !.LastSeen = now]
  OBVIOUS
<1>4. /\ request[r].pc = "counted" /\ sessions' = WithIt(sessions, c, st2)
      /\ request' = [request EXCEPT ![r].pc = "saving", ![r].id = st.ID, ![r].conns = st.ConnCount + 1]
      /\ UNCHANGED <<spec, rows, overlapped>>
  BY <1>1, <1>2, <1>3 DEF OpenSession, seenTables, counters
<1>5. MovesTo(request, request', r, "saving", st.ID, st.ConnCount + 1)
  BY <1>4, Moved DEF IngressInv, IngressTypes, Stages
<1>6. now \in Nat
  BY DEF IngressInv, IngressTypes
<1>7. st \in [ID : Nat, ConnCount : Nat, LastSeen : Nat]
  <2>1. CASE c \in DOMAIN sessions
    BY <1>2, <2>1 DEF HeldInv, StoreTypes
  <2>2. CASE c \notin DOMAIN sessions
    BY <1>2, <1>6, <2>2
  <2> QED BY <2>1, <2>2
<1>8. PICK n \in Nat : n = st.ConnCount + 1
  BY <1>7
<1>9. st2 \in [ID : Nat, ConnCount : Nat, LastSeen : Nat] /\ st2.ConnCount = n
  <2>1. st2 = [st EXCEPT !.ConnCount = n, !.LastSeen = now]
    BY <1>3, <1>7, <1>8
  <2> QED BY <1>6, <1>7, <1>8, <2>1
<1>10. /\ DOMAIN sessions' = DOMAIN sessions \cup {c}
       /\ sessions' = [d \in DOMAIN sessions \cup {c} |-> IF d = c THEN st2 ELSE sessions[d]]
  BY <1>4 DEF WithIt
<1>11. "saving" \in Stages /\ st.ID \in Nat
  BY <1>7 DEF Stages
<1>12. /\ request' \in [Slots -> [pc : Stages, client : Holder, id : Nat, conns : Nat]]
       /\ \A s \in Slots \ {r} : request'[s] = request[s]
       /\ \A s \in Slots : request'[s].client = request[s].client
       /\ request'[r].pc = "saving"
  BY <1>5, <1>8, <1>11, HeldMoves
<1>13. StoreTypes'
  <2>1. sessions' \in [DOMAIN sessions' -> [ID : Nat, ConnCount : Nat, LastSeen : Nat]]
    BY <1>9, <1>10 DEF HeldInv, StoreTypes
  <2>2. IsFiniteSet(DOMAIN sessions')
    BY <1>10, FS_AddElement DEF HeldInv, StoreTypes
  <2> QED BY <1>4, <1>12, <2>1, <2>2 DEF HeldInv, StoreTypes
<1>14. /\ HeldBy(request', c) = HeldBy(request, c) \cup {r} /\ r \notin HeldBy(request, c)
       /\ \A d : d # c => HeldBy(request', d) = HeldBy(request, d)
       /\ Holding(request') = Holding(request) \cup {r}
  <2>1. Holding(request') = Holding(request) \cup {r} /\ r \notin Holding(request)
    <3>1. r \in Holding(request') /\ r \notin Holding(request)
      BY <1>4, <1>12 DEF Holding
    <3>2. \A s \in Slots \ {r} : s \in Holding(request') <=> s \in Holding(request)
      BY <1>12 DEF Holding
    <3>3. Holding(request') \subseteq Slots /\ Holding(request) \subseteq Slots
      BY DEF Holding
    <3> QED BY <3>1, <3>2, <3>3
  <2>2. Holding(request') \subseteq Slots /\ Holding(request) \subseteq Slots
    BY DEF Holding
  <2>3. request[r].client = c /\ request'[r].client = c
    BY <1>1, <1>12
  <2>4. HeldBy(request', c) = HeldBy(request, c) \cup {r} /\ r \notin HeldBy(request, c)
    BY <1>12, <2>1, <2>2, <2>3 DEF HeldBy
  <2>5. \A d : d # c => HeldBy(request', d) = HeldBy(request, d)
    BY <1>12, <2>1, <2>2, <2>3 DEF HeldBy
  <2> QED BY <2>1, <2>4, <2>5
<1>15. IsFiniteSet(HeldBy(request, c))
  BY HoldingFinite, FS_Subset DEF HeldBy
<1>16. /\ Cardinality(HeldBy(request', c)) = Cardinality(HeldBy(request, c)) + 1
       /\ Cardinality(HeldBy(request, c)) \in Nat
  BY ZenonT(30), <1>14, <1>15, FS_AddElement, FS_CardinalityType
<1>17. Cardinality(HeldBy(request, c)) <= st.ConnCount
  <2>1. CASE c \in DOMAIN sessions
    BY <1>2, <2>1 DEF HeldInv, Held
  <2>2. CASE c \notin DOMAIN sessions
    <3>1. HeldBy(request, c) = {}
      BY <2>2 DEF HeldInv, Held, HeldBy
    <3>2. st.ConnCount = 0
      BY <1>2, <2>2
    <3> QED BY <3>1, <3>2, FS_EmptySet
  <2> QED BY <2>1, <2>2
<1>18. Held'
  <2>1. \A s \in Holding(request') : request'[s].client \in DOMAIN sessions'
    <3>1. \A s \in Holding(request') : s \in Slots /\ (s = r \/ s \in Holding(request))
      BY <1>14 DEF Holding
    <3> QED BY <1>1, <1>10, <1>12, <3>1 DEF HeldInv, Held
  <2>2. ASSUME NEW d \in DOMAIN sessions' PROVE Cardinality(HeldBy(request', d)) <= sessions'[d].ConnCount
    <3>1. CASE d = c
      <4>1. sessions'[d].ConnCount = n
        BY <1>9, <1>10, <3>1
      <4>2. st.ConnCount \in Nat
        BY <1>7
      <4> QED BY <1>8, <1>16, <1>17, <3>1, <4>1, <4>2
    <3>2. CASE d # c
      <4>1. d \in DOMAIN sessions /\ sessions'[d] = sessions[d] /\ HeldBy(request', d) = HeldBy(request, d)
        BY <1>10, <1>14, <2>2, <3>2
      <4>2. Cardinality(HeldBy(request, d)) <= sessions[d].ConnCount
        BY <4>1 DEF HeldInv, Held
      <4> QED BY <4>1, <4>2
    <3> QED BY <3>1, <3>2
  <2> QED BY <2>1, <2>2 DEF Held
<1>19. Served(request') \subseteq Served(request)
  BY <1>4, <1>12 DEF Served
<1>20. ServedWithin'
  BY <1>4, <1>19, ServedKept DEF HeldInv
<1> QED BY <1>13, <1>18, <1>20 DEF HeldInv

\* Saving it moves no connection.
LEMMA HeldSaved == ASSUME IngressInv, HeldInv, NEW r \in Slots, SaveSession(r) PROVE HeldInv'
<1>1. PICK c : c = request[r].client
  OBVIOUS
<1>2. PICK id : id = IF request[r].id > 0 THEN request[r].id ELSE Max(DOMAIN rows \cup {0}) + 1
  OBVIOUS
<1>3. /\ request[r].pc = "saving" /\ UNCHANGED <<spec, sessions, overlapped>>
      /\ \/ /\ rows' = WithIt(rows, id, [client |-> c, conns |-> request[r].conns, seen |-> now])
            /\ request' = [request EXCEPT ![r].pc = "saved", ![r].id = id, ![r].conns = 0]
         \/ rows' = rows /\ request' = [request EXCEPT ![r] = Connected(c)]
  BY <1>1, <1>2 DEF SaveSession, seenTables
<1>4. now \in Nat
  BY DEF IngressInv, IngressTypes
<1>5. request[r] \in [pc : Stages, client : Holder, id : Nat, conns : Nat]
  BY DEF HeldInv, StoreTypes
<1>6. c \in Holder /\ request[r].id \in Nat /\ request[r].conns \in Nat
  BY <1>1, <1>5
<1>7. CASE rows' = rows /\ request' = [request EXCEPT ![r] = Connected(c)]
  <2>1. Connected(c) \in [pc : Stages, client : Holder, id : Nat, conns : Nat] /\ Connected(c).client = c
    BY <1>6, FreeRequests
  <2>2. request' \in [Slots -> [pc : Stages, client : Holder, id : Nat, conns : Nat]]
    BY <1>7, <2>1 DEF HeldInv, StoreTypes
  <2>3. (\A s \in Slots \ {r} : request'[s] = request[s]) /\ request'[r].client = c
    BY <1>7, <2>1 DEF HeldInv, StoreTypes
  <2>4. r \in Holding(request) /\ request[r].pc # "idle"
    BY <1>3 DEF Holding
  <2> QED BY <1>1, <1>3, <1>7, <2>2, <2>3, <2>4, HeldFrame DEF HeldInv, StoreTypes
<1>8. CASE /\ rows' = WithIt(rows, id, [client |-> c, conns |-> request[r].conns, seen |-> now])
           /\ request' = [request EXCEPT ![r].pc = "saved", ![r].id = id, ![r].conns = 0]
  <2>1. PICK n \in Nat : DOMAIN rows \subseteq 0..n
    BY DEF HeldInv, StoreTypes
  <2>2. id \in Nat
    <3>1. (DOMAIN rows \ {0}) \subseteq 1..n /\ (DOMAIN rows \ {0}) \cup {0} = DOMAIN rows \cup {0}
      BY <2>1
    <3>2. Max(DOMAIN rows \cup {0}) + 1 \in 1..(n + 1)
      BY <3>1, NextNumber
    <3>3. Max(DOMAIN rows \cup {0}) + 1 \in Nat
      BY <2>1, <3>2
    <3> QED BY <1>2, <1>6, <3>3
  <2>3. MovesTo(request, request', r, "saved", id, 0)
    BY <1>8, Moved DEF IngressInv, IngressTypes, Stages
  <2>4. "saved" \in Stages /\ 0 \in Nat
    BY DEF Stages
  <2>5. /\ request' \in [Slots -> [pc : Stages, client : Holder, id : Nat, conns : Nat]]
        /\ \A s \in Slots \ {r} : request'[s] = request[s]
        /\ \A s \in Slots : request'[s].client = request[s].client
        /\ request'[r].pc = "saved"
    BY <2>2, <2>3, <2>4, HeldMoves
  <2>6. PICK row : row = [client |-> c, conns |-> request[r].conns, seen |-> now]
    OBVIOUS
  <2>7. row \in [client : Holder, conns : Nat, seen : Nat]
    BY <1>4, <1>6, <2>6
  <2>8. /\ DOMAIN rows' = DOMAIN rows \cup {id}
        /\ rows' = [j \in DOMAIN rows \cup {id} |-> IF j = id THEN row ELSE rows[j]]
    BY <1>8, <2>6 DEF WithIt
  <2>9. rows' \in [DOMAIN rows' -> [client : Holder, conns : Nat, seen : Nat]]
    BY <2>7, <2>8 DEF HeldInv, StoreTypes
  <2>10. n + id \in Nat /\ DOMAIN rows' \subseteq 0..(n + id)
    BY <2>1, <2>2, <2>8
  <2>11. r \in Holding(request) /\ request[r].pc # "idle"
    BY <1>3 DEF Holding
  <2> QED BY <1>3, <2>5, <2>9, <2>10, <2>11, HeldFrame
<1> QED BY <1>3, <1>7, <1>8

\* Nor does telling the memory its row.
LEMMA HeldNamed == ASSUME IngressInv, HeldInv, NEW r \in Slots, SetID(r) PROVE HeldInv'
<1>1. PICK c, i : c = request[r].client /\ i = request[r].id
  OBVIOUS
<1>2. /\ request[r].pc = "saved" /\ request' = [request EXCEPT ![r] = Connected(c)]
      /\ sessions' = IF c \in DOMAIN sessions THEN [sessions EXCEPT ![c].ID = i] ELSE sessions
      /\ UNCHANGED <<spec, rows, overlapped>>
  BY <1>1 DEF SetID, seenTables, counters
<1>3. request[r] \in [pc : Stages, client : Holder, id : Nat, conns : Nat]
  BY DEF HeldInv, StoreTypes
<1>4. c \in Holder /\ i \in Nat
  BY <1>1, <1>3
<1>5. Connected(c) \in [pc : Stages, client : Holder, id : Nat, conns : Nat] /\ Connected(c).client = c
  BY <1>4, FreeRequests
<1>6. request' \in [Slots -> [pc : Stages, client : Holder, id : Nat, conns : Nat]]
  BY <1>2, <1>5 DEF HeldInv, StoreTypes
<1>7. (\A s \in Slots \ {r} : request'[s] = request[s]) /\ request'[r].client = c
  BY <1>2, <1>5 DEF HeldInv, StoreTypes
<1>8. /\ sessions' \in [DOMAIN sessions -> [ID : Nat, ConnCount : Nat, LastSeen : Nat]]
      /\ \A d \in DOMAIN sessions : sessions'[d].ConnCount = sessions[d].ConnCount
  <2>1. CASE c \in DOMAIN sessions
    <3>1. PICK old : old = sessions[c]
      OBVIOUS
    <3>2. old \in [ID : Nat, ConnCount : Nat, LastSeen : Nat]
      BY <2>1, <3>1 DEF HeldInv, StoreTypes
    <3>3. PICK st : st = [old EXCEPT !.ID = i]
      OBVIOUS
    <3>4. st \in [ID : Nat, ConnCount : Nat, LastSeen : Nat] /\ st.ConnCount = old.ConnCount
      BY <1>4, <3>2, <3>3
    <3>5. sessions' = [sessions EXCEPT ![c] = st]
      BY <1>2, <2>1, <3>1, <3>3 DEF HeldInv, StoreTypes
    <3> QED BY <2>1, <3>1, <3>4, <3>5 DEF HeldInv, StoreTypes
  <2>2. CASE c \notin DOMAIN sessions
    BY <1>2, <2>2 DEF HeldInv, StoreTypes
  <2> QED BY <2>1, <2>2
<1>9. StoreTypes' /\ DOMAIN sessions' = DOMAIN sessions
  BY <1>2, <1>6, <1>8 DEF HeldInv, StoreTypes
<1>10. Holding(request') \subseteq Holding(request) /\ \A s \in Holding(request') : request'[s].client = request[s].client
  <2>1. r \in Holding(request)
    BY <1>2 DEF Holding
  <2> QED BY <1>1, <1>7, <2>1 DEF Holding
<1>11. \A d \in DOMAIN sessions : sessions'[d].ConnCount >= sessions[d].ConnCount
  BY <1>8 DEF HeldInv, StoreTypes
<1>12. Held'
  BY <1>9, <1>10, <1>11, HeldKept, HoldingFinite DEF HeldInv
<1>13. Served(request') \subseteq Served(request)
  BY <1>2, <1>7 DEF Served
<1>14. ServedWithin'
  BY <1>2, <1>13, ServedKept DEF HeldInv
<1> QED BY <1>9, <1>12, <1>14 DEF HeldInv

\* A touch only adds to a count.
LEMMA HeldTouched == ASSUME IngressInv, HeldInv, NEW r \in Slots, TouchSession(r) PROVE HeldInv'
<1>1. PICK c : c = request[r].client
  OBVIOUS
<1>2. PICK i, p : i = sessions[c].ID /\ p = IF i = 0 THEN "connected" ELSE "touching"
  OBVIOUS
<1>3. /\ request[r].pc = "connected" /\ c \in DOMAIN sessions
      /\ sessions' = [sessions EXCEPT ![c].ConnCount = @ + 1, ![c].LastSeen = now]
      /\ request' = [request EXCEPT ![r].pc = p, ![r].id = i]
      /\ overlapped' = (overlapped \/ SomeoneElse(r))
      /\ UNCHANGED <<spec, rows>>
  BY <1>1, <1>2 DEF TouchSession, seenTables
<1>4. p \in Stages /\ now \in Nat
  BY <1>2 DEF Stages, IngressInv, IngressTypes
<1>5. MovesTo(request, request', r, p, i, request[r].conns)
  BY <1>3, <1>4, Moved DEF IngressInv, IngressTypes
<1>6. PICK old : old = sessions[c]
  OBVIOUS
<1>7. old \in [ID : Nat, ConnCount : Nat, LastSeen : Nat]
  BY <1>3, <1>6 DEF HeldInv, StoreTypes
<1>8. i \in Nat /\ request[r].conns \in Nat
  BY <1>2, <1>6, <1>7 DEF HeldInv, StoreTypes
<1>9. /\ request' \in [Slots -> [pc : Stages, client : Holder, id : Nat, conns : Nat]]
      /\ \A s \in Slots \ {r} : request'[s] = request[s]
      /\ \A s \in Slots : request'[s].client = request[s].client
      /\ request'[r].pc = p
  BY <1>4, <1>5, <1>8, HeldMoves
<1>10. PICK n \in Nat : n = old.ConnCount + 1
  BY <1>7
<1>11. PICK st : st = [old EXCEPT !.ConnCount = n, !.LastSeen = now]
  OBVIOUS
<1>12. st \in [ID : Nat, ConnCount : Nat, LastSeen : Nat] /\ st.ConnCount = n
  BY <1>4, <1>7, <1>11
<1>13. sessions' = [sessions EXCEPT ![c] = st]
  BY <1>3, <1>6, <1>10, <1>11 DEF HeldInv, StoreTypes
<1>14. sessions' \in [DOMAIN sessions -> [ID : Nat, ConnCount : Nat, LastSeen : Nat]]
  BY <1>12, <1>13 DEF HeldInv, StoreTypes
<1>15. StoreTypes' /\ DOMAIN sessions' = DOMAIN sessions
  BY <1>3, <1>9, <1>14 DEF HeldInv, StoreTypes
<1>16. ASSUME NEW d \in DOMAIN sessions PROVE sessions'[d].ConnCount >= sessions[d].ConnCount
  <2>1. CASE d = c
    <3>1. sessions'[d] = st /\ sessions[d] = old
      BY <1>3, <1>6, <1>13, <2>1 DEF HeldInv, StoreTypes
    <3>2. old.ConnCount \in Nat
      BY <1>7
    <3> QED BY <1>10, <1>12, <3>1, <3>2
  <2>2. CASE d # c
    <3>1. sessions'[d] = sessions[d] /\ sessions[d].ConnCount \in Nat
      BY <1>13, <1>16, <2>2 DEF HeldInv, StoreTypes
    <3> QED BY <3>1
  <2> QED BY <2>1, <2>2
<1>17. Holding(request') \subseteq Holding(request) /\ \A s \in Holding(request') : request'[s].client = request[s].client
  <2>1. r \in Holding(request)
    BY <1>3 DEF Holding
  <2> QED BY <1>9, <2>1 DEF Holding
<1>18. Held'
  BY <1>15, <1>16, <1>17, HeldKept, HoldingFinite DEF HeldInv
<1>19. Served(request') \subseteq Served(request)
  BY <1>3, <1>9 DEF Served
<1>20. ServedWithin'
  BY <1>3, <1>19, ServedKept DEF HeldInv
<1> QED BY <1>15, <1>18, <1>20 DEF HeldInv

\* A connection that closes is no longer held; a session that goes with it held
\* no other.
LEMMA HeldCloses == ASSUME IngressInv, HeldInv, NEW r \in Slots, CloseSession(r) PROVE HeldInv'
<1>1. PICK c : c = request[r].client
  OBVIOUS
<1>2. r \in Holding(request) /\ c \in DOMAIN sessions /\ request[r].pc = "connected"
  <2>1. request[r].pc = "connected" /\ r \in Holding(request)
    BY DEF CloseSession, Holding
  <2> QED BY <1>1, <2>1 DEF HeldInv, Held
<1>3. PICK i, p : i = sessions[c].ID /\ p = IF i = 0 THEN "closed" ELSE "closing"
  OBVIOUS
<1>4. /\ sessions' = IF sessions[c].ConnCount <= 1 THEN Dropping(sessions, {c})
                     ELSE [sessions EXCEPT ![c].ConnCount = @ - 1, ![c].LastSeen = now]
      /\ request' = [request EXCEPT ![r].pc = p, ![r].id = i]
      /\ overlapped' = (overlapped \/ SomeoneElse(r))
      /\ UNCHANGED <<spec, rows>>
  BY <1>1, <1>2, <1>3 DEF CloseSession, seenTables, counters
<1>5. p \in Stages /\ p \in {"closed", "closing"} /\ now \in Nat
  BY <1>3 DEF Stages, IngressInv, IngressTypes
<1>6. MovesTo(request, request', r, p, i, request[r].conns)
  BY <1>4, <1>5, Moved DEF IngressInv, IngressTypes
<1>7. PICK old : old = sessions[c]
  OBVIOUS
<1>8. old \in [ID : Nat, ConnCount : Nat, LastSeen : Nat]
  BY <1>2, <1>7 DEF HeldInv, StoreTypes
<1>9. i \in Nat /\ request[r].conns \in Nat
  BY <1>3, <1>7, <1>8 DEF HeldInv, StoreTypes
<1>10. /\ request' \in [Slots -> [pc : Stages, client : Holder, id : Nat, conns : Nat]]
       /\ \A s \in Slots \ {r} : request'[s] = request[s]
       /\ \A s \in Slots : request'[s].client = request[s].client
       /\ request'[r].pc = p
  BY <1>5, <1>6, <1>9, HeldMoves
<1>11. \A s : s \in Holding(request') <=> s \in Holding(request) /\ s # r
  BY <1>5, <1>10 DEF Holding
<1>12. /\ \A d : HeldBy(request', d) \subseteq HeldBy(request, d)
       /\ HeldBy(request', c) = HeldBy(request, c) \ {r} /\ r \in HeldBy(request, c)
  <2>1. \A s \in Holding(request) : s \in Slots
    BY DEF Holding
  <2> QED BY <1>1, <1>2, <1>10, <1>11, <2>1 DEF HeldBy
<1>13. \A d : IsFiniteSet(HeldBy(request, d))
  BY HoldingFinite, FS_Subset DEF HeldBy
<1>14. /\ Cardinality(HeldBy(request', c)) = Cardinality(HeldBy(request, c)) - 1
       /\ Cardinality(HeldBy(request, c)) \in Nat /\ IsFiniteSet(HeldBy(request', c))
  BY <1>12, <1>13, FS_RemoveElement, FS_CardinalityType
<1>15. Cardinality(HeldBy(request, c)) <= old.ConnCount
  BY <1>2, <1>7 DEF HeldInv, Held
<1>16. ASSUME NEW d \in DOMAIN sessions, d # c, sessions'[d] = sessions[d]
       PROVE  Cardinality(HeldBy(request', d)) <= sessions'[d].ConnCount
  <2>1. /\ Cardinality(HeldBy(request', d)) <= Cardinality(HeldBy(request, d))
        /\ Cardinality(HeldBy(request', d)) \in Nat /\ Cardinality(HeldBy(request, d)) \in Nat
    BY <1>12, <1>13, FS_Subset, FS_CardinalityType
  <2>2. Cardinality(HeldBy(request, d)) <= sessions[d].ConnCount /\ sessions[d].ConnCount \in Nat
    BY DEF HeldInv, Held, StoreTypes
  <2> QED BY <1>16, <2>1, <2>2
<1>17. ASSUME old.ConnCount <= 1 PROVE StoreTypes' /\ Held'
  <2>1. sessions' = [d \in DOMAIN sessions \ {c} |-> sessions[d]]
    BY <1>4, <1>7, <1>17 DEF Dropping
  <2>2. DOMAIN sessions' = DOMAIN sessions \ {c} /\ \A d \in DOMAIN sessions' : sessions'[d] = sessions[d]
    BY <2>1
  <2>3. StoreTypes'
    <3>1. sessions' \in [DOMAIN sessions' -> [ID : Nat, ConnCount : Nat, LastSeen : Nat]]
      BY <2>1 DEF HeldInv, StoreTypes
    <3>2. IsFiniteSet(DOMAIN sessions')
      BY <2>2, FS_Subset DEF HeldInv, StoreTypes
    <3> QED BY <1>4, <1>10, <3>1, <3>2 DEF HeldInv, StoreTypes
  <2>4. HeldBy(request', c) = {}
    <3>1. old.ConnCount \in Nat
      BY <1>8
    <3>2. Cardinality(HeldBy(request', c)) \in Nat
      BY <1>14, FS_CardinalityType
    <3>3. Cardinality(HeldBy(request', c)) = 0
      BY <1>14, <1>15, <1>17, <3>1, <3>2
    <3> QED BY <1>14, <3>3, FS_EmptySet
  <2>5. ASSUME NEW s \in Holding(request') PROVE request'[s].client \in DOMAIN sessions'
    <3>1. request'[s].client # c
      BY <2>4, <2>5 DEF HeldBy
    <3>2. s \in Slots /\ request[s].client = request'[s].client /\ s \in Holding(request)
      BY <1>10, <1>11, <2>5 DEF Holding
    <3> QED BY <2>2, <3>1, <3>2 DEF HeldInv, Held
  <2>6. ASSUME NEW d \in DOMAIN sessions' PROVE Cardinality(HeldBy(request', d)) <= sessions'[d].ConnCount
    BY <1>16, <2>2, <2>6
  <2>7. Held'
    BY <2>5, <2>6 DEF Held
  <2> QED BY <2>3, <2>7
<1>18. ASSUME ~(old.ConnCount <= 1) PROVE StoreTypes' /\ Held'
  <2>1. PICK n \in Nat : n = old.ConnCount - 1
    BY <1>8, <1>18
  <2>2. PICK st : st = [old EXCEPT !.ConnCount = n, !.LastSeen = now]
    OBVIOUS
  <2>3. st \in [ID : Nat, ConnCount : Nat, LastSeen : Nat] /\ st.ConnCount = n
    BY <1>5, <1>8, <2>2
  <2>4. sessions' = [sessions EXCEPT ![c] = st]
    BY <1>2, <1>4, <1>7, <1>18, <2>1, <2>2 DEF HeldInv, StoreTypes
  <2>5. /\ DOMAIN sessions' = DOMAIN sessions
        /\ \A d \in DOMAIN sessions : sessions'[d] = IF d = c THEN st ELSE sessions[d]
        /\ sessions' \in [DOMAIN sessions -> [ID : Nat, ConnCount : Nat, LastSeen : Nat]]
    BY <1>2, <2>3, <2>4 DEF HeldInv, StoreTypes
  <2>6. StoreTypes'
    BY <1>4, <1>10, <2>5 DEF HeldInv, StoreTypes
  <2>7. \A s \in Holding(request') : request'[s].client \in DOMAIN sessions'
    <3>1. \A s \in Holding(request') : s \in Slots
      BY DEF Holding
    <3> QED BY <1>10, <1>11, <2>5, <3>1 DEF HeldInv, Held
  <2>8. ASSUME NEW d \in DOMAIN sessions' PROVE Cardinality(HeldBy(request', d)) <= sessions'[d].ConnCount
    <3>1. CASE d = c
      <4>1. sessions'[d].ConnCount = n /\ old.ConnCount \in Nat
        BY <1>2, <1>8, <2>3, <2>5, <3>1
      <4> QED BY <1>14, <1>15, <2>1, <3>1, <4>1
    <3>2. CASE d # c
      BY <1>16, <2>5, <2>8, <3>2
    <3> QED BY <3>1, <3>2
  <2>9. Held'
    BY <2>7, <2>8 DEF Held
  <2> QED BY <2>6, <2>9
<1>19. StoreTypes' /\ Held'
  BY <1>17, <1>18
<1>20. Served(request') \subseteq Served(request)
  BY <1>2, <1>10 DEF Served
<1>21. ServedWithin'
  BY <1>4, <1>20, ServedKept DEF HeldInv
<1> QED BY <1>19, <1>21 DEF HeldInv

\* The row follows, and no session.
LEMMA HeldFollows == ASSUME IngressInv, HeldInv, NEW r \in Slots, Updated(r) PROVE HeldInv'
<1>1. PICK i, rises, p : i = request[r].id /\ rises = (request[r].pc = "touching") /\ p = IF rises THEN "connected" ELSE "closed"
  OBVIOUS
<1>2. /\ request[r].pc \in {"touching", "closing"}
      /\ request' = [request EXCEPT ![r].pc = p, ![r].id = 0]
      /\ UNCHANGED <<spec, sessions, overlapped>>
      /\ rows' = UpdateRow(r, IF rises THEN "up" ELSE "down") \/ rows' = rows
  BY <1>1 DEF Updated, seenTables
<1>3. p \in Stages /\ 0 \in Nat /\ now \in Nat
  BY <1>1 DEF Stages, IngressInv, IngressTypes
<1>4. MovesTo(request, request', r, p, 0, request[r].conns)
  BY <1>2, <1>3, Moved DEF IngressInv, IngressTypes
<1>5. request[r].conns \in Nat
  BY DEF HeldInv, StoreTypes
<1>6. /\ request' \in [Slots -> [pc : Stages, client : Holder, id : Nat, conns : Nat]]
      /\ \A s \in Slots \ {r} : request'[s] = request[s]
      /\ \A s \in Slots : request'[s].client = request[s].client
      /\ request'[r].pc = p
  BY <1>3, <1>4, <1>5, HeldMoves
<1>7. rows' \in [DOMAIN rows -> [client : Holder, conns : Nat, seen : Nat]]
  <2>1. CASE rows' = rows
    BY <2>1 DEF HeldInv, StoreTypes
  <2>2. CASE i \in DOMAIN rows /\ rows' # rows
    <3>1. PICK old : old = rows[i]
      OBVIOUS
    <3>2. old \in [client : Holder, conns : Nat, seen : Nat]
      BY <2>2, <3>1 DEF HeldInv, StoreTypes
    <3>3. PICK n : n = IF rises THEN old.conns + 1 ELSE IF old.conns > 0 THEN old.conns - 1 ELSE 0
      OBVIOUS
    <3>4. n \in Nat
      BY <3>2, <3>3
    <3>5. PICK row : row = [old EXCEPT !.seen = now, !.conns = n]
      OBVIOUS
    <3>6. row \in [client : Holder, conns : Nat, seen : Nat]
      BY <1>3, <3>2, <3>4, <3>5
    <3>7. rows' = [rows EXCEPT ![i] = row]
      <4>1. CASE rises
        <5>1. rows' = [rows EXCEPT ![i].seen = now, ![i].conns = @ + 1]
          BY <1>1, <1>2, <2>2, <4>1 DEF UpdateRow
        <5> QED BY <2>2, <3>1, <3>3, <3>5, <4>1, <5>1 DEF HeldInv, StoreTypes
      <4>2. CASE ~rises
        <5>1. rows' = [rows EXCEPT ![i].seen = now, ![i].conns = IF @ > 0 THEN @ - 1 ELSE 0]
          BY <1>1, <1>2, <2>2, <4>2 DEF UpdateRow
        <5> QED BY <2>2, <3>1, <3>3, <3>5, <4>2, <5>1 DEF HeldInv, StoreTypes
      <4> QED BY <4>1, <4>2
    <3> QED BY <3>6, <3>7 DEF HeldInv, StoreTypes
  <2>3. CASE i \notin DOMAIN rows
    BY <1>1, <1>2, <2>3 DEF UpdateRow, HeldInv, StoreTypes
  <2> QED BY <2>1, <2>2, <2>3
<1>8. DOMAIN rows' = DOMAIN rows /\ \E n \in Nat : DOMAIN rows' \subseteq 0..n
  BY <1>7 DEF HeldInv, StoreTypes
<1>9. r \in Holding(request') => r \in Holding(request)
  <2>1. CASE rises
    BY <1>1, <2>1 DEF Holding
  <2>2. CASE ~rises
    BY <1>1, <1>6, <2>2 DEF Holding
  <2> QED BY <2>1, <2>2
<1>10. request[r].pc # "idle"
  BY <1>2
<1> QED BY <1>2, <1>6, <1>7, <1>8, <1>9, <1>10, HeldFrame

\* Steps that leave the connections and their sessions alone.
LEMMA HeldAlone ==
  ASSUME IngressInv, HeldInv, UNCHANGED <<spec, sessions, rows, request, overlapped>>
  PROVE  HeldInv'
<1>1. StoreTypes' /\ Held'
  BY DEF HeldInv, StoreTypes, Held, Holding, HeldBy
<1>2. ServedWithin'
  BY ServedKept DEF HeldInv
<1> QED BY <1>1, <1>2 DEF HeldInv

\* Only sessions that hold no connection are cleaned up.
LEMMA HeldCleaned == ASSUME IngressInv, HeldInv, CleanupSessions PROVE HeldInv'
<1>1. PICK old, gone : /\ old = {c \in DOMAIN sessions : sessions[c].ConnCount = 0 /\ now - sessions[c].LastSeen > IdleTimeout}
                       /\ gone = {id \in DOMAIN rows : rows[id].conns = 0 /\ now - rows[id].seen > IdleTimeout}
  OBVIOUS
<1>2. /\ sessions' = Dropping(sessions, old) /\ rows' = Dropping(rows, gone)
      /\ UNCHANGED <<spec, request, overlapped>>
  BY <1>1 DEF CleanupSessions, seenTables, counters
<1>3. sessions' = [c \in DOMAIN sessions \ old |-> sessions[c]] /\ rows' = [id \in DOMAIN rows \ gone |-> rows[id]]
  BY <1>2 DEF Dropping
<1>4. StoreTypes'
  <2>1. /\ sessions' \in [DOMAIN sessions' -> [ID : Nat, ConnCount : Nat, LastSeen : Nat]]
        /\ rows' \in [DOMAIN rows' -> [client : Holder, conns : Nat, seen : Nat]]
    BY <1>3 DEF HeldInv, StoreTypes
  <2>2. DOMAIN sessions' \subseteq DOMAIN sessions /\ DOMAIN rows' \subseteq DOMAIN rows
    BY <1>3
  <2>3. IsFiniteSet(DOMAIN sessions')
    BY <2>2, FS_Subset DEF HeldInv, StoreTypes
  <2> QED BY <1>2, <2>1, <2>2, <2>3 DEF HeldInv, StoreTypes
<1>5. \A c \in old : HeldBy(request, c) = {}
  <2> TAKE c \in old
  <2>1. IsFiniteSet(HeldBy(request, c))
    BY HoldingFinite, FS_Subset DEF HeldBy
  <2>2. Cardinality(HeldBy(request, c)) <= 0 /\ Cardinality(HeldBy(request, c)) \in Nat
    BY <1>1, <2>1, FS_CardinalityType DEF HeldInv, Held
  <2> QED BY <2>1, <2>2, FS_EmptySet
<1>6. Held'
  <2>1. \A r \in Holding(request) : request[r].client \notin old
    BY <1>5 DEF HeldBy
  <2> QED BY <1>2, <1>3, <2>1 DEF HeldInv, Held, Holding, HeldBy
<1>7. ServedWithin'
  BY <1>2, ServedKept DEF HeldInv
<1> QED BY <1>4, <1>6, <1>7 DEF HeldInv

\* After a restart nothing is held, and the sessions read back count their rows.
LEMMA HeldRebuilt == ASSUME IngressInv, HeldInv, RebuildSessions PROVE HeldInv'
<1>1. PICK fresh : fresh = {id \in DOMAIN rows : rows[id].conns > 0 /\ now - rows[id].seen <= IdleTimeout}
  OBVIOUS
<1>2. PICK of : of = [c \in {rows[id].client : id \in fresh} |-> {id \in fresh : rows[id].client = c}]
  OBVIOUS
<1>3. PICK back : back = [c \in {rows[id].client : id \in fresh} |->
                            [ID |-> Min(of[c]), LastSeen |-> rows[Min(of[c])].seen,
                             ConnCount |-> SumOf([id \in of[c] |-> rows[id].conns])]]
  OBVIOUS
<1>4. /\ sessions' = back /\ request' = [r \in Slots |-> Unused] /\ UNCHANGED <<spec, rows, overlapped>>
  BY <1>1, <1>2, <1>3 DEF RebuildSessions
<1>5. PICK n \in Nat : DOMAIN rows \subseteq 0..n
  BY DEF HeldInv, StoreTypes
<1>6. fresh \subseteq DOMAIN rows /\ fresh \subseteq Nat /\ IsFiniteSet(fresh)
  <2>1. IsFiniteSet(0..n)
    BY <1>5, FS_Interval
  <2>2. fresh \subseteq 0..n /\ fresh \subseteq DOMAIN rows
    BY <1>1, <1>5
  <2>3. IsFiniteSet(fresh)
    BY <2>1, <2>2, FS_Subset
  <2> QED BY <2>2, <2>3
<1>7. IsFiniteSet(DOMAIN back)
  <2>1. PICK by : by = [id \in fresh |-> rows[id].client]
    OBVIOUS
  <2>2. by \in Surjection(fresh, DOMAIN back)
    BY <1>3, <2>1 DEF Surjection
  <2> QED BY <1>6, <2>2, FS_Surjection
<1>8. ASSUME NEW c \in DOMAIN back PROVE back[c] \in [ID : Nat, ConnCount : Nat, LastSeen : Nat]
  <2>1. of[c] \in SUBSET Nat /\ of[c] # {} /\ of[c] \subseteq fresh
    BY <1>2, <1>3, <1>6, <1>8
  <2>2. Min(of[c]) \in of[c]
    BY <2>1, LeastNumber DEF Min
  <2>3. PICK m \in Nat : m = Min(of[c]) /\ m \in DOMAIN rows
    BY <1>6, <2>1, <2>2
  <2>4. rows[m].seen \in Nat
    BY <2>3 DEF HeldInv, StoreTypes
  <2>5. PICK f : f = [id \in of[c] |-> rows[id].conns]
    OBVIOUS
  <2>6. f \in [DOMAIN f -> Nat] /\ DOMAIN f \subseteq fresh
    BY <1>6, <2>1, <2>5 DEF HeldInv, StoreTypes
  <2>7. IsFiniteSet(DOMAIN f)
    BY <1>6, <2>6, FS_Subset
  <2>8. SumOf(f) \in Nat
    BY <2>6, <2>7, SumBounds
  <2>9. back[c] = [ID |-> m, LastSeen |-> rows[m].seen, ConnCount |-> SumOf(f)]
    BY <1>3, <1>8, <2>3, <2>5
  <2> QED BY <2>4, <2>8, <2>9
<1>9. sessions' \in [DOMAIN sessions' -> [ID : Nat, ConnCount : Nat, LastSeen : Nat]]
  BY <1>3, <1>4, <1>8
<1>10. request' \in [Slots -> [pc : Stages, client : Holder, id : Nat, conns : Nat]]
       /\ \A r \in Slots : request'[r].pc = "idle"
  BY <1>4, FreeRequests
<1>11. StoreTypes'
  BY <1>4, <1>7, <1>9, <1>10 DEF HeldInv, StoreTypes
<1>12. Holding(request') = {} /\ Served(request') = {}
  BY <1>10 DEF Holding, Served
<1>13. Held'
  <2>1. \A c : HeldBy(request', c) = {}
    BY <1>12 DEF HeldBy
  <2>2. \A c \in DOMAIN sessions' : sessions'[c].ConnCount \in Nat
    BY <1>9
  <2> QED BY <1>12, <2>1, <2>2, FS_EmptySet DEF Held
<1>14. ServedWithin'
  BY <1>4, <1>12, ServedKept DEF HeldInv
<1> QED BY <1>11, <1>13, <1>14 DEF HeldInv

\* Every step keeps the second part too.
LEMMA HeldStep == IngressInv /\ HeldInv /\ [NextIngress]_ingressVars => HeldInv'
<1> SUFFICES ASSUME IngressInv, HeldInv, [NextIngress]_ingressVars PROVE HeldInv'
  OBVIOUS
<1>1. ASSUME NEW r \in Slots, Handled(r) PROVE HeldInv'
  BY <1>1, HeldChecks, HeldOpens, HeldSessionOpens, HeldSaved, HeldNamed, HeldTouched,
     HeldCloses, HeldFollows DEF Handled
<1>2. CASE Cleanup \/ Tick \/ UNCHANGED ingressVars
  <2>1. UNCHANGED <<spec, sessions, rows, request, overlapped>>
    BY <1>2 DEF Cleanup, Tick, ingressVars
  <2> QED BY <2>1, HeldAlone
<1>3. CASE CleanupSessions \/ RebuildSessions
  BY <1>3, HeldCleaned, HeldRebuilt
<1> QED BY <1>1, <1>2, <1>3 DEF NextIngress

\* The limits of an ingress: an open connection keeps its address and its device
\* in the tables (LimitService.OpenConn, CloseConn, Cleanup), with exactly the
\* connections that are open; requests served one after the other stay within the
\* limits of addresses, devices and connections (CheckIngress); and the table of
\* sessions shows what is counted in memory (TrafficService.OpenSession to
\* CloseSession).
THEOREM IngressIsStrict == IngressSpec => []IngressStrict
<1>1. IngressInv => CountsOpen
  <2> SUFFICES ASSUME IngressInv PROVE CountsOpen
    OBVIOUS
  <2>1. Registered = Counting(request)
    BY DEF Registered, Counting
  <2>2. \A kind, key : From(kind, key) = Asking(request, kind, key)
    BY <2>1 DEF From, Asking
  <2>3. ASSUME NEW t, NEW kind, NEW key, Tallied(t, request, kind)
        PROVE  Entry(t, key).Conns = Cardinality(From(kind, key))
    <3>1. CASE key \in DOMAIN t
      BY <2>2, <2>3, <3>1 DEF Entry, Tallied
    <3>2. CASE key \notin DOMAIN t
      <4>1. From(kind, key) = {}
        BY <2>2, <2>3, <3>2 DEF Tallied, Asking
      <4> QED BY <3>2, <4>1, FS_EmptySet DEF Entry
    <3> QED BY <3>1, <3>2
  <2>4. Tallied(ips, request, "ip") /\ Tallied(devices, request, "device")
    BY DEF IngressInv, Strictly
  <2>5. \A r \in Registered : request[r].client.ip \in DOMAIN ips
    BY <2>1, <2>4 DEF Tallied
  <2> QED BY <2>3, <2>4, <2>5 DEF CountsOpen
<1>2. IngressInv => SeenWithin
  <2> SUFFICES ASSUME IngressInv, ~overlapped PROVE SeenWithin
    BY DEF SeenWithin
  <2>1. ASSUME NEW t, NEW kind, NEW limit \in Nat, Tallied(t, request, kind), Fits(limit, t, request, kind)
        PROVE  Limited(limit, Cardinality({request[r].client[kind] : r \in Registered}))
    <3>1. PICK K : K = {request[r].client[kind] : r \in Registered}
      OBVIOUS
    <3>2. K \subseteq Places(t, request, kind)
      BY <2>1, <3>1 DEF Registered, Counting, Tallied, Places
    <3>3. IsFiniteSet(Places(t, request, kind))
      BY <2>1, FewPlaces DEF Tallied, IngressInv, Strictly
    <3>4. /\ Cardinality(K) <= Cardinality(Places(t, request, kind))
          /\ Cardinality(K) \in Nat /\ Cardinality(Places(t, request, kind)) \in Nat
      BY <3>2, <3>3, FS_Subset, FS_CardinalityType
    <3> QED BY <2>1, <3>1, <3>4 DEF Fits, Limited
  <2>2. minInt(spec.ruleIPs, spec.userIPs) \in Nat /\ spec.userDevices \in Nat
    BY LimitsNumbered DEF minInt, IngressInv, IngressTypes
  <2>3. Limited(minInt(spec.ruleIPs, spec.userIPs), Cardinality({request[r].client["ip"] : r \in Registered}))
    BY <2>1, <2>2 DEF IngressInv, Strictly
  <2>4. Limited(spec.userDevices, Cardinality({request[r].client["device"] : r \in Registered}))
    BY <2>1, <2>2 DEF IngressInv, Strictly
  <2> QED BY <2>3, <2>4 DEF SeenWithin
<1>3. IngressInv => RowsAgree
  <2> SUFFICES ASSUME IngressInv, ~overlapped, lost = 0, \A r \in Slots : request[r].pc \in Between
               PROVE  RowsAgree
    BY DEF RowsAgree
  <2>1. Booked /\ BookTypes
    BY DEF IngressInv, Booked
  <2>2. \A c : Agrees(c)
    BY <2>1 DEF Booked, Quiet, Between, Writing
  <2>3. ASSUME NEW id \in DOMAIN rows, rows[id].conns > 0
        PROVE  rows[id].client \in DOMAIN sessions /\ sessions[rows[id].client].ID = id
    <3>1. PICK c : c = rows[id].client
      OBVIOUS
    <3>2. c \notin DOMAIN sessions => id = 0
      BY <2>2, <2>3, <3>1 DEF Agrees, Live
    <3>3. id # 0
      BY <2>1 DEF BookTypes
    <3> QED BY <2>2, <2>3, <3>1, <3>2, <3>3 DEF Agrees, Live
  <2>4. \A c \in DOMAIN sessions :
          sessions[c].ID \in DOMAIN rows /\ rows[sessions[c].ID].conns = sessions[c].ConnCount
    BY <2>2 DEF Agrees, RowOf
  <2> QED BY <2>3, <2>4 DEF RowsAgree
<1>4. IngressInv /\ HeldInv => ConnsWithin
  <2> SUFFICES ASSUME IngressInv, HeldInv, ~overlapped PROVE ConnsWithin
    BY DEF ConnsWithin
  <2>1. PICK limit : limit = minInt(spec.ruleConns, spec.userConns)
    OBVIOUS
  <2>2. limit \in Nat
    BY <2>1, LimitsNumbered DEF minInt, IngressInv, IngressTypes
  <2>3. IsFiniteSet(Served(request)) /\ Limited(limit, Cardinality(Served(request)))
    BY <2>1 DEF HeldInv, ServedWithin
  <2>4. Registered \subseteq Served(request)
    BY DEF Registered, Served
  <2>5. /\ Cardinality(Registered) <= Cardinality(Served(request))
        /\ Cardinality(Registered) \in Nat /\ Cardinality(Served(request)) \in Nat
    BY <2>3, <2>4, FS_Subset, FS_CardinalityType
  <2>6. Limited(limit, Cardinality(Registered))
    BY <2>2, <2>3, <2>5 DEF Limited
  <2> QED BY <2>1, <2>6 DEF ConnsWithin
<1>5. IngressInv /\ HeldInv => IngressStrict
  BY <1>1, <1>2, <1>3, <1>4 DEF IngressStrict, WithinLimits
<1>6. InitIngress => IngressInv /\ HeldInv
  BY IngressInit, HeldInit
<1>7. IngressInv /\ HeldInv /\ [NextIngress]_ingressVars => IngressInv' /\ HeldInv'
  BY IngressStep, HeldStep
<1> QED BY <1>5, <1>6, <1>7, PTL DEF IngressSpec
=============================================================================
