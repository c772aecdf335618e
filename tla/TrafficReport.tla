---------------------------- MODULE TrafficReport ----------------------------
(***************************************************************************)
(* The metered-traffic pipeline between one node and the panel: the        *)
(* engine's samples, the client's durable report journal, the HTTP report  *)
(* with its retries, and the panel's receipt-guarded ledger                *)
(* (nodeclient/traffic.go, nodeclient/durable.go, app/traffic_report.go).  *)
(*                                                                         *)
(* Bytes are abstracted to chunks: one element of Chunks per recorded      *)
(* write, so a sum of byte counts is a set of chunks and a double charge   *)
(* or a loss is visible on the chunk itself.  Every receipt and policy row *)
(* is keyed by node, so nodes do not interact here and one node suffices.  *)
(***************************************************************************)
EXTENDS Integers, FiniteSets

CONSTANTS
  Chunks,      \* recorded writes
  Rules,       \* forwarding rules carried by the node
  Users,       \* rule owners
  Ids,         \* batch identifiers
  MaxVersion,  \* bound on configuration versions
  MaxHour,     \* bound on the UTC hour
  MaxCrashes,  \* bound on node process exits
  MaxAttempts, \* reports of one flushReports call (32 in the code)
  NoBatch,     \* c.outbox == nil
  NoConfig,    \* no configuration applied or cached
  NoPolicy     \* no policy rows saved for a version

Versions   == 0 .. MaxVersion
Hours      == 0 .. MaxHour
\* A forwarder carries the rule and the configuration it was built from.
Forwarders == [rule : Rules, version : Versions, user : Users]
Configs    == [version : Versions, users : [Rules -> Users]]
Batches    == [id : Ids, version : Versions, hour : Hours, chunks : SUBSET Chunks]
\* What is frozen when a chunk is recorded; "user" is the owner in the
\* configuration of the forwarder that carried it.
Metas      == [rule : Rules, version : Versions, hour : Hours, user : Users]

ASSUME TrafficReportAssumption ==
  /\ MaxVersion \in Nat /\ MaxHour \in Nat /\ MaxCrashes \in Nat
  /\ MaxAttempts \in Nat \ {0}
  /\ NoBatch \notin Batches /\ NoConfig \notin Configs
  /\ NoPolicy \notin [Rules -> Users]

VARIABLES
  \* engine and client memory
  up,            \* the client process is running
  running,       \* e.rules: the forwarders of the applied configuration
  closing,       \* replaced forwarders whose last writes may still complete
  samples,       \* e.samples: recorded, not yet collected
  pending,       \* c.pendingTraffic: collected, not yet in a batch
  outbox,        \* c.outbox: the frozen batch
  configVersion, \* c.configVersion
  effective,     \* e.effective
  results,       \* len(c.results) > 0
  pc,            \* progress of Run, flushReports and report
  attempt,       \* reports already made by this flushReports call
  \* node disk
  diskOutbox, diskPending,  \* report-outbox.json
  diskConfig,               \* config.json
  \* panel database
  version,     \* App.configVersion
  edited,      \* a committed edit whose version bump is still to come
  owner,       \* forward_rules.user_id
  policy,      \* node_traffic_policies, by version
  receipts,    \* node_report_batches
  charges,     \* how often a chunk was added to the aggregates
  ledger,      \* traffic_logs: chunk, charged user, hour
  \* HTTP
  call,        \* the report request the client waits for
  late,        \* requests the client gave up that the panel may still handle
  \* clock, and what was recorded
  hour, crashes, meta

engineVars  == <<up, running, closing, effective, configVersion>>
reportVars  == <<samples, pending, outbox, results, pc, attempt>>
journalVars == <<diskOutbox, diskPending>>
ruleVars    == <<version, edited, owner, policy>>
ledgerVars  == <<receipts, charges, ledger>>
netVars     == <<call, late>>
histVars    == <<hour, crashes, meta>>
vars == <<engineVars, reportVars, journalVars, diskConfig, ruleVars, ledgerVars, netVars, histVars>>

ChunksOf(slot) == IF slot = NoBatch THEN {} ELSE slot.chunks

Forwarded == DOMAIN meta
Memory    == samples \cup pending \cup ChunksOf(outbox)
Disk      == diskPending \cup ChunksOf(diskOutbox)
Billed    == {c \in Chunks : charges[c] > 0}

\* Every batch that something still refers to.
Known == receipts \cup late \cup ({outbox, diskOutbox} \ {NoBatch})

Init ==
  /\ up = TRUE /\ running = {} /\ closing = {}
  /\ effective = NoConfig /\ configVersion = 0
  /\ samples = {} /\ pending = {} /\ outbox = NoBatch
  /\ results = FALSE /\ pc = "register" /\ attempt = 0
  /\ diskOutbox = NoBatch /\ diskPending = {} /\ diskConfig = NoConfig
  /\ version = 0 /\ edited = FALSE
  /\ owner \in [Rules -> Users]
  /\ policy = [v \in Versions |-> NoPolicy]
  /\ receipts = {} /\ charges = [c \in Chunks |-> 0] /\ ledger = {}
  /\ call = "none" /\ late = {}
  /\ hour = 0 /\ crashes = 0 /\ meta = [c \in {} |-> NoBatch]

-----------------------------------------------------------------------------
(* The panel: a rule edit commits before the version is bumped. *)

TransferRule(r, u) ==
  /\ version < MaxVersion
  /\ owner[r] # u
  /\ owner' = [owner EXCEPT ![r] = u]
  /\ edited' = TRUE
  /\ UNCHANGED <<engineVars, reportVars, journalVars, diskConfig, version, policy,
                 ledgerVars, netVars, histVars>>

BumpConfigVersion ==
  /\ edited
  /\ version' = version + 1
  /\ edited' = FALSE
  /\ UNCHANGED <<engineVars, reportVars, journalVars, diskConfig, owner, policy,
                 ledgerVars, netVars, histVars>>

\* Mutant: rows saved earlier are overwritten (ON CONFLICT DO UPDATE).
saveTrafficPolicies_Overwrites == policy' = [policy EXCEPT ![version] = owner]

\* The build saves the policy rows of its version, or fails when rows saved
\* earlier differ from the rules it read.
saveTrafficPolicies ==
  /\ policy[version] \in {NoPolicy, owner}
  /\ policy' = [policy EXCEPT ![version] = owner]

-----------------------------------------------------------------------------
(* The node: configuration and sampling. *)

\* captureTraffic, and saveReports when the write succeeds.
Checkpoint(saved) ==
  /\ pending' = pending \cup samples
  /\ samples' = {}
  /\ IF saved THEN diskPending' = pending' /\ diskOutbox' = outbox
              ELSE UNCHANGED journalVars

\* The forwarders of configuration cfg.  A rule whose fingerprint is unchanged
\* keeps its forwarder; a changed owner changes the fingerprint.
Apply(cfg, rebuilt) ==
  LET Kept == {f \in running : f.rule \notin rebuilt /\ f.user = cfg.users[f.rule]} IN
  Kept \cup {[rule |-> r, version |-> cfg.version, user |-> cfg.users[r]] :
               r \in {x \in Rules : \A f \in Kept : f.rule # x}}

\* A configuration response, on registration or in a heartbeat: checkpoint the
\* traffic, switch the engine, cache the effective configuration.  ok: the
\* engine committed; cached: config.json was written.
apply(ok, rebuilt, saved, cached) ==
  LET cfg == [version |-> version, users |-> owner] IN
  /\ up /\ pc \in {"register", "idle"}
  /\ saveTrafficPolicies
  /\ Checkpoint(saved)
  /\ configVersion' = version
  /\ results' = TRUE
  /\ IF ok THEN /\ running' = Apply(cfg, rebuilt)
                /\ closing' = closing \cup (running \ running')
                /\ effective' = cfg
           ELSE UNCHANGED <<running, closing, effective>>
  /\ diskConfig' = IF cached THEN effective' ELSE diskConfig
  /\ pc' = "idle"
  /\ UNCHANGED <<up, outbox, attempt, version, edited, owner, ledgerVars, netVars, histVars>>

\* accountWriter.Write: n bytes were written by a forwarder.
recordTraffic(c, f) ==
  /\ up
  /\ c \notin Forwarded
  /\ f \in running \cup closing
  /\ samples' = samples \cup {c}
  /\ meta' = [x \in Forwarded \cup {c} |->
                IF x = c THEN [rule |-> f.rule, version |-> f.version, hour |-> hour, user |-> f.user]
                         ELSE meta[x]]
  /\ UNCHANGED <<engineVars, pending, outbox, results, pc, attempt, journalVars, diskConfig,
                 ruleVars, ledgerVars, netVars, hour, crashes>>

\* The checkpoint at the head of every Run iteration.
checkpointTraffic(saved) ==
  /\ up /\ pc \in {"register", "idle"}
  /\ samples # {}
  /\ Checkpoint(saved)
  /\ UNCHANGED <<engineVars, outbox, results, pc, attempt, diskConfig, ruleVars, ledgerVars,
                 netVars, histVars>>

-----------------------------------------------------------------------------
(* The node: reports. *)

\* Waiting results may only accompany traffic of the current version.
Eligible(S) == {c \in S : results => meta[c].version = configVersion}

\* The bucket key of chunk c sorts before that of d, or is the same.
Earlier(c, d) ==
  \/ meta[c].hour < meta[d].hour
  \/ meta[c].hour = meta[d].hour /\ meta[c].version <= meta[d].version

nextTrafficBucket(S) == {c \in Eligible(S) : \A d \in Eligible(S) : Earlier(c, d)}


\* report(), first part: collect, and freeze the next bucket unless a batch is
\* still unacknowledged.  A report with neither traffic nor results carries
\* statistics only and is left out.
formBatch(id) ==
  LET all    == pending \cup samples
      bucket == nextTrafficBucket(all)
      batch  == [id      |-> id,
                 version |-> IF bucket = {} THEN configVersion ELSE meta[CHOOSE c \in bucket : TRUE].version,
                 hour    |-> IF bucket = {} THEN hour ELSE meta[CHOOSE c \in bucket : TRUE].hour,
                 chunks  |-> bucket]
  IN
  /\ up /\ pc \in {"idle", "flush"}
  /\ outbox = NoBatch
  /\ all # {} \/ results
  /\ \A b \in Known : b.id # id
  /\ outbox' = batch
  /\ results' = (results /\ batch.version # configVersion)
  /\ pending' = all \ bucket
  /\ samples' = {}
  /\ pc' = "save"
  /\ UNCHANGED <<engineVars, attempt, journalVars, diskConfig, ruleVars, ledgerVars, netVars,
                 histVars>>

\* Mutant: a retry adds the traffic collected meanwhile to the frozen batch.
retryBatch_Grows ==
  /\ up /\ pc \in {"idle", "flush"}
  /\ outbox # NoBatch
  /\ outbox' = [outbox EXCEPT !.chunks = @ \cup pending \cup samples]
  /\ pending' = {} /\ samples' = {}
  /\ pc' = "save"
  /\ UNCHANGED <<engineVars, results, attempt, journalVars, diskConfig, ruleVars, ledgerVars,
                 netVars, histVars>>

\* report() with an unacknowledged batch: collect and send that batch again.
retryBatch ==
  /\ up /\ pc \in {"idle", "flush"}
  /\ outbox # NoBatch
  /\ pending' = pending \cup samples
  /\ samples' = {}
  /\ pc' = "save"
  /\ UNCHANGED <<engineVars, outbox, results, attempt, journalVars, diskConfig, ruleVars,
                 ledgerVars, netVars, histVars>>


\* saveReports before any network request.
saveBeforeSend ==
  /\ up /\ pc = "save"
  /\ diskOutbox' = outbox /\ diskPending' = pending
  /\ pc' = "send"
  /\ UNCHANGED <<engineVars, samples, pending, outbox, results, attempt, diskConfig, ruleVars,
                 ledgerVars, netVars, histVars>>

\* Either saveReports of report() fails: the flush ends with an error.
saveFails ==
  /\ up /\ pc \in {"save", "acked"}
  /\ pc' = "idle" /\ attempt' = 0
  /\ UNCHANGED <<engineVars, samples, pending, outbox, results, journalVars, diskConfig,
                 ruleVars, ledgerVars, netVars, histVars>>

send ==
  /\ up /\ pc = "send"
  /\ call' = "sent"
  /\ pc' = "wait"
  /\ UNCHANGED <<engineVars, samples, pending, outbox, results, attempt, journalVars,
                 diskConfig, ruleVars, ledgerVars, late, histVars>>

\* The panel's acknowledgement of this batch arrives.
receiveAck ==
  /\ up /\ pc = "wait" /\ call = "accepted"
  /\ outbox' = NoBatch
  /\ call' = "none"
  /\ pc' = "acked"
  /\ UNCHANGED <<engineVars, samples, pending, results, attempt, journalVars, diskConfig,
                 ruleVars, ledgerVars, late, histVars>>


\* Mutant: one report per heartbeat instead of a flush.
saveAfterAck_NoFlush ==
  /\ up /\ pc = "acked"
  /\ diskOutbox' = outbox /\ diskPending' = pending
  /\ pc' = "idle" /\ attempt' = 0
  /\ UNCHANGED <<engineVars, samples, pending, outbox, results, diskConfig, ruleVars,
                 ledgerVars, netVars, histVars>>

\* saveReports after the acknowledgement; flushReports goes on while traffic or
\* results are waiting.
saveAfterAck ==
  LET more == attempt + 1 < MaxAttempts /\ (pending # {} \/ results) IN
  /\ up /\ pc = "acked"
  /\ diskOutbox' = outbox /\ diskPending' = pending
  /\ pc' = IF more THEN "flush" ELSE "idle"
  /\ attempt' = IF more THEN attempt + 1 ELSE 0
  /\ UNCHANGED <<engineVars, samples, pending, outbox, results, diskConfig, ruleVars,
                 ledgerVars, netVars, histVars>>

\* A request the panel has not answered may still reach it afterwards (one
\* without traffic changes no ledger and is dropped here).
Abandon(reaches) ==
  /\ call' = "none"
  /\ late' = IF call = "sent" /\ reaches /\ outbox.chunks # {} THEN late \cup {outbox} ELSE late


\* Timeout, transport error or error status: keep the batch for the next report.
requestFails(reaches) ==
  /\ up /\ pc = "wait"
  /\ Abandon(reaches)
  /\ pc' = "idle" /\ attempt' = 0
  /\ UNCHANGED <<engineVars, samples, pending, outbox, results, journalVars, diskConfig,
                 ruleVars, ledgerVars, histVars>>

-----------------------------------------------------------------------------
(* The panel: the report handler. *)

\* The policy saved with the delivered configuration, or, for version 0 only,
\* the present owner.
Chargeable(b) == policy[b.version] # NoPolicy \/ b.version = 0
\* Mutant: the present owner pays, whoever owned the rule when it was delivered.
ChargedUser_Current(c, b) == owner[meta[c].rule]

ChargedUser(c, b) ==
  IF policy[b.version] = NoPolicy THEN owner[meta[c].rule] ELSE policy[b.version][meta[c].rule]

\* Mutant: no receipt is looked up.
RecordNodeReport_NoReceipt(b) ==
  /\ Chargeable(b)
  /\ receipts' = receipts \cup {b}
  /\ charges' = [c \in Chunks |-> IF c \in b.chunks THEN charges[c] + 1 ELSE charges[c]]
  /\ ledger' = ledger \cup {[chunk |-> c, user |-> ChargedUser(c, b), hour |-> b.hour] :
                              c \in b.chunks}

\* Receipt, aggregates and counters in one transaction.  A known identifier with
\* the same payload is acknowledged without effect; another payload, or a
\* version without policy rows, is an error.
RecordNodeReport(b) ==
  IF b.chunks = {} \/ b \in receipts
    THEN UNCHANGED ledgerVars
    ELSE /\ \A x \in receipts : x.id # b.id
         /\ Chargeable(b)
         /\ receipts' = receipts \cup {b}
         /\ charges' = [c \in Chunks |-> IF c \in b.chunks THEN charges[c] + 1 ELSE charges[c]]
         /\ ledger' = ledger \cup {[chunk |-> c, user |-> ChargedUser(c, b), hour |-> b.hour] :
                                     c \in b.chunks}

\* ReportHandler for the request the client waits for.
handleReport ==
  /\ call = "sent"
  /\ RecordNodeReport(outbox)
  /\ call' = "accepted"
  /\ UNCHANGED <<engineVars, reportVars, journalVars, diskConfig, ruleVars, late, histVars>>

\* ReportHandler for a request nobody waits for any more.
handleLateReport(b) ==
  /\ b \in late
  /\ RecordNodeReport(b)
  /\ late' = late \ {b}
  /\ UNCHANGED <<engineVars, reportVars, journalVars, diskConfig, ruleVars, call, histVars>>

-----------------------------------------------------------------------------
(* Process exit and restart, and the clock. *)

\* Mutant: the final captureTraffic is missing.
Exit_NoCapture(saved, reaches) ==
  /\ up /\ crashes < MaxCrashes
  /\ up' = FALSE /\ crashes' = crashes + 1
  /\ IF saved THEN diskOutbox' = outbox /\ diskPending' = pending ELSE UNCHANGED journalVars
  /\ Abandon(reaches)
  /\ running' = {} /\ closing' = {} /\ effective' = NoConfig /\ configVersion' = 0
  /\ samples' = {} /\ pending' = {} /\ outbox' = NoBatch
  /\ results' = FALSE /\ pc' = "register" /\ attempt' = 0
  /\ UNCHANGED <<diskConfig, ruleVars, ledgerVars, hour, meta>>

\* The end of Run.  A stop interrupts the request, closes the engine, collects
\* and saves; a crash (saved = FALSE) just loses the memory.
Exit(saved, reaches) ==
  /\ up /\ crashes < MaxCrashes
  /\ up' = FALSE /\ crashes' = crashes + 1
  /\ IF saved THEN diskOutbox' = outbox /\ diskPending' = pending \cup samples
              ELSE UNCHANGED journalVars
  /\ Abandon(reaches)
  /\ running' = {} /\ closing' = {} /\ effective' = NoConfig /\ configVersion' = 0
  /\ samples' = {} /\ pending' = {} /\ outbox' = NoBatch
  /\ results' = FALSE /\ pc' = "register" /\ attempt' = 0
  /\ UNCHANGED <<diskConfig, ruleVars, ledgerVars, hour, meta>>

\* NewClient.loadReports and Run.restore; the cached configuration may fail to
\* apply, in which case the engine stays empty.
Restart(ok) ==
  /\ ~up
  /\ up' = TRUE
  /\ outbox' = diskOutbox /\ pending' = diskPending
  /\ IF diskConfig = NoConfig
       THEN UNCHANGED <<running, effective, configVersion, results>>
       ELSE /\ configVersion' = diskConfig.version
            /\ results' = TRUE
            /\ IF ok THEN /\ running' = Apply(diskConfig, Rules)
                          /\ effective' = diskConfig
                     ELSE UNCHANGED <<running, effective>>
  /\ UNCHANGED <<closing, samples, pc, attempt, journalVars, diskConfig, ruleVars, ledgerVars,
                 netVars, histVars>>

NextHour ==
  /\ hour < MaxHour
  /\ hour' = hour + 1
  /\ UNCHANGED <<engineVars, reportVars, journalVars, diskConfig, ruleVars, ledgerVars,
                 netVars, crashes, meta>>

-----------------------------------------------------------------------------
Next ==
  \/ \E r \in Rules, u \in Users : TransferRule(r, u)
  \/ BumpConfigVersion
  \/ \E ok, saved, cached \in BOOLEAN, rebuilt \in SUBSET Rules : apply(ok, rebuilt, saved, cached)
  \/ \E c \in Chunks, f \in running \cup closing : recordTraffic(c, f)
  \/ \E saved \in BOOLEAN : checkpointTraffic(saved)
  \/ \E id \in Ids : formBatch(id)
  \/ retryBatch
  \/ saveBeforeSend
  \/ saveFails
  \/ send
  \/ receiveAck
  \/ saveAfterAck
  \/ \E reaches \in BOOLEAN : requestFails(reaches)
  \/ handleReport
  \/ \E b \in late : handleLateReport(b)
  \/ \E saved, reaches \in BOOLEAN : Exit(saved, reaches)
  \/ \E ok \in BOOLEAN : Restart(ok)
  \/ NextHour

Spec == Init /\ [][Next]_vars

\* The client's loop keeps running, a stopped process is restarted, and the panel
\* finishes an edit with its bump.
Fairness ==
  /\ WF_vars(BumpConfigVersion)
  /\ WF_vars(\E ok \in BOOLEAN : Restart(ok))
  /\ WF_vars(/\ pc = "register"
             /\ \E ok, saved, cached \in BOOLEAN, rebuilt \in SUBSET Rules :
                  apply(ok, rebuilt, saved, cached))
  /\ WF_vars(retryBatch \/ \E id \in Ids : formBatch(id))
  /\ WF_vars(saveBeforeSend) /\ WF_vars(send)
  /\ WF_vars(handleReport) /\ WF_vars(receiveAck) /\ WF_vars(saveAfterAck)

\* The outage ends: from some time on no journal write and no request fails.
OutageEnds == <>[][~saveFails /\ \A reaches \in BOOLEAN : ~requestFails(reaches)]_vars

FairSpec == Spec /\ Fairness /\ OutageEnds

-----------------------------------------------------------------------------
(* Properties. *)

\* Every variable has its type.
TypeOK ==
  /\ up \in BOOLEAN
  /\ running \subseteq Forwarders /\ closing \subseteq Forwarders
  /\ effective \in Configs \cup {NoConfig} /\ configVersion \in Versions
  /\ samples \subseteq Chunks /\ pending \subseteq Chunks
  /\ outbox \in Batches \cup {NoBatch}
  /\ results \in BOOLEAN
  /\ pc \in {"register", "idle", "flush", "save", "send", "wait", "acked"}
  /\ attempt \in 0 .. MaxAttempts - 1
  /\ diskOutbox \in Batches \cup {NoBatch} /\ diskPending \subseteq Chunks
  /\ diskConfig \in Configs \cup {NoConfig}
  /\ version \in Versions /\ edited \in BOOLEAN
  /\ owner \in [Rules -> Users]
  /\ policy \in [Versions -> [Rules -> Users] \cup {NoPolicy}]
  /\ receipts \subseteq Batches
  /\ charges \in [Chunks -> Nat]
  /\ ledger \subseteq [chunk : Chunks, user : Users, hour : Hours]
  /\ call \in {"none", "sent", "accepted"} /\ late \subseteq Batches
  /\ hour \in Hours /\ crashes \in 0 .. MaxCrashes
  /\ DOMAIN meta \subseteq Chunks
  /\ \A c \in DOMAIN meta : meta[c] \in Metas

\* A recorded write is charged at most once, whatever is retried, answered late
\* or resent after a restart ("A retried batch cannot double charge, even if the
\* panel restarted after commit", traffic_report.go).
ExactlyOnce == \A c \in Chunks : charges[c] <= 1

\* Every charge goes to the owner under whose configuration the forwarder
\* carried the bytes and to the hour in which they were written, however late
\* the report is and however often the rule changed hands meanwhile
\* (saveTrafficPolicies; the sample key of recordTraffic).
RightfulCharge ==
  \A e \in ledger : e.user = meta[e.chunk].user /\ e.hour = meta[e.chunk].hour

\* What the panel may still handle is on the node's disk or already charged:
\* "Persist every bucket plus the frozen batch before any network request".
PersistedBeforeSent ==
  \A b \in late \cup (IF call = "sent" THEN {outbox} ELSE {}) : b.chunks \subseteq Disk \cup Billed

\* Batches with the same identifier are the same batch, so the handler never
\* meets a known identifier with another payload and never refuses a retry.
ImmutableBatch == \A a, b \in Known : a.id = b.id => a = b

\* A chunk is in one place only: two batches share no traffic, and collected
\* traffic is not also in a batch.
NoSharedTraffic ==
  /\ \A a, b \in Known : a # b => a.chunks \cap b.chunks = {}
  /\ \A b \in Known : b.chunks \cap (samples \cup pending) = {}

\* What the panel may handle is durable and frozen: a retry, late or after a
\* restart, carries the traffic of the first attempt and no other batch does.
SentSafely == PersistedBeforeSent /\ ImmutableBatch /\ NoSharedTraffic

\* Traffic that reached the journal stays there until it is charged, through
\* crashes, failed saves and acknowledgements.
DurableUntilBilled == [][Disk \cup Billed \subseteq Disk' \cup Billed']_vars

\* Traffic that is neither in memory nor on disk nor charged.
Lost == Forwarded \ (Memory \cup Disk \cup Billed)

\* Only an exit whose last save does not happen loses traffic, and only what no
\* checkpoint had written: a stop that saves loses nothing.
OnlyCrashLoses ==
  [][Lost' # Lost => up /\ ~up' /\ UNCHANGED journalVars /\ Lost' \cap Disk = {}]_vars

\* No failure but a crash takes traffic away, and none takes journalled traffic.
NothingDropped == DurableUntilBilled /\ OnlyCrashLoses

\* The pipeline implements Metering: what is in the journal or charged is
\* secured, what a crash took is gone.
Metered == INSTANCE Metering WITH
  usage   <- [c \in Forwarded |-> [user |-> meta[c].user, hour |-> meta[c].hour]],
  secured <- Disk \cup Billed,
  gone    <- Lost,
  bill    <- ledger

MeteredSpec == Metered!Spec

\* Traffic that reached the journal is eventually charged, once an outage is
\* over: no old version, no waiting result and no edit holds it back for ever.
EventuallyBilled == Metered!Liveness

\* "a rejected change must not replace a working configuration on disk"
\* (client.go): a cached configuration is only replaced by another one.
CacheSurvivesRejection == [][diskConfig # NoConfig => diskConfig' # NoConfig]_vars
=============================================================================
