---------------------------- MODULE TrafficHistory ----------------------------
\* The panel's table of traffic, traffic_logs: a row for each hour and a row for
\* each day of one user, rule, node and direction, written together for every
\* sample a node reports, and the job that folds the hours past their retention.
EXTENDS Integers, FiniteSets, FiniteSetsExt, Functions
CONSTANTS
  Keys,      \* <<user, rule, node, direction>> of the samples
  Hours,     \* hours of a day in which samples come
  MaxDay, MaxBytes,  \* bounds: the last day, the bytes recorded of a day and a key
  KeepDays,  \* traffic-detail-keep-days
  Limit,     \* rows a round of the job takes (5000 in the code)
  MaxFailures  \* bound: rounds that end between the job's two commits
ASSUME HistoryBounds ==
  KeepDays \in Nat \ {0} /\ Limit \in Nat \ {0} /\ MaxBytes \in Nat /\ MaxDay \in Nat

VARIABLES
  today,
  hourRows,  \* <<day, hour, key>> -> bytes, the rows the table has
  dayRows,   \* <<day, key>> -> bytes, the rows the table has
  recorded,  \* <<day, key>> -> bytes reported, whatever the table says
  folding,   \* the rows the job has added to their days and not deleted yet
  chosen,    \* the rows of the job's select
  failures
historyVars == <<today, hourRows, dayRows, recorded, folding, chosen, failures>>

Days == 0 .. MaxDay
None == [x \in {} |-> 0]
One(x, bytes) == [y \in {x} |-> bytes]
\* A sum of numbers: what they count, one by one.
SumOf(count) == Cardinality(UNION { {k} \X (1 .. count[k]) : k \in DOMAIN count })
\* UpsertTraffic: insert the row when it is missing, add to it in any case.
UpsertTraffic(rows, added) ==
  [x \in DOMAIN rows \cup DOMAIN added |->
     (IF x \in DOMAIN rows THEN rows[x] ELSE 0) + (IF x \in DOMAIN added THEN added[x] ELSE 0)]

\* recordTraffic: a sample of an hour has both rows, one without an hour the day's.
mkRow(hour, key, bytes) == IF hour \in Hours THEN One(<<today, hour, key>>, bytes) ELSE None
recordTraffic(hour, key, bytes) ==
  /\ bytes > 0
  /\ hourRows' = UpsertTraffic(hourRows, mkRow(hour, key, bytes))
  /\ dayRows' = UpsertTraffic(dayRows, One(<<today, key>>, bytes))
Record ==
  \E hour \in Hours \cup {-1}, key \in Keys, bytes \in 1 .. MaxBytes :
    /\ recordTraffic(hour, key, bytes)
    /\ recorded' = UpsertTraffic(recorded, One(<<today, key>>, bytes))
    /\ recorded'[<<today, key>>] <= MaxBytes
    /\ UNCHANGED <<today, folding, chosen, failures>>
Midnight == today < MaxDay /\ today' = today + 1 /\ UNCHANGED <<hourRows, dayRows, recorded, folding, chosen, failures>>

Expired_DayEarly == { x \in DOMAIN hourRows : x[1] <= today - KeepDays }
\* CollectTraffic: the rows past their retention, at most Limit of them in no order ...
Expired == { x \in DOMAIN hourRows : x[1] < today - KeepDays }
Select ==
  /\ chosen = {} /\ Expired # {}
  /\ chosen' \in kSubset(IF Cardinality(Expired) < Limit THEN Cardinality(Expired) ELSE Limit, Expired)
  /\ UNCHANGED <<today, hourRows, dayRows, recorded, folding, failures>>
\* ... are added to their days, merged by key first (UpsertTraffic), which commits
\* on a connection of its own ...
DayOf(row) == <<row[1], row[3]>>
merged(rows) ==
  [x \in { DayOf(r) : r \in rows } |->
     SumOf([r \in { y \in rows : DayOf(y) = x } |-> hourRows[r]])]
upsertDailyTraffic(rows) == UpsertTraffic(dayRows, merged(rows))
Fold ==
  /\ chosen # {} /\ folding = {}
  /\ dayRows' = upsertDailyTraffic(chosen) /\ folding' = chosen
  /\ UNCHANGED <<today, hourRows, recorded, chosen, failures>>
\* ... and then deleted by the transaction around it ...
Delete ==
  /\ folding # {}
  /\ hourRows' = Restrict(hourRows, DOMAIN hourRows \ folding)
  /\ folding' = {} /\ chosen' = {}
  /\ UNCHANGED <<today, dayRows, recorded, failures>>
\* ... unless one of its statements fails or the panel stops in between.
Fault ==
  /\ chosen # {} /\ failures < MaxFailures /\ failures' = failures + 1
  /\ folding' = {} /\ chosen' = {}
  /\ UNCHANGED <<today, hourRows, dayRows, recorded>>

InitHistory ==
  /\ today = 0 /\ hourRows = None /\ dayRows = None /\ recorded = None
  /\ folding = {} /\ chosen = {} /\ failures = 0
NextHistory == Record \/ Midnight \/ Select \/ Fold \/ Delete \/ Fault
\* The scheduler runs the job again a minute later, whatever became of the last round.
FairHistory == WF_historyVars(Select) /\ WF_historyVars(Fold) /\ WF_historyVars(Delete)

HistorySpec == InitHistory /\ [][NextHistory]_historyVars

RowsOf(rows, of) == { x \in DOMAIN rows : DayOf(x) = of }
\* What the pages show of a day: its day rows and nothing else.
Shown(x) == IF x \in DOMAIN dayRows THEN dayRows[x] ELSE 0
---------------------------------------------------------------------------
\* Every byte a node reported is in its day's row from then on, and the hours
\* still kept never say more than was reported (recordTraffic, CollectTraffic).
NothingLost ==
  /\ \A x \in DOMAIN recorded : Shown(x) >= recorded[x]
  /\ \A x \in Days \X Keys :
       SumOf([r \in RowsOf(hourRows, x) |-> hourRows[r]])
         <= (IF x \in DOMAIN recorded THEN recorded[x] ELSE 0)

\* An hour's row goes only when its day has left the retention, and only after a
\* fold put it in its day's row (CollectTraffic's order of upsert and delete).
DetailKept ==
  [][\A r \in DOMAIN hourRows \ DOMAIN hourRows' : r[1] < today - KeepDays /\ r \in folding]_historyVars

\* The hours of a day past its retention go in the end, Limit rows a round, for
\* all the rounds that fail on the way.
DetailDrained == \A d \in Days : (today > d + KeepDays) ~> (\A r \in DOMAIN hourRows : r[1] # d)

\* The history is complete at every instant of a fold.
HistoryComplete == []NothingLost /\ DetailKept

=============================================================================
