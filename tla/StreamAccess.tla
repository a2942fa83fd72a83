------------------------------ MODULE StreamAccess ------------------------------
(***************************************************************************)
(* The log of the streaming endpoint (stream_controller.go,                *)
(* stream_access_buffer.go) and what GET /observability/overview makes of  *)
(* it and of the sessions (observability_service.go), beside what          *)
(* GET /sessions makes of the same sessions (session_mapper.go).           *)
(***************************************************************************)
EXTENDS Integers, Sequences, FiniteSets, FiniteSetsExt

CONSTANTS Handlers,       \* bound: Range requests at the same time
          Listed,         \* bound: sessions
          Latencies,      \* bound: values of SeekRecoveryMs
          MaxRecords,     \* maxStreamAccessRecords
          BucketSeconds, BucketCount,
          MaxClock,       \* bound: time
          MaxAccesses     \* bound: Range requests

VARIABLES
  clock,
  records,      \* StreamAccessBuffer.records
  handler,      \* the record each request is about to add
  accesses,     \* history: how many records have been added
  measures      \* of each session: SeekRecoveryMs, WindowRecoveryCount

accessVars == <<clock, records, handler, accesses, measures>>

ASSUME TrendType ==
  /\ BucketSeconds \in Nat \ {0} /\ BucketCount \in Nat \ {0} /\ MaxRecords \in Nat \ {0}
  /\ MaxClock \in Nat /\ MaxAccesses \in Nat
  /\ Latencies \subseteq Nat /\ 0 \in Latencies

ASSUME ListedIsFinite == IsFiniteSet(Listed)

(* "no": history, which access of all it is. *)
Records == [at : 0 .. MaxClock, no : 1 .. MaxAccesses]
Nothing == [at |-> 0, no |-> 0]

Measures == [recovery : Latencies, recovered : {0, 1, 2}]

AccessTypeOK ==
  /\ clock \in 0 .. MaxClock
  /\ records \in Seq(Records) /\ Len(records) <= MaxRecords
  /\ handler \in [Handlers -> [busy : BOOLEAN, at : 0 .. MaxClock]]
  /\ accesses \in 0 .. MaxAccesses
  /\ measures \in [Listed -> Measures]

AccessInit ==
  /\ clock = 0
  /\ records = <<>>
  /\ handler = [h \in Handlers |-> [busy |-> FALSE, at |-> 0]]
  /\ accesses = 0
  /\ measures = [s \in Listed |-> [recovery |-> 0, recovered |-> 0]]

-----------------------------------------------------------------------------
(* logStreamAccess, at the end of every request: the record is stamped     *)
(* before Add takes the lock, so that the log is not in order of time.     *)

Stamp(h) ==
  /\ ~handler[h].busy
  /\ accesses < MaxAccesses
  /\ handler' = [handler EXCEPT ![h] = [busy |-> TRUE, at |-> clock]]
  /\ UNCHANGED <<clock, records, accesses, measures>>

(* A plausible slip: the newest entry makes room. *)
ReplaceLast(r) ==
  IF Len(records) = MaxRecords
  THEN Append(SubSeq(records, 1, MaxRecords - 1), r)
  ELSE Append(records, r)

AddTo(r) ==
  IF Len(records) = MaxRecords
  THEN Append(Tail(records), r)
  ELSE Append(records, r)

Add(h) ==
  /\ handler[h].busy
  /\ accesses < MaxAccesses
  /\ records' = AddTo([at |-> handler[h].at, no |-> accesses + 1])
  /\ accesses' = accesses + 1
  /\ handler' = [handler EXCEPT ![h].busy = FALSE]
  /\ UNCHANGED <<clock, measures>>

Pass ==
  /\ clock < MaxClock
  /\ clock' = clock + 1
  /\ UNCHANGED <<records, handler, accesses, measures>>

(* recordRangeActivity has taken the time a seek took. *)
SeekMeasured(s) ==
  /\ \E ms \in Latencies : measures' = [measures EXCEPT ![s].recovery = ms]
  /\ UNCHANGED <<clock, records, handler, accesses>>

(* recoverPriorityWindow. *)
WindowRecovered(s) ==
  /\ measures[s].recovered < 2
  /\ measures' = [measures EXCEPT ![s].recovered = @ + 1]
  /\ UNCHANGED <<clock, records, handler, accesses>>

LogNext == Pass \/ \E h \in Handlers : Stamp(h) \/ Add(h)
MeasuresNext == \E s \in Listed : SeekMeasured(s) \/ WindowRecovered(s)

AccessNext == LogNext \/ MeasuresNext

AccessSpec == AccessInit /\ [][AccessNext]_accessVars

-----------------------------------------------------------------------------
(* buildTrend5m, asked for at "now": its points, and the accesses of each. *)

Bucket(at) == at - (at % BucketSeconds)

Recent(now) == {i \in DOMAIN records : records[i].at >= now - BucketCount * BucketSeconds}

Keys(now) == {Bucket(records[i].at) : i \in Recent(now)}

KeepFirst(keys) == {k \in keys : Cardinality({j \in keys : j < k}) < BucketCount}
KeepLast(keys) == {k \in keys : Cardinality({j \in keys : j > k}) < BucketCount}

Trend(now) ==
  [k \in KeepLast(Keys(now)) |->
     Cardinality({i \in Recent(now) : Bucket(records[i].at) = k})]

(* The bucket of a latency, as GetOverview and as the mapper choose it. *)
OverviewBucketInclusive(ms) ==
  IF ms > 0 /\ ms <= 1000 THEN "lt1s"
  ELSE IF ms >= 1000 /\ ms < 3000 THEN "1to3s"
  ELSE IF ms >= 3000 /\ ms < 8000 THEN "3to8s"
  ELSE "gt8s"

OverviewBucket(ms) ==
  IF ms > 0 /\ ms < 1000 THEN "lt1s"
  ELSE IF ms >= 1000 /\ ms < 3000 THEN "1to3s"
  ELSE IF ms >= 3000 /\ ms < 8000 THEN "3to8s"
  ELSE "gt8s"

LatencyBuckets == {"lt1s", "1to3s", "3to8s", "gt8s"}

(* RecoveryLatencyDistribution, and twice the sum of the success rates. *)
RecoveredSessions == {s \in Listed : measures[s].recovered > 0}

Distribution ==
  [b \in LatencyBuckets |->
     Cardinality({s \in RecoveredSessions : OverviewBucket(measures[s].recovery) = b})]

TotalSuccess ==
  Cardinality({s \in RecoveredSessions : measures[s].recovery \in 1 .. 3000})
    + Cardinality({s \in RecoveredSessions : measures[s].recovery \in 1 .. 8000})

(* mapRecoveryLatencyBuckets and calculateRecoverySuccessRate. *)
SessionBuckets(m) ==
  [b \in LatencyBuckets |->
     IF m.recovered <= 0 THEN 0
     ELSE CASE b = "lt1s"  -> IF m.recovery > 0 /\ m.recovery < 1000 THEN 1 ELSE 0
            [] b = "1to3s" -> IF m.recovery >= 1000 /\ m.recovery < 3000 THEN 1 ELSE 0
            [] b = "3to8s" -> IF m.recovery >= 3000 /\ m.recovery < 8000 THEN 1 ELSE 0
            [] b = "gt8s"  -> IF m.recovery = 0 \/ m.recovery >= 8000 THEN 1 ELSE 0]

SessionSuccess(m) ==
  IF m.recovered <= 0 \/ m.recovery <= 0 THEN 0
  ELSE IF m.recovery <= 3000 THEN 2 ELSE IF m.recovery <= 8000 THEN 1 ELSE 0

-----------------------------------------------------------------------------
(***************************************************************************)
(* However many requests end at the same time, the log is the last         *)
(* MaxRecords of all that were added, none missing and none twice.         *)
(***************************************************************************)
LogIsLastAccesses ==
  /\ Len(records) = IF accesses < MaxRecords THEN accesses ELSE MaxRecords
  /\ \A i \in DOMAIN records : records[i].no = accesses - Len(records) + i

(***************************************************************************)
(* The five minutes of the trend touch one bucket more than it shows, and  *)
(* the log it reads is not in order of time.  Still it shows every logged  *)
(* access of the current bucket and of the BucketCount - 1 before, once,   *)
(* in at most BucketCount points.                                          *)
(***************************************************************************)
TrendShowsRecent ==
  LET since == Bucket(clock) - (BucketCount - 1) * BucketSeconds
      points == Trend(clock)
  IN  /\ Cardinality(DOMAIN points) <= BucketCount
      /\ \A k \in {Bucket(records[i].at) : i \in {j \in DOMAIN records : records[j].at >= since}} :
           /\ k \in DOMAIN points
           /\ points[k] = Cardinality({i \in DOMAIN records : Bucket(records[i].at) = k})

(***************************************************************************)
(* The bounds of a recovery's latency and of its success are written in    *)
(* two files, for the overview and for each session: what the page shows   *)
(* in total is the sum of what it shows for the sessions.                  *)
(***************************************************************************)
OverviewIsSum ==
  /\ \A b \in LatencyBuckets :
       Distribution[b] = MapThenSumSet(LAMBDA s : SessionBuckets(measures[s])[b], Listed)
  /\ TotalSuccess = MapThenSumSet(LAMBDA s : SessionSuccess(measures[s]), Listed)
=============================================================================
