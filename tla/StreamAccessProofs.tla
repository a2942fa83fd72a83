--------------------------- MODULE StreamAccessProofs ---------------------------
(***************************************************************************)
(* Proofs about StreamAccess: the log, the trend and the totals, for every *)
(* capacity, any number of requests that end at the same time, any size    *)
(* and number of buckets, and any sessions.                                *)
(***************************************************************************)
EXTENDS StreamAccess, SequenceTheorems, FiniteSetTheorems, WellFoundedInduction, TLAPS

LogInv == AccessTypeOK /\ LogIsLastAccesses

(* What Add does to a log of the last accesses. *)
LEMMA AddKeepsLast ==
  ASSUME NEW S, records \in Seq(S), NEW r \in S, Len(records) <= MaxRecords
  PROVE  LET n == IF Len(records) = MaxRecords THEN MaxRecords ELSE Len(records) + 1
         IN  /\ AddTo(r) \in Seq(S)
             /\ Len(AddTo(r)) = n /\ n <= MaxRecords
             /\ AddTo(r)[n] = r
             /\ \A i \in 1 .. n - 1 :
                  AddTo(r)[i] = records[IF Len(records) = MaxRecords THEN i + 1 ELSE i]
<1>0. MaxRecords \in Nat \ {0} /\ Len(records) \in Nat
  BY TrendType, LenProperties
<1>1. CASE Len(records) = MaxRecords
  <2> DEFINE t == Tail(records)
  <2>1. records # <<>>
    BY <1>0, <1>1, EmptySeq
  <2>2. /\ t \in Seq(S) /\ Len(t) = MaxRecords - 1
        /\ \A i \in 1 .. MaxRecords - 1 : t[i] = records[i + 1]
    BY <1>0, <1>1, <2>1, HeadTailProperties
  <2>3. AddTo(r) = Append(t, r)
    BY <1>1 DEF AddTo
  <2> HIDE DEF t
  <2>4. /\ Append(t, r) \in Seq(S) /\ Len(Append(t, r)) = MaxRecords
        /\ Append(t, r)[MaxRecords] = r
        /\ \A i \in 1 .. MaxRecords - 1 : Append(t, r)[i] = t[i]
    BY <1>0, <2>2, AppendProperties
  <2> QED
    BY <1>0, <1>1, <2>2, <2>3, <2>4
<1>2. CASE Len(records) # MaxRecords
  <2>1. AddTo(r) = Append(records, r)
    BY <1>2 DEF AddTo
  <2>2. /\ Append(records, r) \in Seq(S) /\ Len(Append(records, r)) = Len(records) + 1
        /\ Append(records, r)[Len(records) + 1] = r
        /\ \A i \in 1 .. Len(records) : Append(records, r)[i] = records[i]
    BY <1>0, AppendProperties
  <2> QED
    BY <1>0, <1>2, <2>1, <2>2
<1> QED
  BY <1>1, <1>2

LEMMA InitLog == AccessInit => LogInv
<1> SUFFICES ASSUME AccessInit PROVE LogInv
  OBVIOUS
<1>1. records \in Seq(Records) /\ Len(records) = 0 /\ DOMAIN records = {}
  BY EmptySeq DEF AccessInit
<1>2. 0 \in 0 .. MaxClock /\ 0 \in 0 .. MaxAccesses
  BY TrendType
<1>3. measures \in [Listed -> Measures]
  BY TrendType DEF AccessInit, Measures
<1>4. handler \in [Handlers -> [busy : BOOLEAN, at : 0 .. MaxClock]]
  BY <1>2 DEF AccessInit
<1> QED
  BY <1>1, <1>2, <1>3, <1>4, TrendType DEF AccessInit, LogInv, AccessTypeOK, LogIsLastAccesses

LEMMA AddLog ==
  ASSUME LogInv, NEW h \in Handlers, Add(h)
  PROVE  LogInv'
<1> DEFINE r == [at |-> handler[h].at, no |-> accesses + 1]
           n == IF Len(records) = MaxRecords THEN MaxRecords ELSE Len(records) + 1
<1>1. /\ handler[h].at \in 0 .. MaxClock /\ accesses \in Nat /\ accesses + 1 \in 1 .. MaxAccesses
      /\ records \in Seq(Records) /\ Len(records) <= MaxRecords
  BY TrendType DEF LogInv, AccessTypeOK, Add
<1>2. r \in Records
  BY <1>1 DEF Records
<1>3. records' = AddTo(r) /\ accesses' = accesses + 1
  BY DEF Add
<1>4. r.no = accesses + 1
  OBVIOUS
<1> HIDE DEF r
<1>5. /\ records' \in Seq(Records) /\ Len(records') = n /\ n <= MaxRecords /\ records'[n] = r
      /\ \A i \in 1 .. n - 1 :
           records'[i] = records[IF Len(records) = MaxRecords THEN i + 1 ELSE i]
  BY <1>1, <1>2, <1>3, AddKeepsLast
<1>6. MaxRecords \in Nat \ {0} /\ Len(records) \in Nat
  BY <1>1, TrendType, LenProperties
<1>7. /\ Len(records) = IF accesses < MaxRecords THEN accesses ELSE MaxRecords
      /\ \A i \in 1 .. Len(records) : records[i].no = accesses - Len(records) + i
  BY <1>1, LenProperties DEF LogInv, LogIsLastAccesses
<1>8. n = IF accesses' < MaxRecords THEN accesses' ELSE MaxRecords
  BY <1>1, <1>3, <1>6, <1>7
<1>9. ASSUME NEW i \in 1 .. n
      PROVE  records'[i].no = accesses' - n + i
  <2>1. CASE i = n
    BY <1>1, <1>3, <1>4, <1>5, <1>6, <2>1
  <2>2. CASE i # n
    <3> DEFINE j == IF Len(records) = MaxRecords THEN i + 1 ELSE i
    <3>1. i \in 1 .. n - 1 /\ j \in 1 .. Len(records)
      BY <1>6, <2>2
    <3>2. records'[i] = records[j]
      BY <1>5, <3>1
    <3>3. records[j].no = accesses - Len(records) + j
      BY <1>7, <3>1
    <3> QED
      BY <1>1, <1>3, <1>6, <3>2, <3>3
  <2> QED
    BY <2>1, <2>2
<1>10. LogIsLastAccesses'
  BY <1>5, <1>8, <1>9, LenProperties DEF LogIsLastAccesses
<1>11. handler' \in [Handlers -> [busy : BOOLEAN, at : 0 .. MaxClock]]
  BY DEF Add, LogInv, AccessTypeOK
<1>12. AccessTypeOK'
  <2>1. UNCHANGED <<clock, measures>> /\ accesses' \in 0 .. MaxAccesses
    BY <1>1, <1>3 DEF Add
  <2> QED
    BY <1>5, <1>11, <2>1 DEF LogInv, AccessTypeOK
<1> QED
  BY <1>10, <1>12 DEF LogInv

LEMMA StepLog ==
  ASSUME LogInv, [AccessNext]_accessVars
  PROVE  LogInv'
<1>1. ASSUME UNCHANGED <<records, accesses>>
      PROVE  LogIsLastAccesses'
  BY <1>1 DEF LogInv, LogIsLastAccesses
<1>2. CASE Pass
  BY <1>1, <1>2, TrendType DEF Pass, LogInv, AccessTypeOK
<1>3. ASSUME NEW h \in Handlers, Stamp(h)
      PROVE  LogInv'
  BY <1>1, <1>3 DEF Stamp, LogInv, AccessTypeOK
<1>4. ASSUME NEW s \in Listed, SeekMeasured(s) \/ WindowRecovered(s)
      PROVE  LogInv'
  <2>1. measures' \in [Listed -> Measures]
    <3>1. CASE SeekMeasured(s)
      <4>1. PICK ms \in Latencies : measures' = [measures EXCEPT ![s].recovery = ms]
        BY <3>1 DEF SeekMeasured
      <4> QED
        BY <4>1 DEF LogInv, AccessTypeOK, Measures
    <3>2. CASE WindowRecovered(s)
      <4>1. measures[s] \in Measures /\ measures[s].recovered + 1 \in {0, 1, 2}
        BY <3>2 DEF WindowRecovered, LogInv, AccessTypeOK, Measures
      <4>2. measures' = [measures EXCEPT ![s] =
                           [measures[s] EXCEPT !.recovered = measures[s].recovered + 1]]
        BY <3>2 DEF WindowRecovered
      <4> QED
        BY <4>1, <4>2 DEF LogInv, AccessTypeOK, Measures
    <3> QED
      BY <1>4, <3>1, <3>2
  <2>2. UNCHANGED <<clock, records, handler, accesses>>
    BY <1>4 DEF SeekMeasured, WindowRecovered
  <2> QED
    BY <1>1, <2>1, <2>2 DEF LogInv, AccessTypeOK
<1>5. CASE UNCHANGED accessVars
  BY <1>1, <1>5 DEF accessVars, LogInv, AccessTypeOK
<1> QED
  BY <1>2, <1>3, <1>4, <1>5, AddLog DEF AccessNext, LogNext, MeasuresNext

(***************************************************************************)
(* The log never holds more than its capacity, and times, sessions and     *)
(* requests keep their types.                                              *)
(***************************************************************************)
THEOREM AccessTypes == AccessSpec => []AccessTypeOK
<1>1. LogInv => AccessTypeOK
  BY DEF LogInv
<1> QED
  BY <1>1, InitLog, StepLog, PTL DEF AccessSpec

(***************************************************************************)
(* The log is the last accesses, none missing and none twice, for every    *)
(* capacity.                                                               *)
(***************************************************************************)
THEOREM LogKeepsLast == AccessSpec => []LogIsLastAccesses
<1>1. LogInv => LogIsLastAccesses
  BY DEF LogInv
<1> QED
  BY <1>1, InitLog, StepLog, PTL DEF AccessSpec
-----------------------------------------------------------------------------
(***************************************************************************)
(* No access is stamped with a time to come: neither those in the log nor  *)
(* those about to be added.                                                *)
(***************************************************************************)
StampedBefore ==
  /\ \A i \in DOMAIN records : records[i].at <= clock
  /\ \A h \in Handlers : handler[h].at <= clock

LEMMA StampedStep ==
  ASSUME LogInv, StampedBefore, [AccessNext]_accessVars
  PROVE  StampedBefore'
<1>0. /\ clock \in Nat /\ records \in Seq(Records) /\ Len(records) <= MaxRecords
      /\ DOMAIN records = 1 .. Len(records) /\ Len(records) \in Nat
      /\ handler \in [Handlers -> [busy : BOOLEAN, at : 0 .. MaxClock]]
      /\ accesses \in Nat
      /\ \A h \in Handlers : handler[h].at \in Nat /\ handler[h].at <= clock
  <2>1. Len(records) \in Nat /\ DOMAIN records = 1 .. Len(records)
    BY LenProperties DEF LogInv, AccessTypeOK
  <2>2. QED
    BY <2>1, TrendType DEF LogInv, AccessTypeOK, StampedBefore
<1>1. CASE Pass
  <2>1. \A i \in DOMAIN records : records[i] \in Records
    BY <1>0, ElementOfSeq
  <2>2. clock' = clock + 1 /\ UNCHANGED <<records, handler>>
    BY <1>1 DEF Pass
  <2>3. QED
    BY <1>0, <2>1, <2>2 DEF StampedBefore, Records
<1>2. ASSUME NEW h \in Handlers, Stamp(h) PROVE StampedBefore'
  BY <1>0, <1>2 DEF Stamp, StampedBefore
<1>3. ASSUME NEW h \in Handlers, Add(h) PROVE StampedBefore'
  <2> DEFINE r == [at |-> handler[h].at, no |-> accesses + 1]
             n == IF Len(records) = MaxRecords THEN MaxRecords ELSE Len(records) + 1
  <2>1. r.at <= clock
    BY <1>0
  <2>2. r \in Records /\ records' = AddTo(r)
    BY <1>0, <1>3, TrendType DEF Add, Records, LogInv, AccessTypeOK
  <2> HIDE DEF r
  <2>3. /\ records' \in Seq(Records) /\ Len(records') = n /\ records'[n] = r
        /\ \A i \in 1 .. n - 1 :
             records'[i] = records[IF Len(records) = MaxRecords THEN i + 1 ELSE i]
    BY <1>0, <2>2, AddKeepsLast
  <2>4. /\ DOMAIN records' = 1 .. n /\ MaxRecords \in Nat \ {0}
        /\ Len(records) \in Nat /\ n \in Nat
    BY <1>0, <2>3, TrendType, LenProperties
  <2>5. ASSUME NEW i \in 1 .. n PROVE records'[i].at <= clock
    <3>1. CASE i = n
      BY <2>1, <2>3, <3>1
    <3>2. CASE i # n
      <4> DEFINE j == IF Len(records) = MaxRecords THEN i + 1 ELSE i
      <4>1. i \in 1 .. n - 1 /\ j \in 1 .. Len(records)
        BY <2>4, <3>2
      <4>2. QED
        BY <1>0, <2>3, <4>1 DEF StampedBefore
    <3>3. QED
      BY <3>1, <3>2
  <2>6. clock' = clock /\ \A g \in Handlers : handler'[g].at = handler[g].at
    BY <1>0, <1>3 DEF Add
  <2>7. QED
    BY <1>0, <2>4, <2>5, <2>6 DEF StampedBefore
<1>4. ASSUME NEW s \in Listed, SeekMeasured(s) \/ WindowRecovered(s) PROVE StampedBefore'
  BY <1>4 DEF SeekMeasured, WindowRecovered, StampedBefore
<1>5. CASE UNCHANGED accessVars
  BY <1>5 DEF accessVars, StampedBefore
<1>6. QED
  BY <1>1, <1>2, <1>3, <1>4, <1>5 DEF AccessNext, LogNext, MeasuresNext

LEMMA StampedHolds == AccessSpec => [](LogInv /\ StampedBefore)
<1>1. AccessInit => StampedBefore
  BY DEF AccessInit, StampedBefore
<1>2. LogInv /\ StampedBefore /\ [AccessNext]_accessVars => (LogInv /\ StampedBefore)'
  BY StepLog, StampedStep
<1>3. QED
  BY <1>1, <1>2, InitLog, PTL DEF AccessSpec
-----------------------------------------------------------------------------
(* Buckets of time.                                                        *)

LEMMA Multiples ==
  ASSUME NEW p \in Int, NEW q \in Int, NEW d \in Nat \ {0}
  PROVE  /\ p < q => p * d < q * d
         /\ p * d < q * d => p < q
         /\ p <= q => p * d <= q * d
<1>1. p <= q => p * d <= q * d
  OBVIOUS
<1>2. p < q => p * d < q * d
  OBVIOUS
<1>3. q <= p => q * d <= p * d
  OBVIOUS
<1>4. QED
  BY <1>1, <1>2, <1>3

LEMMA BucketOf ==
  ASSUME NEW n \in Nat
  PROVE  /\ n \div BucketSeconds \in Nat
         /\ Bucket(n) = (n \div BucketSeconds) * BucketSeconds
         /\ Bucket(n) \in Nat
         /\ Bucket(n) <= n
         /\ n < Bucket(n) + BucketSeconds
<1>1. BucketSeconds \in Nat \ {0}
  BY TrendType
<1>2. /\ n \div BucketSeconds \in Nat
      /\ n % BucketSeconds \in 0 .. (BucketSeconds - 1)
      /\ n = BucketSeconds * (n \div BucketSeconds) + (n % BucketSeconds)
  BY <1>1
<1>3. BucketSeconds * (n \div BucketSeconds) = (n \div BucketSeconds) * BucketSeconds
      /\ (n \div BucketSeconds) * BucketSeconds \in Nat
  BY <1>1, <1>2
<1>4. QED
  BY <1>1, <1>2, <1>3 DEF Bucket

(* Times in order are in buckets in order, and a bucket is a whole number  *)
(* of buckets from any other.                                              *)
LEMMA BucketOrder ==
  ASSUME NEW m \in Nat, NEW n \in Nat, m <= n
  PROVE  /\ m \div BucketSeconds <= n \div BucketSeconds
         /\ Bucket(m) <= Bucket(n)
<1> DEFINE p == m \div BucketSeconds
           q == n \div BucketSeconds
<1>1. /\ p \in Nat /\ Bucket(m) = p * BucketSeconds /\ Bucket(m) \in Nat /\ Bucket(m) <= m
      /\ q \in Nat /\ Bucket(n) = q * BucketSeconds /\ Bucket(n) \in Nat
      /\ n < Bucket(n) + BucketSeconds
  BY BucketOf
<1>2. BucketSeconds \in Nat \ {0}
  BY TrendType
<1> HIDE DEF p, q
<1>3. (q + 1) * BucketSeconds = q * BucketSeconds + BucketSeconds
  BY <1>1, <1>2
<1>4. p * BucketSeconds < (q + 1) * BucketSeconds
  BY <1>1, <1>2, <1>3
<1>5. p < q + 1
  BY <1>1, <1>2, <1>4, Multiples
<1>6. p <= q
  BY <1>1, <1>5
<1>7. p * BucketSeconds <= q * BucketSeconds
  BY <1>1, <1>2, <1>6, Multiples
<1>8. QED
  BY <1>1, <1>6, <1>7 DEF p, q

(* A set of numbers that is not empty has a least element. *)
Below == {p \in Nat \X Nat : p[1] < p[2]}

LEMMA Least ==
  ASSUME NEW S \in SUBSET Nat, S # {}
  PROVE  \E m \in S : \A n \in S : m <= n
<1>1. IsWellFoundedOn(Below, Nat)
  BY NatLessThanWellFounded, Zenon DEF OpToRel, Below
<1>2. PICK m \in S : \A n \in S : <<n, m>> \notin Below
  BY <1>1, WFMin
<1>3. ASSUME NEW n \in S PROVE m <= n
  <2>1. ~(n < m)
    BY <1>2 DEF Below
  <2>2. QED
    BY <2>1
<1>4. QED
  BY <1>3

(* The last BucketCount keys are at most BucketCount. *)
LEMMA FewAreKept ==
  ASSUME NEW keys \in SUBSET Nat, IsFiniteSet(keys)
  PROVE  Cardinality(KeepLast(keys)) <= BucketCount
<1> DEFINE kept == KeepLast(keys)
           later(k) == {j \in keys : j > k}
<1>1. kept \in SUBSET keys /\ BucketCount \in Nat \ {0}
  BY TrendType DEF KeepLast
<1>2. IsFiniteSet(kept) /\ Cardinality(kept) \in Nat
  BY <1>1, FS_Subset, FS_CardinalityType
<1>3. CASE kept = {}
  BY <1>1, <1>3, FS_EmptySet
<1>4. CASE kept # {}
  <2>1. PICK m \in kept : \A k \in kept : m <= k
    <3>1. kept \in SUBSET Nat
      BY <1>1
    <3> HIDE DEF kept
    <3>2. QED
      BY <1>4, <3>1, Least
  <2>2. Cardinality(later(m)) < BucketCount
    BY <2>1 DEF KeepLast
  <2>3. IsFiniteSet(later(m)) /\ Cardinality(later(m)) \in Nat
    <3>1. later(m) \in SUBSET keys
      OBVIOUS
    <3> HIDE DEF later
    <3>2. QED
      BY <3>1, FS_Subset, FS_CardinalityType
  <2>4. kept \ {m} \in SUBSET later(m)
    <3>1. ASSUME NEW k \in kept, k # m PROVE k \in later(m)
      <4>1. k \in keys /\ k \in Nat /\ m \in Nat /\ m <= k
        BY <1>1, <2>1
      <4>2. QED
        BY <3>1, <4>1
    <3>2. QED
      BY <3>1
  <2> HIDE DEF later, kept
  <2>5. Cardinality(kept \ {m}) <= Cardinality(later(m))
    BY <2>3, <2>4, FS_Subset
  <2>6. Cardinality(kept \ {m}) = Cardinality(kept) - 1
    BY <1>2, <2>1, FS_RemoveElement
  <2>7. QED
    BY <1>1, <1>2, <2>2, <2>3, <2>5, <2>6 DEF kept
<1>5. QED
  BY <1>3, <1>4

(* Of the keys up to the current bucket, fewer than BucketCount are later  *)
(* than one of the buckets the trend has room for.                         *)
LEMMA FewAreLater ==
  ASSUME NEW t \in Nat, NEW at \in Nat, at <= t,
         at >= Bucket(t) - (BucketCount - 1) * BucketSeconds,
         NEW later,
         \A j \in later : \E n \in Nat : n <= t /\ j = Bucket(n) /\ j > Bucket(at)
  PROVE  /\ Bucket(at) >= Bucket(t) - (BucketCount - 1) * BucketSeconds
         /\ Cardinality(later) < BucketCount
<1> DEFINE q == t \div BucketSeconds
           p == at \div BucketSeconds
           room == (p + 1) .. q
<1>1. /\ BucketSeconds \in Nat \ {0} /\ BucketCount \in Nat \ {0}
      /\ q \in Nat /\ Bucket(t) = q * BucketSeconds /\ Bucket(t) \in Nat
      /\ p \in Nat /\ Bucket(at) = p * BucketSeconds /\ Bucket(at) \in Nat
      /\ at < Bucket(at) + BucketSeconds
  BY TrendType, BucketOf
<1> HIDE DEF p, q
<1>2. q - (BucketCount - 1) <= p
  <2>1. (p + 1) * BucketSeconds = p * BucketSeconds + BucketSeconds
    BY <1>1
  <2>2. (q - (BucketCount - 1)) * BucketSeconds
          = q * BucketSeconds - (BucketCount - 1) * BucketSeconds
    BY <1>1
  <2>3. (BucketCount - 1) * BucketSeconds \in Int
    BY <1>1
  <2>4. (q - (BucketCount - 1)) * BucketSeconds < (p + 1) * BucketSeconds
    BY <1>1, <2>1, <2>2, <2>3
  <2>5. q - (BucketCount - 1) \in Int /\ p + 1 \in Int
    BY <1>1
  <2>6. q - (BucketCount - 1) < p + 1
    BY <1>1, <2>4, <2>5, Multiples
  <2>7. QED
    BY <1>1, <2>6
<1>3. Bucket(at) >= Bucket(t) - (BucketCount - 1) * BucketSeconds
  <2>1. q - (BucketCount - 1) \in Int
    BY <1>1
  <2>2. (q - (BucketCount - 1)) * BucketSeconds <= p * BucketSeconds
    BY <1>1, <1>2, <2>1, Multiples
  <2>3. (q - (BucketCount - 1)) * BucketSeconds
          = q * BucketSeconds - (BucketCount - 1) * BucketSeconds
    BY <1>1
  <2>4. QED
    BY <1>1, <2>2, <2>3
<1>4. IsFiniteSet(room) /\ Cardinality(room) \in Nat /\ Cardinality(room) < BucketCount
  <2>1. IsFiniteSet(room) /\ Cardinality(room) = IF p + 1 > q THEN 0 ELSE q - (p + 1) + 1
    BY <1>1, FS_Interval
  <2>2. QED
    BY <1>1, <1>2, <2>1
(* Each later key is the bucket of a number of room. *)
<1>5. \A j \in later : \E x \in room : j = x * BucketSeconds
  <2>1. SUFFICES ASSUME NEW j \in later PROVE \E x \in room : j = x * BucketSeconds
    OBVIOUS
  <2>2. PICK n \in Nat : n <= t /\ j = Bucket(n) /\ j > Bucket(at)
    OBVIOUS
  <2> DEFINE x == n \div BucketSeconds
  <2>3. x \in Nat /\ j = x * BucketSeconds /\ x <= q
    BY <2>2, BucketOf, BucketOrder DEF q
  <2> HIDE DEF x
  <2>4. p < x
    BY <1>1, <2>2, <2>3, Multiples
  <2>5. QED
    BY <1>1, <2>3, <2>4
<1> DEFINE f == [j \in later |-> CHOOSE x \in room : j = x * BucketSeconds]
<1>6. \A j \in later : f[j] \in room /\ j = f[j] * BucketSeconds
  BY <1>5
<1> HIDE DEF room
<1>7. f \in Injection(later, room)
  <2>1. f \in [later -> room]
    BY <1>6
  <2>2. \A i, j \in later : f[i] = f[j] => i = j
    BY <1>6
  <2> HIDE DEF f
  <2>3. QED
    BY <2>1, <2>2 DEF Injection, IsInjective
<1>8. IsFiniteSet(later) /\ Cardinality(later) \in Nat
      /\ Cardinality(later) <= Cardinality(room)
  BY <1>4, <1>7, FS_Injection, FS_CardinalityType
<1>9. QED
  BY <1>1, <1>3, <1>4, <1>8

LEMMA TrendOfLog ==
  ASSUME LogInv, StampedBefore
  PROVE  TrendShowsRecent
<1> DEFINE since == Bucket(clock) - (BucketCount - 1) * BucketSeconds
           keys == Keys(clock)
           at(i) == records[i].at
<1>1. clock \in Nat /\ \A i \in DOMAIN records : at(i) \in Nat /\ at(i) <= clock
  <2>1. \A i \in DOMAIN records : records[i] \in Records
    BY ElementOfSeq, LenProperties DEF LogInv, AccessTypeOK
  <2>2. QED
    BY <2>1, TrendType DEF Records, LogInv, AccessTypeOK, StampedBefore
<1>2. BucketSeconds \in Nat \ {0} /\ BucketCount \in Nat \ {0}
      /\ Bucket(clock) \in Nat /\ clock < Bucket(clock) + BucketSeconds
  BY <1>1, TrendType, BucketOf
<1>3. since \in Int /\ since >= clock - BucketCount * BucketSeconds
  <2>1. (BucketCount - 1) * BucketSeconds = BucketCount * BucketSeconds - BucketSeconds
        /\ BucketCount * BucketSeconds \in Nat
    BY <1>2
  <2>2. QED
    BY <1>1, <1>2, <2>1
<1>4. clock - BucketCount * BucketSeconds \in Int
  BY <1>1, <1>2
<1>5. ASSUME NEW k \in keys PROVE k \in 0 .. clock
  <2>1. PICK i \in Recent(clock) : k = Bucket(at(i))
    BY <1>5 DEF Keys
  <2>2. at(i) \in Nat /\ at(i) <= clock
    BY <1>1 DEF Recent
  <2>3. QED
    BY <1>1, <2>1, <2>2, BucketOf
<1>6. keys \in SUBSET Nat /\ IsFiniteSet(keys)
  <2> HIDE DEF keys
  <2>1. keys \in SUBSET (0 .. clock)
    BY <1>5
  <2>2. IsFiniteSet(0 .. clock) /\ 0 .. clock \subseteq Nat
    BY <1>1, FS_Interval
  <2>3. IsFiniteSet(keys)
    BY <2>1, <2>2, FS_Subset
  <2>4. QED
    BY <2>1, <2>2, <2>3
<1>7. Cardinality(DOMAIN Trend(clock)) <= BucketCount
  <2>1. DOMAIN Trend(clock) = KeepLast(keys)
    BY DEF Trend
  <2> HIDE DEF keys
  <2>2. QED
    BY <1>6, <2>1, FewAreKept
<1>8. ASSUME NEW i \in DOMAIN records, at(i) >= since
      PROVE  /\ Bucket(at(i)) \in DOMAIN Trend(clock)
             /\ Trend(clock)[Bucket(at(i))]
                  = Cardinality({j \in DOMAIN records : Bucket(at(j)) = Bucket(at(i))})
  <2> DEFINE k == Bucket(at(i))
             later == {j \in keys : j > k}
  <2>1. at(i) \in Nat /\ at(i) <= clock
    BY <1>1
  <2>2. i \in Recent(clock)
    BY <1>3, <1>4, <1>8, <2>1 DEF Recent
  <2>3. k \in keys
    BY <2>2 DEF Keys
  <2>4. \A j \in later : \E n \in Nat : n <= clock /\ j = Bucket(n) /\ j > Bucket(at(i))
    BY <1>1 DEF Keys, Recent
  <2>5. k >= since /\ Cardinality(later) < BucketCount
    <3> HIDE DEF later
    <3>1. QED
      BY <1>1, <1>8, <2>1, <2>4, FewAreLater
  <2>6. k \in KeepLast(keys)
    BY <2>3, <2>5 DEF KeepLast
  <2>7. {j \in Recent(clock) : Bucket(at(j)) = k} = {j \in DOMAIN records : Bucket(at(j)) = k}
    <3>1. ASSUME NEW j \in DOMAIN records, Bucket(at(j)) = k PROVE j \in Recent(clock)
      <4>1. at(j) \in Nat /\ k <= at(j) /\ k \in Nat
        BY <1>1, <3>1, BucketOf
      <4>2. at(j) >= clock - BucketCount * BucketSeconds
        BY <1>3, <1>4, <2>5, <4>1
      <4>3. QED
        BY <4>2 DEF Recent
    <3>2. QED
      BY <3>1 DEF Recent
  <2>8. k \in DOMAIN Trend(clock)
        /\ Trend(clock)[k] = Cardinality({j \in Recent(clock) : Bucket(at(j)) = k})
    BY <2>6 DEF Trend
  <2>9. QED
    BY <2>7, <2>8
<1>9. QED
  BY <1>7, <1>8 DEF TrendShowsRecent

(***************************************************************************)
(* However the time passes between the stamp of an access and its place in *)
(* the log, and whatever the size and the number of the buckets, the trend *)
(* shows every logged access of the last BucketCount buckets, once.        *)
(***************************************************************************)
THEOREM TrendIsRecent == AccessSpec => []TrendShowsRecent
BY StampedHolds, TrendOfLog, PTL

-----------------------------------------------------------------------------
(***************************************************************************)
(* The sum of a set of small numbers is how many are at least 1 and how    *)
(* many are 2.  The library takes the sum with a recursive function on the *)
(* subsets: there is one, and a smallest set of which it were not that     *)
(* number would have a smaller one.                                        *)
(***************************************************************************)
Taken(s) == CHOOSE x \in s : TRUE

SumStep(f, S, iter) ==
  [s \in SUBSET S |-> IF s = {} THEN 0 ELSE f[Taken(s)] + iter[s \ {Taken(s)}]]

AtLeast(f, n, s) == {x \in s : f[x] >= n}
Levels(f, s) == Cardinality(AtLeast(f, 1, s)) + Cardinality(AtLeast(f, 2, s))

LEMMA LevelsWithout ==
  ASSUME NEW S, IsFiniteSet(S), NEW f \in [S -> {0, 1, 2}], NEW s \in SUBSET S, NEW x \in s
  PROVE  /\ IsFiniteSet(s) /\ Levels(f, s) \in Nat
         /\ Levels(f, s) = f[x] + Levels(f, s \ {x})
<1>1. IsFiniteSet(s)
  BY FS_Subset
<1>2. ASSUME NEW n \in {1, 2}
      PROVE  /\ Cardinality(AtLeast(f, n, s)) \in Nat
             /\ Cardinality(AtLeast(f, n, s \ {x}))
                  = Cardinality(AtLeast(f, n, s)) - (IF f[x] >= n THEN 1 ELSE 0)
  <2>1. AtLeast(f, n, s) \in SUBSET s
    BY DEF AtLeast
  <2>2. IsFiniteSet(AtLeast(f, n, s)) /\ Cardinality(AtLeast(f, n, s)) \in Nat
    BY <1>1, <2>1, FS_Subset, FS_CardinalityType
  <2>3. AtLeast(f, n, s \ {x}) = AtLeast(f, n, s) \ {x}
    BY DEF AtLeast
  <2>4. x \in AtLeast(f, n, s) <=> f[x] >= n
    BY DEF AtLeast
  <2>5. Cardinality(AtLeast(f, n, s) \ {x})
          = IF x \in AtLeast(f, n, s) THEN Cardinality(AtLeast(f, n, s)) - 1
            ELSE Cardinality(AtLeast(f, n, s))
    BY <2>2, FS_RemoveElement
  <2>6. CASE f[x] >= n
    BY <2>2, <2>3, <2>4, <2>5, <2>6
  <2>7. CASE ~(f[x] >= n)
    BY <2>2, <2>3, <2>4, <2>5, <2>7
  <2>8. QED
    BY <2>6, <2>7
<1>3. f[x] = (IF f[x] >= 1 THEN 1 ELSE 0) + (IF f[x] >= 2 THEN 1 ELSE 0)
  <2>1. f[x] \in {0, 1, 2}
    OBVIOUS
  <2>2. QED
    BY <2>1
<1>4. f[x] \in Int
  OBVIOUS
<1>5. /\ Cardinality(AtLeast(f, 1, s)) \in Nat
      /\ Cardinality(AtLeast(f, 1, s \ {x}))
           = Cardinality(AtLeast(f, 1, s)) - (IF f[x] >= 1 THEN 1 ELSE 0)
  BY <1>2
<1>6. /\ Cardinality(AtLeast(f, 2, s)) \in Nat
      /\ Cardinality(AtLeast(f, 2, s \ {x}))
           = Cardinality(AtLeast(f, 2, s)) - (IF f[x] >= 2 THEN 1 ELSE 0)
  BY <1>2
<1>7. QED
  BY <1>1, <1>3, <1>4, <1>5, <1>6 DEF Levels

LEMMA LevelsOfNone ==
  ASSUME NEW f
  PROVE  Levels(f, {}) = 0
<1>1. AtLeast(f, 1, {}) = {} /\ AtLeast(f, 2, {}) = {}
  BY DEF AtLeast
<1>2. QED
  BY <1>1, FS_EmptySet DEF Levels

LEMMA TakenIsIn == ASSUME NEW s, s # {} PROVE Taken(s) \in s
BY DEF Taken

LEMMA SumIsLevels ==
  ASSUME NEW S, IsFiniteSet(S), NEW f \in [S -> {0, 1, 2}]
  PROVE  /\ \E iter : iter = SumStep(f, S, iter)
         /\ \A iter : iter = SumStep(f, S, iter) => iter[S] = Levels(f, S)
<1>1. ASSUME NEW s \in SUBSET S
      PROVE  Levels(f, s) = IF s = {} THEN 0 ELSE f[Taken(s)] + Levels(f, s \ {Taken(s)})
  <2>1. CASE s = {}
    BY <2>1, LevelsOfNone
  <2>2. CASE s # {}
    <3>1. Taken(s) \in s
      BY <2>2, TakenIsIn
    <3>2. Levels(f, s) = f[Taken(s)] + Levels(f, s \ {Taken(s)})
      BY <3>1, LevelsWithout
    <3>3. QED
      BY <2>2, <3>2
  <2>3. QED
    BY <2>1, <2>2
<1>2. \E iter : iter = SumStep(f, S, iter)
  <2> DEFINE g == [s \in SUBSET S |-> Levels(f, s)]
  <2>1. ASSUME NEW s \in SUBSET S, s # {}
        PROVE  s \ {Taken(s)} \in SUBSET S
    OBVIOUS
  <2>2. g = SumStep(f, S, g)
    <3>1. \A s \in SUBSET S : g[s] = SumStep(f, S, g)[s]
      BY <1>1, <2>1 DEF SumStep
    <3>2. QED
      BY <3>1 DEF SumStep
  <2>3. QED
    BY <2>2
<1>3. ASSUME NEW iter, iter = SumStep(f, S, iter), iter[S] # Levels(f, S)
      PROVE  FALSE
  <2> DEFINE Wrong == {s \in SUBSET S : iter[s] # Levels(f, s)}
             sizes == {Cardinality(s) : s \in Wrong}
  <2>1. \A s \in SUBSET S : IsFiniteSet(s) /\ Cardinality(s) \in Nat
    BY FS_Subset, FS_CardinalityType
  <2>2. sizes \in SUBSET Nat /\ sizes # {}
    BY <1>3, <2>1
  <2>3. PICK m \in sizes : \A n \in sizes : m <= n
    <3> HIDE DEF sizes
    <3>1. QED
      BY <2>2, Least
  <2>4. PICK s \in Wrong : Cardinality(s) = m
    BY <2>3
  <2>5. iter[s] = IF s = {} THEN 0 ELSE f[Taken(s)] + iter[s \ {Taken(s)}]
    BY <1>3 DEF SumStep
  <2>6. s # {}
    BY <1>1, <2>4, <2>5
  <2> DEFINE smaller == s \ {Taken(s)}
  <2>7. smaller \in SUBSET S /\ Cardinality(smaller) = Cardinality(s) - 1
    BY <2>1, <2>6, FS_RemoveElement, TakenIsIn
  <2>8. smaller \notin Wrong
    BY <2>1, <2>3, <2>4, <2>7
  <2>9. iter[smaller] = Levels(f, smaller)
    BY <2>7, <2>8
  <2>10. QED
    BY <1>1, <2>4, <2>5, <2>6, <2>9
<1>4. QED
  BY <1>2, <1>3

(* The sessions that have recovered in at most n ms, and not in none. *)
Within(n) == {s \in RecoveredSessions : measures[s].recovery \in 1 .. n}

LEMMA WithinMeans ==
  ASSUME NEW n \in Nat, \A s \in Listed : measures[s].recovery \in Nat
  PROVE  /\ IsFiniteSet(Within(n)) /\ Cardinality(Within(n)) \in Nat
         /\ Within(n) = {s \in Listed : /\ measures[s].recovered > 0
                                       /\ measures[s].recovery > 0
                                       /\ measures[s].recovery <= n}
<1>1. Within(n) = {s \in Listed : /\ measures[s].recovered > 0
                                  /\ measures[s].recovery > 0
                                  /\ measures[s].recovery <= n}
  BY DEF Within, RecoveredSessions
<1>2. Within(n) \in SUBSET Listed
  BY <1>1
<1>3. QED
  BY <1>1, <1>2, FS_Subset, FS_CardinalityType, ListedIsFinite

LEMMA TotalsOfMeasures ==
  ASSUME LogInv
  PROVE  OverviewIsSum
<1>1. \A s \in Listed : measures[s] \in Measures /\ measures[s].recovery \in Nat
  BY TrendType DEF LogInv, AccessTypeOK, Measures
<1>2. ASSUME NEW b \in LatencyBuckets
      PROVE  Distribution[b] = MapThenSumSet(LAMBDA s : SessionBuckets(measures[s])[b], Listed)
  <2> DEFINE value(s) == SessionBuckets(measures[s])[b]
             f == [s \in Listed |-> value(s)]
             Step(iter) == [s \in SUBSET Listed |->
                              IF s = {} THEN 0
                              ELSE value(CHOOSE x \in s : TRUE)
                                     + iter[s \ {CHOOSE x \in s : TRUE}]]
             shown == {s \in RecoveredSessions : OverviewBucket(measures[s].recovery) = b}
  <2>1. ASSUME NEW s \in Listed
        PROVE  value(s) = IF s \in shown THEN 1 ELSE 0
    BY <1>1 DEF SessionBuckets, LatencyBuckets, OverviewBucket, RecoveredSessions, Measures
  <2>2. MapThenSumSet(LAMBDA s : SessionBuckets(measures[s])[b], Listed)
          = (CHOOSE iter : iter = Step(iter))[Listed]
    BY DEF MapThenSumSet, MapThenFoldSet
  <2> HIDE DEF value
  <2>3. \A iter : Step(iter) = SumStep(f, Listed, iter)
    BY DEF SumStep, Taken
  <2>4. f \in [Listed -> {0, 1, 2}]
    BY <2>1
  <2>5. AtLeast(f, 1, Listed) = shown /\ AtLeast(f, 2, Listed) = {}
    BY <2>1 DEF AtLeast, RecoveredSessions
  <2>6. Distribution[b] = Cardinality(shown)
    BY DEF Distribution
  <2> HIDE DEF f, shown, Step
  <2>7. (CHOOSE iter : iter = Step(iter))[Listed] = Levels(f, Listed)
    BY <2>3, <2>4, SumIsLevels, ListedIsFinite
  <2>8. Levels(f, Listed) = Cardinality(shown) + 0
    BY <2>5, FS_EmptySet DEF Levels
  <2>9. Cardinality(shown) \in Nat
    BY <2>5, FS_Subset, FS_CardinalityType, ListedIsFinite DEF AtLeast
  <2>10. QED
    BY <2>2, <2>6, <2>7, <2>8, <2>9
<1>3. TotalSuccess = MapThenSumSet(LAMBDA s : SessionSuccess(measures[s]), Listed)
  <2> DEFINE value(s) == SessionSuccess(measures[s])
             f == [s \in Listed |-> value(s)]
             Step(iter) == [s \in SUBSET Listed |->
                              IF s = {} THEN 0
                              ELSE value(CHOOSE x \in s : TRUE)
                                     + iter[s \ {CHOOSE x \in s : TRUE}]]
  <2>0. /\ IsFiniteSet(Within(3000)) /\ Cardinality(Within(3000)) \in Nat
        /\ IsFiniteSet(Within(8000)) /\ Cardinality(Within(8000)) \in Nat
        /\ \A s \in Listed : s \in Within(3000) <=> /\ measures[s].recovered > 0
                                                  /\ measures[s].recovery > 0
                                                  /\ measures[s].recovery <= 3000
        /\ \A s \in Listed : s \in Within(8000) <=> /\ measures[s].recovered > 0
                                                  /\ measures[s].recovery > 0
                                                  /\ measures[s].recovery <= 8000
        /\ Within(3000) \in SUBSET Listed /\ Within(8000) \in SUBSET Listed
    BY <1>1, WithinMeans
  <2>1. ASSUME NEW s \in Listed
        PROVE  /\ value(s) \in {0, 1, 2}
               /\ value(s) >= 1 <=> s \in Within(8000)
               /\ value(s) >= 2 <=> s \in Within(3000)
    BY <1>1, <2>0 DEF SessionSuccess, Measures
  <2>2. MapThenSumSet(LAMBDA s : SessionSuccess(measures[s]), Listed)
          = (CHOOSE iter : iter = Step(iter))[Listed]
    BY DEF MapThenSumSet, MapThenFoldSet
  <2> HIDE DEF value
  <2>3. \A iter : Step(iter) = SumStep(f, Listed, iter)
    BY DEF SumStep, Taken
  <2>4. f \in [Listed -> {0, 1, 2}]
    BY <2>1
  <2>5. AtLeast(f, 1, Listed) = Within(8000) /\ AtLeast(f, 2, Listed) = Within(3000)
    BY <2>0, <2>1 DEF AtLeast
  <2>6. TotalSuccess = Cardinality(Within(3000)) + Cardinality(Within(8000))
    BY Zenon DEF TotalSuccess, Within
  <2> HIDE DEF f, Step
  <2>7. (CHOOSE iter : iter = Step(iter))[Listed] = Levels(f, Listed)
    BY <2>3, <2>4, SumIsLevels, ListedIsFinite
  <2>8. QED
    BY <2>0, <2>2, <2>5, <2>6, <2>7 DEF Levels
<1>4. QED
  BY <1>2, <1>3 DEF OverviewIsSum

(***************************************************************************)
(* Whatever the sessions have measured, the totals of the overview are the *)
(* sums of what is shown for each: the bounds of a latency and of a        *)
(* success agree in the two files, at every value.                         *)
(***************************************************************************)
THEOREM OverviewSums == AccessSpec => []OverviewIsSum
BY StampedHolds, TotalsOfMeasures, PTL

=============================================================================
