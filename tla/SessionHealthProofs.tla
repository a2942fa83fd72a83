-------------------------- MODULE SessionHealthProofs --------------------------
(***************************************************************************)
(* Proofs about SessionHealth.  There is nothing unbounded in the rules:   *)
(* the proofs say why their numbers fit together.                          *)
(***************************************************************************)
EXTENDS SessionHealth, TLAPS

(* Which evidence there is, one code at a time. *)
LEMMA EvidenceIs ==
  ASSUME NEW s \in Signals, NEW a \in 1 .. 3
  PROVE  LET ev == Evidences(s, a)
         IN  /\ "metadata_timeout" \in ev <=> (s.meta # "ready" /\ a > 1)
             /\ "tracker_failed" \in ev <=>
                  (s.trackers = "none" \/ (s.trackers = "appended" /\ s.peers = "none" /\ a > 1))
             /\ "dht_no_peers" \in ev <=> s.peers = "none"
             /\ "no_useful_data" \in ev <=> (s.peers = "active" /\ ~s.useful)
             /\ "runtime_error" \in ev <=> s.meta = "error"
BY DEF Evidences, Codes, MetadataTimeout, TrackerFailed, UdpBlocked, NoUsefulData

(* The score before it is clamped, in the measures themselves. *)
Score(s, a, r, n) ==
  50 + If(s.meta = "ready", 20) + If(s.peers = "active", 15) + If(s.useful, 25)
     + If(n \/ r = "recent", 10)
     - (If(s.meta # "ready" /\ a > 1, 25)
        + If(s.trackers = "none" \/ (s.trackers = "appended" /\ s.peers = "none" /\ a > 1), 15)
        + If(s.peers = "none", 20) + If(s.peers = "active" /\ ~s.useful, 20)
        + If(s.meta = "error", 30))

LEMMA ConfidenceIs ==
  ASSUME NEW s \in Signals, NEW a \in 1 .. 3, NEW r, NEW n \in BOOLEAN
  PROVE  Confidence(s, a, r, n) = Clamp(Score(s, a, r, n), a)
BY EvidenceIs DEF Confidence, Score, Penalty, If

LEMMA ScoreType ==
  ASSUME NEW s \in Signals, NEW a \in 1 .. 3, NEW r, NEW n \in BOOLEAN
  PROVE  Score(s, a, r, n) \in Int
BY DEF Score, If

LEMMA ClampType ==
  ASSUME NEW k \in Int, NEW a \in 1 .. 3
  PROVE  /\ Clamp(k, a) \in 0 .. 100
         /\ Clamp(k, a) >= 70 <=> k >= 70
         /\ a = 3 => (Clamp(k, a) <= 35 <=> k <= 35)
BY DEF Clamp, Floor

LEMMA ConfidenceType ==
  ASSUME NEW s \in Signals, NEW a \in 1 .. 3, NEW r, NEW n \in BOOLEAN
  PROVE  /\ Confidence(s, a, r, n) \in 0 .. 100
         /\ Confidence(s, a, r, n) >= 70 <=> Score(s, a, r, n) >= 70
         /\ a = 3 => (Confidence(s, a, r, n) <= 35 <=> Score(s, a, r, n) <= 35)
BY ConfidenceIs, ScoreType, ClampType

(* classifyAvailabilityTier, in the measures themselves. *)
LEMMA TierIs ==
  ASSUME NEW s \in Signals, NEW a \in 1 .. 3, NEW c \in 0 .. 100
  PROVE  Tier(s, a, c) =
           IF s.meta = "error" THEN 1
           ELSE IF s.peers = "active" \/ s.useful THEN IF c >= 70 THEN 4 ELSE 3
           ELSE IF /\ a = 3 /\ c <= 35
                   /\ \/ s.meta # "ready"
                      \/ s.peers = "none" /\ s.trackers \in {"none", "appended"}
                THEN 1
           ELSE IF \/ s.meta # "ready" /\ a > 1
                   \/ s.peers = "none"
                   \/ s.trackers = "none"
                THEN 2 ELSE 3
<1> DEFINE ev == Evidences(s, a)
<1>1. /\ "metadata_timeout" \in ev <=> (s.meta # "ready" /\ a > 1)
      /\ "tracker_failed" \in ev <=>
           (s.trackers = "none" \/ (s.trackers = "appended" /\ s.peers = "none" /\ a > 1))
      /\ "dht_no_peers" \in ev <=> s.peers = "none"
      /\ "no_useful_data" \in ev <=> (s.peers = "active" /\ ~s.useful)
  BY EvidenceIs
<1>2. Hopeless(ev) <=> \/ "metadata_timeout" \in ev
                       \/ "dht_no_peers" \in ev /\ ("tracker_failed" \in ev \/ "no_useful_data" \in ev)
  BY DEF Hopeless
<1>3. {"metadata_timeout", "dht_no_peers", "tracker_failed"} \cap ev # {} <=>
        "metadata_timeout" \in ev \/ "dht_no_peers" \in ev \/ "tracker_failed" \in ev
  OBVIOUS
<1>4. Alive(s) <=> s.peers = "active" \/ s.useful
  BY DEF Alive
<1>5. Tier(s, a, c) =
        CASE s.meta = "error" -> 1
          [] s.meta # "error" /\ Alive(s) /\ c >= 70 -> 4
          [] s.meta # "error" /\ Alive(s) /\ c < 70 -> 3
          [] OTHER -> IF a = 3 /\ c <= 35 /\ Hopeless(ev) THEN 1
                      ELSE IF {"metadata_timeout", "dht_no_peers", "tracker_failed"} \cap ev # {}
                           THEN 2 ELSE 3
  BY DEF Tier
<1> HIDE DEF ev
<1> QED
  BY <1>1, <1>2, <1>3, <1>4, <1>5 DEF Signals

Ranges == {"never", "recent", "old"}

(* The tier that is shown, as a function of the measures. *)
TierOf(s, a, r, n) == Tier(s, a, Confidence(s, a, r, n))

LEMMA TierOfIs ==
  ASSUME NEW s \in Signals, NEW a \in 1 .. 3, NEW r, NEW n \in BOOLEAN
  PROVE  TierOf(s, a, r, n) =
           IF s.meta = "error" THEN 1
           ELSE IF s.peers = "active" \/ s.useful
                THEN IF Score(s, a, r, n) >= 70 THEN 4 ELSE 3
           ELSE IF /\ a = 3 /\ Score(s, a, r, n) <= 35
                   /\ \/ s.meta # "ready"
                      \/ s.peers = "none" /\ s.trackers \in {"none", "appended"}
                THEN 1
           ELSE IF \/ s.meta # "ready" /\ a > 1
                   \/ s.peers = "none"
                   \/ s.trackers = "none"
                THEN 2 ELSE 3
BY ConfidenceType, TierIs DEF TierOf

(***************************************************************************)
(* What is measured better gives no lower tier: the one measure that       *)
(* lowers the score, a first active peer without data, makes the session   *)
(* alive, which weighs more.                                               *)
(***************************************************************************)
LEMMA BetterTier ==
  ASSUME NEW s \in Signals, NEW t \in Signals, NEW a \in 1 .. 3, NEW r,
         NEW n \in BOOLEAN, NEW m \in BOOLEAN, NoWorse(s, t), n => m
  PROVE  TierOf(s, a, r, n) <= TierOf(t, a, r, m)
<1>1. CASE s.meta = "error"
  BY <1>1, TierOfIs
<1>2. CASE s.meta # "error"
  <2>1. t.meta # "error" /\ (s.meta = "ready" => t.meta = "ready")
    BY <1>2 DEF NoWorse, Signals
  <2>2. CASE s.peers = "active" \/ s.useful
    <3>1. t.peers = "active" \/ t.useful
      BY <2>2 DEF NoWorse, Signals
    <3>2. Score(s, a, r, n) >= 70 => Score(t, a, r, m) >= 70
      BY <1>2, <2>1, <2>2 DEF NoWorse, Signals, Score, If
    <3> QED
      BY <1>2, <2>1, <2>2, <3>1, <3>2, TierOfIs
  <2>3. CASE ~(s.peers = "active" \/ s.useful) /\ (t.peers = "active" \/ t.useful)
    BY <1>2, <2>1, <2>3, TierOfIs
  <2>4. CASE ~(s.peers = "active" \/ s.useful) /\ ~(t.peers = "active" \/ t.useful)
    <3>1. Score(s, a, r, n) <= Score(t, a, r, m)
      BY <1>2, <2>1, <2>4 DEF NoWorse, Signals, Score, If
    <3>2. Score(s, a, r, n) \in Int /\ Score(t, a, r, m) \in Int
      BY ScoreType
    <3> QED
      BY <1>2, <2>1, <2>4, <3>1, <3>2, TierOfIs DEF NoWorse, Signals
  <2> QED
    BY <2>2, <2>3, <2>4
<1> QED
  BY <1>1, <1>2

(* Time only takes: the same measures, later, give no higher tier. *)
LEMMA OlderTier ==
  ASSUME NEW s \in Signals, NEW a \in 1 .. 3, NEW b \in 1 .. 3, a <= b,
         NEW r \in Ranges, NEW q \in Ranges, q = r \/ (r = "recent" /\ q = "old"),
         NEW n \in BOOLEAN
  PROVE  TierOf(s, b, q, n) <= TierOf(s, a, r, n)
<1>1. Score(s, b, q, n) <= Score(s, a, r, n)
  BY DEF Score, If, Ranges
<1>2. Score(s, b, q, n) \in Int /\ Score(s, a, r, n) \in Int
  BY ScoreType
<1> QED
  BY <1>1, <1>2, TierOfIs

-----------------------------------------------------------------------------
(* The report is the diagnosis of what is measured now, made at an age and *)
(* with a Range request that may have become older since.                  *)
ReportOf(a, r) ==
  /\ a \in 1 .. age
  /\ r \in Ranges /\ (range = r \/ (r = "recent" /\ range = "old"))
  /\ report = Diagnosis(signal, a, r, streams)

HealthInv ==
  /\ signal \in Signals /\ age \in 1 .. 3 /\ range \in Ranges /\ streams \in BOOLEAN
  /\ \E a \in 1 .. 3, r \in Ranges : ReportOf(a, r)

LEMMA DiagnosisIs ==
  ASSUME NEW s \in Signals, NEW a \in 1 .. 3, NEW r \in Ranges, NEW n \in BOOLEAN
  PROVE  LET d == Diagnosis(s, a, r, n)
         IN  /\ d \in Reports
             /\ d.tier = TierOf(s, a, r, n)
             /\ d.status = "STALLED" => d.tier <= 2 /\ s.peers # "active" /\ ~s.useful
<1> DEFINE d == Diagnosis(s, a, r, n)
           dead == DeadState(s, a, r, n, d.tier)
<1>1. /\ d = [tier |-> d.tier, confidence |-> Confidence(s, a, r, n), dead |-> dead,
               status |-> StatusShown(s, n, dead)]
      /\ d.tier = TierOf(s, a, r, n)
  BY DEF Diagnosis, TierOf
<1>2. d.tier \in 1 .. 4
  BY <1>1, TierOfIs
<1>3. dead \in DeadStates
  BY DEF DeadState, DeadStates
<1>4. d \in Reports
  <2>1. StatusShown(s, n, dead) \in Statuses
    BY DEF StatusShown, Statuses, Signals
  <2>2. Confidence(s, a, r, n) \in 0 .. 100
    BY ConfidenceType
  <2> HIDE DEF d, dead
  <2> QED
    BY <1>1, <1>2, <1>3, <2>1, <2>2 DEF Reports
<1>5. ASSUME d.status = "STALLED"
      PROVE  d.tier <= 2 /\ s.peers # "active" /\ ~s.useful
  <2>1. StatusShown(s, n, dead) = "STALLED"
    BY <1>1, <1>5
  <2>2. s.meta = "ready" /\ dead \in {"NO_PEERS", "NO_USEFUL_TRANSFER"}
    BY <2>1 DEF StatusShown, Signals
  <2>3. d.tier # 4 /\ (d.tier = 3 => ~(n \/ r # "old") /\ ~(~n /\ r = "old"))
    BY <2>2 DEF DeadState
  <2>4. d.tier <= 2
    BY <1>2, <2>3
  <2> QED
    BY <1>1, <2>2, <2>4, TierOfIs
<1> QED
  BY <1>1, <1>4, <1>5

LEMMA InitHealth == HealthInit => HealthInv
<1> SUFFICES ASSUME HealthInit PROVE HealthInv
  OBVIOUS
<1>1. signal \in Signals /\ age \in 1 .. 3 /\ range \in Ranges /\ streams \in BOOLEAN
  BY DEF HealthInit, FirstSignal, Signals, Ranges
<1>2. ReportOf(age, range)
  BY <1>1 DEF HealthInit, ReportOf
<1> QED
  BY <1>1, <1>2 DEF HealthInv

(* Every step but the passing of time makes a new report. *)
LEMMA StepReports ==
  ASSUME HealthInv, Tick \/ StreamOpens \/ StreamCloses \/ RangeRequest \/ NewRuntime
  PROVE  /\ signal' \in Signals /\ age' = age /\ range' \in Ranges /\ streams' \in BOOLEAN
         /\ report' = Diagnosis(signal', age, range', streams')
<1>1. CASE RangeRequest
  BY <1>1 DEF RangeRequest, HealthInv, Ranges
<1>2. ASSUME NEW s \in Signals, NEW n \in BOOLEAN, Show(s, n)
      PROVE  /\ signal' \in Signals /\ age' = age /\ range' \in Ranges /\ streams' \in BOOLEAN
             /\ report' = Diagnosis(signal', age, range', streams')
             /\ range' = range
  BY <1>2 DEF Show, HealthInv
<1>3. CASE Tick
  BY <1>2, <1>3 DEF Tick, HealthInv
<1>4. CASE StreamOpens
  BY <1>2, <1>4 DEF StreamOpens, HealthInv
<1>5. CASE StreamCloses
  BY <1>2, <1>5 DEF StreamCloses, HealthInv
<1>6. CASE NewRuntime
  <2>1. signal' \in Signals
    BY <1>6 DEF NewRuntime, HealthInv, Signals
  <2> QED
    BY <1>6, <2>1 DEF NewRuntime, HealthInv, Ranges
<1> QED
  BY <1>1, <1>3, <1>4, <1>5, <1>6

LEMMA StepHealth ==
  ASSUME HealthInv, [HealthNext]_healthVars
  PROVE  HealthInv'
<1>1. CASE Tick \/ StreamOpens \/ StreamCloses \/ RangeRequest \/ NewRuntime
  <2>1. ReportOf(age, range)'
    BY <1>1, StepReports DEF ReportOf, HealthInv
  <2>2. signal' \in Signals /\ age' \in 1 .. 3 /\ range' \in Ranges /\ streams' \in BOOLEAN
    BY <1>1, StepReports DEF HealthInv
  <2> QED
    BY <2>1, <2>2 DEF HealthInv
<1>2. CASE TimePasses \/ UNCHANGED healthVars
  <2>1. /\ signal' = signal /\ streams' = streams /\ report' = report
        /\ age' \in 1 .. 3 /\ age <= age'
        /\ range' \in Ranges /\ (range' = range \/ (range = "recent" /\ range' = "old"))
    BY <1>2 DEF TimePasses, healthVars, HealthInv, Ranges
  <2>2. PICK a \in 1 .. 3, r \in Ranges : ReportOf(a, r)
    BY DEF HealthInv
  <2>3. ReportOf(a, r)'
    BY <2>1, <2>2 DEF ReportOf, HealthInv
  <2> QED
    BY <2>1, <2>3 DEF HealthInv
<1> QED
  BY <1>1, <1>2 DEF HealthNext

LEMMA HealthFacts == HealthInv => HealthTypeOK /\ StalledIsIdle
<1> SUFFICES ASSUME HealthInv PROVE HealthTypeOK /\ StalledIsIdle
  OBVIOUS
<1>1. PICK a \in 1 .. 3, r \in Ranges : ReportOf(a, r)
  BY DEF HealthInv
<1>2. report = Diagnosis(signal, a, r, streams)
  BY <1>1 DEF ReportOf
<1>3. report \in Reports /\ StalledIsIdle
  BY <1>2, DiagnosisIs DEF HealthInv, StalledIsIdle
<1> QED
  BY <1>3 DEF HealthInv, HealthTypeOK, Ranges

(***************************************************************************)
(* Whatever is measured, the confidence is one of 0 .. 100 and the tier,   *)
(* the dead state and the status are ones the page knows.                  *)
(***************************************************************************)
THEOREM HealthTypes == HealthSpec => []HealthTypeOK
  BY InitHealth, StepHealth, HealthFacts, PTL DEF HealthSpec

(***************************************************************************)
(* A session is shown as stalled only while nothing useful arrives and no  *)
(* peer is active: the dead state that would say otherwise,                *)
(* NO_USEFUL_TRANSFER, needs an active peer and a tier that excludes one.  *)
(***************************************************************************)
THEOREM StalledSessionsIdle == HealthSpec => []StalledIsIdle
  BY InitHealth, StepHealth, HealthFacts, PTL DEF HealthSpec

(***************************************************************************)
(* What is measured better never shows a lower tier.                       *)
(***************************************************************************)
THEOREM BetterIsNoLower == HealthSpec => BetterNeverLowers
<1>1. ASSUME HealthInv, [HealthNext]_healthVars
      PROVE  [NoWorse(signal, signal') /\ (streams => streams') /\ UNCHANGED <<age, range>>
                => report'.tier >= Diagnosis(signal, age, range, streams).tier]_healthVars
  <2> SUFFICES ASSUME HealthNext, NoWorse(signal, signal'), streams => streams',
                      UNCHANGED <<age, range>>
               PROVE  report'.tier >= Diagnosis(signal, age, range, streams).tier
    BY <1>1
  <2>1. ~TimePasses
    BY <1>1 DEF TimePasses, HealthInv
  <2>2. signal' \in Signals /\ streams' \in BOOLEAN /\ report' = Diagnosis(signal', age, range, streams')
    BY <1>1, <2>1, StepReports DEF HealthNext
  <2>3. /\ report'.tier = TierOf(signal', age, range, streams')
        /\ Diagnosis(signal, age, range, streams).tier = TierOf(signal, age, range, streams)
    BY <1>1, <2>2, DiagnosisIs DEF HealthInv
  <2>4. TierOf(signal, age, range, streams) <= TierOf(signal', age, range, streams')
    BY <1>1, <2>2, BetterTier DEF HealthInv
  <2>5. TierOf(signal, age, range, streams) \in Int /\ TierOf(signal', age, range, streams') \in Int
    BY <1>1, <2>2, TierOfIs DEF HealthInv
  <2> QED
    BY <2>3, <2>4, <2>5
<1> QED
  BY <1>1, InitHealth, StepHealth, PTL DEF HealthSpec, BetterNeverLowers

(***************************************************************************)
(* Waiting alone never raises the tier.                                    *)
(***************************************************************************)
THEOREM AgeingIsNoHigher == HealthSpec => AgeingNeverRaises
<1>1. ASSUME HealthInv, [HealthNext]_healthVars
      PROVE  [signal' = signal /\ streams' = streams /\ range' = range
                => report'.tier <= report.tier]_healthVars
  <2> SUFFICES ASSUME HealthNext, signal' = signal, streams' = streams, range' = range
               PROVE  report'.tier <= report.tier
    BY <1>1
  <2>1. PICK a \in 1 .. 3, r \in Ranges : ReportOf(a, r)
    BY <1>1 DEF HealthInv
  <2>2. report.tier = TierOf(signal, a, r, streams) /\ a <= age
        /\ (range = r \/ (r = "recent" /\ range = "old"))
    BY <1>1, <2>1, DiagnosisIs DEF HealthInv, ReportOf
  <2>3. TierOf(signal, age, range, streams) <= TierOf(signal, a, r, streams)
    BY <1>1, <2>2, OlderTier DEF HealthInv
  <2>4. TierOf(signal, a, r, streams) \in Int
    BY <1>1, TierOfIs DEF HealthInv
  <2>5. CASE TimePasses
    BY <2>2, <2>4, <2>5 DEF TimePasses
  <2>6. CASE ~TimePasses
    <3>1. report' = Diagnosis(signal, age, range, streams)
      BY <1>1, <2>6, StepReports DEF HealthNext
    <3>2. report'.tier = TierOf(signal, age, range, streams)
      BY <1>1, <3>1, DiagnosisIs DEF HealthInv
    <3> QED
      BY <2>2, <2>3, <3>2
  <2> QED
    BY <2>5, <2>6
<1> QED
  BY <1>1, InitHealth, StepHealth, PTL DEF HealthSpec, AgeingNeverRaises
=============================================================================
