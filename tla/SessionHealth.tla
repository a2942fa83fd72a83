----------------------------- MODULE SessionHealth -----------------------------
(***************************************************************************)
(* The diagnosis of a session (session_state_machine.go): the tier and the *)
(* confidence that refreshSessionHealthReport makes of what a tick of      *)
(* refreshMetrics has measured, of the age of the session and of its last  *)
(* Range request, and the status that is shown with them.                  *)
(***************************************************************************)
EXTENDS Integers

VARIABLES
  signal,     \* what refreshMetrics measures
  age,        \* of the session: its health window
  range,      \* the last Range request: none yet, within ten seconds, older
  streams,    \* whether a stream is open
  report      \* what the last tick has made of it

healthVars == <<signal, age, range, streams, report>>

Windows == <<"FAST", "STANDARD", "DEEP">>

(***************************************************************************)
(* "appended" trackers only add to those there are.  UDP is "blocked" when *)
(* there is no peer (classifyUDPReachable), so it needs no field.          *)
(***************************************************************************)
Signals == [meta : {"pending", "ready", "error"}, trackers : {"none", "own", "appended"},
            peers : {"none", "idle", "active"}, dht : BOOLEAN, useful : BOOLEAN,
            paused : BOOLEAN, complete : BOOLEAN]

Codes == {"metadata_timeout", "tracker_failed", "dht_no_peers", "no_useful_data",
          "runtime_error"}
Tiers == <<"HIGH_UNAVAILABLE", "NO_RESOURCE", "WEAK_AVAILABLE", "HIGH_AVAILABLE">>
DeadStates == {"ALIVE", "NO_PEERS", "NO_USEFUL_TRANSFER", "WAITING_RANGE", "METADATA_STUCK"}
Statuses == {"ERROR", "WAITING_METADATA", "STREAMING", "STALLED", "COMPLETED", "READY",
             "DOWNLOADING"}

Reports == [tier : 1 .. 4, confidence : 0 .. 100, dead : DeadStates, status : Statuses]

HealthTypeOK ==
  /\ signal \in Signals
  /\ age \in 1 .. 3
  /\ range \in {"never", "recent", "old"}
  /\ streams \in BOOLEAN
  /\ report \in Reports

-----------------------------------------------------------------------------
(* The rules.  "old" is an age of more than 30 seconds, which is where the *)
(* fast window ends and metadata is late.                                  *)

UdpBlocked(s) == s.peers = "none"

MetadataTimeoutEarly(s, a) == s.meta # "ready" /\ a = 1
MetadataTimeout(s, a) == s.meta # "ready" /\ a > 1

TrackerFailed(s, a) ==
  s.trackers = "none" \/ (s.trackers = "appended" /\ s.peers = "none" /\ a > 1)

NoUsefulDataAnyPeer(s) == s.peers = "active"
NoUsefulData(s) == s.peers = "active" /\ ~s.useful

Evidences(s, a) ==
  {c \in Codes : \/ c = "metadata_timeout" /\ MetadataTimeout(s, a)
                 \/ c = "tracker_failed" /\ TrackerFailed(s, a)
                 \/ c = "dht_no_peers" /\ s.peers = "none" /\ (~s.dht \/ UdpBlocked(s))
                 \/ c = "no_useful_data" /\ NoUsefulData(s)
                 \/ c = "runtime_error" /\ s.meta = "error"}

If(condition, n) == IF condition THEN n ELSE 0

Penalty(ev) ==
  If("metadata_timeout" \in ev, 25) + If("tracker_failed" \in ev, 15) +
  If("dht_no_peers" \in ev, 20) + If("no_useful_data" \in ev, 20) +
  If("runtime_error" \in ev, 30)

Floor(a) == CASE a = 1 -> 30 [] a = 2 -> 20 [] a = 3 -> 0

ClampFloor(score, a) == IF score < Floor(a) THEN Floor(a) ELSE score
Clamp(score, a) ==
  IF score < Floor(a) THEN Floor(a) ELSE IF score > 100 THEN 100 ELSE score

Confidence(s, a, r, n) ==
  Clamp(50 + If(s.meta = "ready", 20) + If(s.peers = "active", 15) + If(s.useful, 25)
           + If(n \/ r = "recent", 10) - Penalty(Evidences(s, a)),
        a)

(* classifyAvailabilityTier. *)
AliveWithPeers(s) == s.peers = "active"
Alive(s) == s.peers = "active" \/ s.useful

Hopeless(ev) ==
  \/ "metadata_timeout" \in ev
  \/ "dht_no_peers" \in ev /\ {"tracker_failed", "no_useful_data"} \cap ev # {}

Tier(s, a, confidence) ==
  LET ev == Evidences(s, a) IN
  CASE s.meta = "error"                                       -> 1
    [] s.meta # "error" /\ Alive(s) /\ confidence >= 70     -> 4
    [] s.meta # "error" /\ Alive(s) /\ confidence < 70      -> 3
    [] OTHER ->
         IF a = 3 /\ confidence <= 35 /\ Hopeless(ev) THEN 1
         ELSE IF {"metadata_timeout", "dht_no_peers", "tracker_failed"} \cap ev # {} THEN 2
         ELSE 3

(* applyLegacyHealthState. *)
DeadState(s, a, r, n, tier) ==
  LET ev == Evidences(s, a) IN
  CASE s.meta = "error" \/ (tier = 2 /\ "metadata_timeout" \in ev)         -> "METADATA_STUCK"
    [] tier = 3 /\ ~n /\ r = "old"                                         -> "WAITING_RANGE"
    [] tier = 4 \/ (tier = 3 /\ (n \/ r # "old"))                          -> "ALIVE"
    [] tier = 1 /\ s.meta # "error" /\ "no_useful_data" \in ev             -> "NO_USEFUL_TRANSFER"
    [] OTHER                                                               -> "NO_PEERS"

(* refreshSessionDerivedFields. *)
StatusShown(s, n, dead) ==
  CASE s.meta = "error"   -> "ERROR"
    [] s.meta = "pending" -> "WAITING_METADATA"
    [] s.meta = "ready"   ->
         IF n THEN "STREAMING"
         ELSE IF (dead = "NO_PEERS" /\ s.peers # "active") \/ dead = "NO_USEFUL_TRANSFER"
              THEN "STALLED"
         ELSE IF s.complete THEN "COMPLETED"
         ELSE IF s.paused THEN "READY"
         ELSE "DOWNLOADING"

Diagnosis(s, a, r, n) ==
  LET confidence == Confidence(s, a, r, n)
      tier == Tier(s, a, confidence)
      dead == DeadState(s, a, r, n, tier)
  IN  [tier |-> tier, confidence |-> confidence, dead |-> dead,
       status |-> StatusShown(s, n, dead)]

-----------------------------------------------------------------------------
(* A tick of refreshMetrics, after any of its measures have changed; the   *)
(* streams; and time, which is seen at the next tick.                      *)

FirstSignal == [meta |-> "pending", trackers |-> "none", peers |-> "none", dht |-> FALSE,
                useful |-> FALSE, paused |-> FALSE, complete |-> FALSE]

(* A created session, or one that was loaded from the file of old. *)
HealthInit ==
  /\ signal = FirstSignal
  /\ age \in 1 .. 3
  /\ range \in {"never", "recent", "old"}
  /\ streams = FALSE
  /\ report = Diagnosis(signal, age, range, streams)

Show(s, n) ==
  /\ signal' = s /\ streams' = n
  /\ report' = Diagnosis(s, age, range, n)
  /\ UNCHANGED <<age, range>>

(***************************************************************************)
(* What can be measured together: the file, its bytes and its readers are  *)
(* known once metadata is.  A session may be paused at any time, and the   *)
(* pause closes no stream; only to open one the session must not be paused.*)
(***************************************************************************)
Possible(s, n) == s.complete \/ n => s.meta = "ready"

Tick == \E s \in Signals : Possible(s, streams) /\ Show(s, streams)

StreamOpens == signal.meta = "ready" /\ ~signal.paused /\ Show(signal, TRUE)
StreamCloses == streams /\ Show(signal, FALSE)

(* Requests that are refused are recorded, too. *)
RangeRequest ==
  /\ range' = "recent"
  /\ report' = Diagnosis(signal, age, "recent", streams)
  /\ UNCHANGED <<signal, age, streams>>

(***************************************************************************)
(* After a restart or a stop: what the bootstrap shows, with peers and     *)
(* bytes as they were, and the first tick, which knows of no Range request.*)
(***************************************************************************)
NewRuntime ==
  /\ \E t \in {"none", "own", "appended"} :
       signal' = [signal EXCEPT !.meta = "pending", !.trackers = t, !.dht = FALSE,
                                !.paused = FALSE, !.complete = FALSE]
  /\ streams' = FALSE
  /\ range' \in {range, "never"}
  /\ report' = Diagnosis(signal', age, range', FALSE)
  /\ UNCHANGED age

TimePasses ==
  /\ \/ age < 3 /\ age' = age + 1 /\ UNCHANGED range
     \/ range = "recent" /\ range' = "old" /\ UNCHANGED age
  /\ UNCHANGED <<signal, streams, report>>

HealthNext == Tick \/ StreamOpens \/ StreamCloses \/ RangeRequest \/ NewRuntime \/ TimePasses

HealthSpec == HealthInit /\ [][HealthNext]_healthVars

-----------------------------------------------------------------------------
(* Some measures are better and none is worse; an appended tracker is only *)
(* compared with none.                                                     *)
NoWorse(s, t) ==
  /\ t.meta = s.meta \/ t.meta = "ready" \/ s.meta = "error"
  /\ t.trackers = s.trackers \/ s.trackers = "none" \/ t.trackers = "own"
  /\ t.peers = s.peers \/ s.peers = "none" \/ t.peers = "active"
  /\ s.dht => t.dht
  /\ s.useful => t.useful

(***************************************************************************)
(* Scores, penalties, floors and three orders of tests are mixed (lines    *)
(* 149-238), and a first peer without data even lowers the confidence.     *)
(* Yet what is measured better in some respect and worse in none never     *)
(* shows a lower tier than the measures before would show at that moment.  *)
(***************************************************************************)
BetterNeverLowers ==
  [][NoWorse(signal, signal') /\ (streams => streams') /\ UNCHANGED <<age, range>>
       => report'.tier >= Diagnosis(signal, age, range, streams).tier]_healthVars

(***************************************************************************)
(* Waiting alone never makes a session look better: ticks that measure the *)
(* same later show the same tier or a lower one.                           *)
(***************************************************************************)
AgeingNeverRaises ==
  [][signal' = signal /\ streams' = streams /\ range' = range => report'.tier <= report.tier]_healthVars

(***************************************************************************)
(* A session is shown as stalled only while nothing useful arrives and no  *)
(* peer is active, although its dead state is derived from evidence that   *)
(* looks at other measures (lines 21-40 and 240-285).                      *)
(***************************************************************************)
StalledIsIdle ==
  report.status = "STALLED" => report.tier <= 2 /\ signal.peers # "active" /\ ~signal.useful
=============================================================================
