----------------------------- MODULE SettingsProofs -----------------------------
(***************************************************************************)
(* Proofs about Settings: for every set of requests, any environment and   *)
(* any number of updates in progress.                                      *)
(***************************************************************************)
EXTENDS Settings, TLAPS

(* The fields normalizeSettings rewrites, and those it leaves alone. *)
LEMMA NormalizeFields ==
  ASSUME NEW s \in RawSettings
  PROVE  LET n == Normalize(s)
             usable == s.trackers \cap TrackerURLs
             min == Positive(s.min, DefaultMin)
             max == Positive(s.max, DefaultMax)
         IN  /\ n.dirs = s.dirs /\ n.proxy = s.proxy /\ n.dl = s.dl /\ n.append = s.append
             /\ n.ul = Positive(s.ul, MinUpload)
             /\ n.min = min
             /\ n.max = IF max < min THEN min ELSE max
             /\ n.pieces = Positive(s.pieces, DefaultPieces)
             /\ n.trackers = IF usable = {} THEN FallbackTrackers ELSE usable
BY Zenon DEF RawSettings, Normalize

LEMMA PositiveType ==
  ASSUME NEW k \in Int, NEW d \in Nat \ {0}
  PROVE  Positive(k, d) \in Nat \ {0} /\ (k > 0 => Positive(k, d) = k)
BY DEF Positive

(* normalizeSettings gives settings of the right type, whatever it is given. *)
LEMMA NormalizeType ==
  ASSUME NEW s \in RawSettings
  PROVE  Normalize(s) \in RawSettings
<1> DEFINE min == Positive(s.min, DefaultMin)
           max == Positive(s.max, DefaultMax)
           top == IF max < min THEN min ELSE max
           usable == s.trackers \cap TrackerURLs
           kept == IF usable = {} THEN FallbackTrackers ELSE usable
<1>1. /\ Positive(s.ul, MinUpload) \in Int /\ Positive(s.pieces, DefaultPieces) \in Int
      /\ min \in Int /\ max \in Int
  BY PositiveType, SizesType DEF RawSettings
<1>2. top \in Int
  BY <1>1
<1>3. kept \in SUBSET STRING
  BY TrackersType
<1>4. Normalize(s) = [s EXCEPT !.ul = Positive(s.ul, MinUpload), !.min = min, !.max = top,
                               !.pieces = Positive(s.pieces, DefaultPieces),
                               !.trackers = kept]
  BY DEF Normalize
<1> HIDE DEF min, top, kept
<1> QED
  BY <1>1, <1>2, <1>3, <1>4 DEF RawSettings

(* What is normalized once is left alone by the load of the next start. *)
LEMMA NormalizeTwice ==
  ASSUME NEW s \in RawSettings
  PROVE  Normalize(Normalize(s)) = Normalize(s)
<1> DEFINE n == Normalize(s)
           m == Normalize(n)
<1>1. n \in RawSettings
  BY NormalizeType
<1>2. /\ n.ul > 0 /\ n.min > 0 /\ n.max > 0 /\ n.max >= n.min /\ n.pieces > 0
      /\ n.trackers # {} /\ n.trackers \subseteq TrackerURLs
  <2>1. /\ n.ul = Positive(s.ul, MinUpload) /\ n.min = Positive(s.min, DefaultMin)
        /\ n.pieces = Positive(s.pieces, DefaultPieces)
        /\ n.max = IF Positive(s.max, DefaultMax) < Positive(s.min, DefaultMin)
                   THEN Positive(s.min, DefaultMin) ELSE Positive(s.max, DefaultMax)
    BY NormalizeFields
  <2>2. n.trackers # {} /\ n.trackers \subseteq TrackerURLs
    BY NormalizeFields, TrackersType
  <2>3. /\ Positive(s.ul, MinUpload) \in Nat \ {0} /\ Positive(s.min, DefaultMin) \in Nat \ {0}
        /\ Positive(s.pieces, DefaultPieces) \in Nat \ {0}
        /\ Positive(s.max, DefaultMax) \in Nat \ {0}
    BY PositiveType, SizesType DEF RawSettings
  <2> HIDE DEF n
  <2> QED
    BY <2>1, <2>2, <2>3
<1> HIDE DEF n
<1>3. m \in RawSettings
  BY <1>1, NormalizeType
<1>4. n.trackers \cap TrackerURLs = n.trackers
  BY <1>2
<1>5. /\ m.dirs = n.dirs /\ m.proxy = n.proxy /\ m.dl = n.dl /\ m.append = n.append
      /\ m.ul = Positive(n.ul, MinUpload) /\ m.min = Positive(n.min, DefaultMin)
      /\ m.pieces = Positive(n.pieces, DefaultPieces)
      /\ m.max = IF Positive(n.max, DefaultMax) < Positive(n.min, DefaultMin)
                 THEN Positive(n.min, DefaultMin) ELSE Positive(n.max, DefaultMax)
  BY <1>1, NormalizeFields
<1>6. m.trackers = n.trackers
  BY <1>1, <1>2, <1>4, NormalizeFields
<1> HIDE DEF m
<1>7. m.ul = n.ul /\ m.min = n.min /\ m.max = n.max /\ m.pieces = n.pieces
  BY <1>1, <1>2, <1>5 DEF RawSettings, Positive
<1>8. m = n
  BY <1>1, <1>3, <1>5, <1>6, <1>7 DEF RawSettings
<1> QED
  BY <1>8 DEF m, n

LEMMA NormalizedUsable ==
  ASSUME NEW s \in RawSettings, Valid(Normalize(s))
  PROVE  Normalize(s) \in Usable
BY NormalizeType, NormalizeTwice DEF Usable

LEMMA DefaultsUsable == Normalize(Defaults) \in Usable
BY NormalizedUsable, RequestsType, DefaultsValid

(* A start never finds settings it cannot work with. *)
LEMMA LoadedUsable ==
  ASSUME NEW f \in Files
  PROVE  Loaded(f) \in Usable
BY DefaultsUsable, NormalizedUsable DEF Loaded, Files, Usable

LEMMA LimitType ==
  ASSUME NEW s \in Usable, NEW w \in {"dl", "ul"}
  PROVE  LimitOf(s, w) \in Nat /\ (w = "ul" => LimitOf(s, w) > 0)
BY SizesType DEF Usable, RawSettings, Valid, LimitOf

-----------------------------------------------------------------------------
(* Types.                                                                  *)

LEMMA UnreadableType ==
  ASSUME NEW k \in {"missing", "blank", "torn"}
  PROVE  Unreadable(k) \in Files
BY DefaultsUsable DEF Unreadable, Files

LEMMA NoJobType == NoJob \in Jobs
BY DefaultsUsable DEF NoJob, Jobs

LEMMA InitTypeOK == Init => TypeOK
<1> SUFFICES ASSUME Init PROVE TypeOK
  OBVIOUS
<1>1. file \in Files /\ memory \in Usable /\ manager \in Usable
  BY UnreadableType, DefaultsUsable DEF Init
<1>2. job \in [Updaters -> Jobs]
  BY NoJobType DEF Init
<1>3. limiter \in [{"dl", "ul"} -> {"none", "client", "other"}]
  BY DEF Init, BuiltLimiter
<1>4. inForce \in [{"dl", "ul"} -> Nat]
  BY LimitType, DefaultsUsable DEF Init
<1> QED
  BY <1>1, <1>2, <1>3, <1>4 DEF TypeOK

LEMMA GotoType ==
  ASSUME job \in [Updaters -> Jobs], NEW u \in Updaters,
         NEW at \in {"idle", "open", "write", "store", "apply"}, Goto(u, at)
  PROVE  job' \in [Updaters -> Jobs]
BY DEF Goto, Jobs

LEMMA NextTypeOK == TypeOK /\ [Next]_vars => TypeOK'
<1> SUFFICES ASSUME TypeOK, [Next]_vars PROVE TypeOK'
  OBVIOUS
<1> USE DEF TypeOK
<1>1. CASE UNCHANGED vars
  BY <1>1 DEF vars
<1>2. ASSUME NEW u \in Updaters, NEW r \in Requests, UpdateSettings(u, r)
      PROVE  TypeOK'
  <2>1. Normalize(r) \in Usable
    BY <1>2, NormalizedUsable, RequestsType DEF UpdateSettings
  <2>2. job' \in [Updaters -> Jobs]
    BY <1>2, <2>1 DEF UpdateSettings, Begun, Jobs, Busy
  <2> QED
    BY <1>2, <2>2 DEF UpdateSettings
<1>3. ASSUME NEW u \in Updaters, Truncate(u)
      PROVE  TypeOK'
  BY <1>3, UnreadableType, GotoType DEF Truncate
<1>4. ASSUME NEW u \in Updaters, WriteDone(u)
      PROVE  TypeOK'
  <2>1. job[u].new \in Usable
    BY DEF Jobs
  <2>2. file' \in Files
    BY <1>4, <2>1, UnreadableType DEF WriteDone, Files
  <2> QED
    BY <1>4, <2>2, GotoType DEF WriteDone
<1>5. ASSUME NEW u \in Updaters, OpenFails(u) \/ WriteFails(u)
      PROVE  TypeOK'
  <2>1. file' \in Files
    BY <1>5, UnreadableType DEF OpenFails, WriteFails
  <2>2. job' \in [Updaters -> Jobs]
    BY <1>5, NoJobType DEF OpenFails, WriteFails, Return
  <2> QED
    BY <1>5, <2>1, <2>2 DEF OpenFails, WriteFails
<1>6. ASSUME NEW u \in Updaters, StoreMemory(u)
      PROVE  TypeOK'
  <2>1. memory' \in Usable
    BY <1>6 DEF StoreMemory, Jobs
  <2> QED
    BY <1>6, <2>1, GotoType DEF StoreMemory
<1>7. ASSUME NEW u \in Updaters, ApplySettings(u)
      PROVE  TypeOK'
  <2>1. job[u].new \in Usable
    BY DEF Jobs
  <2>2. limiter' \in [{"dl", "ul"} -> {"none", "client", "other"}]
    <3>1. ASSUME NEW w \in {"dl", "ul"}
          PROVE  ResetLimiter(w, LimitOf(job[u].new, w)) \in {"none", "client", "other"}
      BY <2>1, LimitType DEF ResetLimiter
    <3> QED
      BY <1>7, <3>1 DEF ApplySettings
  <2>3. inForce' \in [{"dl", "ul"} -> Nat]
    BY <1>7, <2>1, LimitType DEF ApplySettings
  <2>4. job' \in [Updaters -> Jobs]
    BY <1>7, NoJobType DEF ApplySettings, Return
  <2> QED
    BY <1>7, <2>1, <2>2, <2>3, <2>4 DEF ApplySettings
<1>8. CASE Restart
  <2>1. Loaded(file) \in Usable
    BY LoadedUsable
  <2>2. job' \in [Updaters -> Jobs]
    BY <1>8, NoJobType DEF Restart, Start
  <2>3. limiter' \in [{"dl", "ul"} -> {"none", "client", "other"}]
    BY <1>8 DEF Restart, Start, BuiltLimiter
  <2>4. inForce' \in [{"dl", "ul"} -> Nat]
    BY <1>8, <2>1, LimitType DEF Restart, Start
  <2> QED
    BY <1>8, <2>1, <2>2, <2>3, <2>4 DEF Restart, Start
<1> QED
  BY <1>1, <1>2, <1>3, <1>4, <1>5, <1>6, <1>7, <1>8 DEF Next

(***************************************************************************)
(* Type correctness; in particular the manager never works with settings   *)
(* the priority window cannot take (a readahead range that is empty, a     *)
(* size that is not positive).                                             *)
(***************************************************************************)
THEOREM TypeCorrect == Spec => []TypeOK
BY InitTypeOK, NextTypeOK, PTL DEF Spec

-----------------------------------------------------------------------------
(* A lone update.                                                          *)

(* What was accepted and written whole is what a start loads. *)
LEMMA LoadedWhole ==
  ASSUME NEW s \in Usable
  PROVE  Loaded([is |-> "whole", has |-> s]) = s
BY DEF Loaded, Usable

LEMMA InitLoneInv == Init => LoneInv
BY DEF Init, LoneInv, NoJob

LEMMA NextLoneInv == TypeOK /\ LoneInv /\ [Next]_vars => LoneInv'
<1> SUFFICES ASSUME TypeOK, LoneInv, [Next]_vars PROVE LoneInv'
  OBVIOUS
<1> USE DEF LoneInv, Busy
<1>1. CASE UNCHANGED vars
  BY <1>1 DEF vars
<1>2. ASSUME NEW u \in Updaters, NEW r \in Requests, UpdateSettings(u, r)
      PROVE  LoneInv'
  <2>1. ASSUME NEW v \in Updaters \ {u}
        PROVE  job'[v] = [job[v] EXCEPT !.alone = FALSE]
    BY <1>2 DEF UpdateSettings, Begun
  <2>2. ASSUME NEW v \in Updaters \ {u}
        PROVE  ~job'[v].alone /\ job'[v].at = job[v].at
    <3>1. job[v] \in Jobs
      BY DEF TypeOK
    <3>2. job'[v] = [job[v] EXCEPT !.alone = FALSE]
      BY <2>1
    <3> QED
      BY <3>1, <3>2 DEF Jobs
  <2>3. job'[u] = [at |-> "open", new |-> Normalize(r),
                   alone |-> \A w \in Updaters \ {u} : ~Busy(w)]
    BY <1>2 DEF UpdateSettings, Begun
  <2>4. /\ job'[u].at = "open"
        /\ job'[u].alone => \A w \in Updaters \ {u} : job[w].at = "idle"
    BY <2>3
  <2> QED
    BY <2>2, <2>4
<1>3. ASSUME NEW u \in Updaters, Truncate(u)
      PROVE  LoneInv'
  BY <1>3 DEF Truncate, Goto, TypeOK, Jobs, Unreadable
<1>4. ASSUME NEW u \in Updaters, WriteDone(u)
      PROVE  LoneInv'
  <2>1. job[u].alone => Loaded(file') = job[u].new
    BY <1>4, LoadedWhole DEF WriteDone, TypeOK, Jobs
  <2> QED
    BY <1>4, <2>1 DEF WriteDone, Goto, TypeOK, Jobs
<1>5. ASSUME NEW u \in Updaters, OpenFails(u) \/ WriteFails(u)
      PROVE  LoneInv'
  BY <1>5 DEF OpenFails, WriteFails, Return, NoJob, TypeOK, Jobs
<1>6. ASSUME NEW u \in Updaters, StoreMemory(u)
      PROVE  LoneInv'
  BY <1>6 DEF StoreMemory, Goto, TypeOK, Jobs
<1>7. ASSUME NEW u \in Updaters, ApplySettings(u)
      PROVE  LoneInv'
  BY <1>7 DEF ApplySettings, Return, NoJob, TypeOK, Jobs
<1>8. CASE Restart
  BY <1>8 DEF Restart, Start, NoJob
<1> QED
  BY <1>1, <1>2, <1>3, <1>4, <1>5, <1>6, <1>7, <1>8 DEF Next

(***************************************************************************)
(* An update that nothing overlaps leaves the memory, the manager and what *)
(* a restart would load alike, whatever failed or overlapped before it.    *)
(***************************************************************************)
THEOREM LoneUpdates == Spec => LoneUpdateAgrees
<1>1. TypeOK /\ LoneInv /\ [Next]_vars =>
        [\A u \in Updaters :
           ApplySettings(u) /\ job[u].alone =>
             memory' = manager' /\ Loaded(file') = manager']_vars
  BY DEF LoneInv, ApplySettings
<1> QED
  BY <1>1, InitTypeOK, NextTypeOK, InitLoneInv, NextLoneInv, PTL DEF Spec, LoneUpdateAgrees

-----------------------------------------------------------------------------
(* The limits.                                                             *)

LEMMA InitLimits == Init => LimitsInForce
BY LimitType, DefaultsUsable DEF Init, LimitsInForce, BuiltLimiter, LimitOf

LEMMA NextLimits == TypeOK /\ LimitsInForce /\ [Next]_vars => LimitsInForce'
<1> SUFFICES ASSUME TypeOK, LimitsInForce, [Next]_vars PROVE LimitsInForce'
  OBVIOUS
<1> USE DEF LimitsInForce
<1>1. ASSUME NEW u \in Updaters, ApplySettings(u)
      PROVE  LimitsInForce'
  <2>1. LimitOf(job[u].new, "ul") > 0 /\ LimitOf(job[u].new, "ul") \in Nat
    BY LimitType DEF TypeOK, Jobs
  <2>2. /\ manager' = job[u].new
        /\ \A w \in {"dl", "ul"} :
             /\ limiter'[w] = ResetLimiter(w, LimitOf(job[u].new, w))
             /\ inForce'[w] = IF limiter'[w] = "client" THEN LimitOf(job[u].new, w)
                             ELSE inForce[w]
    BY <1>1 DEF ApplySettings
  <2>3. limiter'["ul"] = "client" /\ inForce'["ul"] = manager'.ul
    BY <2>1, <2>2 DEF ResetLimiter, LimitOf
  <2>4. limiter'["dl"] = "client" => inForce'["dl"] = manager'.dl
    BY <2>2 DEF LimitOf
  <2> QED
    BY <2>3, <2>4
<1>2. CASE Restart
  <2>1. LimitOf(Loaded(file), "ul") > 0 /\ LimitOf(Loaded(file), "ul") \in Nat
    BY LimitType, LoadedUsable DEF TypeOK
  <2> QED
    BY <1>2, <2>1 DEF Restart, Start, BuiltLimiter, LimitOf
<1>3. CASE UNCHANGED <<manager, limiter, inForce>>
  BY <1>3
<1> QED
  BY <1>1, <1>2, <1>3
     DEF Next, vars, UpdateSettings, Truncate, WriteDone, OpenFails, WriteFails, StoreMemory

(***************************************************************************)
(* Every applied upload limit reaches the client, and every applied        *)
(* download limit does as long as the manager's limiter is the client's.   *)
(***************************************************************************)
THEOREM LimitsReachClient == Spec => []LimitsInForce
BY InitTypeOK, NextTypeOK, InitLimits, NextLimits, PTL DEF Spec
=============================================================================
