------------------------- MODULE SessionRuntimeProofs -------------------------
(***************************************************************************)
(* What holds of SessionRuntime for any number of runtimes, calls and      *)
(* streams.                                                                *)
(***************************************************************************)
EXTENDS SessionRuntimeHistory, FiniteSetTheorems, TLAPS

-----------------------------------------------------------------------------
(* The record.                                                             *)

(* What an update must see to before it calls refreshSessionDerivedFields. *)
Consistent(s) ==
  /\ s.err <=> s.meta = "error"
  /\ s.stream = "error" \/ s.dl = "error" => s.err

Coherent(s) ==
  /\ Consistent(s)
  /\ s.err <=> s.status = "error"
  /\ ~s.err => (s.status = "waiting" <=> s.meta # "ready")

(***************************************************************************)
(* refreshSessionDerivedFields derives a status that agrees with the rest  *)
(* from any record whose error and metadata state agree, with any count.   *)
(***************************************************************************)
LEMMA RefreshIsRecord ==
  ASSUME NEW s \in Records, NEW n \in Nat PROVE Refresh(s, n) \in Records
  BY DEF Records, Refresh, StatusOf, StreamOf

LEMMA RefreshIsCoherent ==
  ASSUME NEW s \in Records, NEW n \in Nat, Consistent(s) PROVE Coherent(Refresh(s, n))
<1>1. Refresh(s, n).err = s.err /\ Refresh(s, n).meta = s.meta /\ Refresh(s, n).dl = s.dl
  BY DEF Records, Refresh
<1>2. Refresh(s, n).status = StatusOf(s, n) /\ Refresh(s, n).stream = StreamOf(s, n)
  BY DEF Records, Refresh
<1>3. StatusOf(s, n) = "error" <=> s.err
  BY DEF Records, StatusOf
<1>4. ~s.err => (StatusOf(s, n) = "waiting" <=> s.meta # "ready")
  BY DEF Records, StatusOf
<1>5. StreamOf(s, n) = "error" => s.stream = "error"
  BY DEF Records, StreamOf
<1>6. QED
  BY <1>1, <1>2, <1>3, <1>4, <1>5 DEF Coherent, Consistent

-----------------------------------------------------------------------------
(* The records the updates write are records, and consistent.              *)

Good(s) == s \in Records /\ Consistent(s)

LEMMA CountIsNat == ASSUME TypeOK PROVE RegisteredCount \in Nat
  BY NoRuntimeIsNone DEF TypeOK, RegisteredCount, RuntimeFields

LEMMA GoodRefresh ==
  ASSUME NEW s, Good(s), NEW n \in Nat
  PROVE Refresh(s, n) \in Records /\ Coherent(Refresh(s, n))
  BY RefreshIsRecord, RefreshIsCoherent DEF Good

LEMMA GoodUpdates ==
  ASSUME TypeOK, Good(rec)
  PROVE /\ Good(NewRecord)
        /\ Good([rec EXCEPT !.meta = "error", !.dl = "error", !.stream = "error",
                            !.err = TRUE])
        /\ ~rec.err => Good(Resolving)
        /\ Good([Resolving EXCEPT !.err = FALSE])
        /\ Good([rec EXCEPT !.meta = "ready", !.dl = "downloading",
                            !.stream = "ready", !.err = FALSE])
        /\ \A m \in Snapshots, done \in BOOLEAN : Good(Measured(m, done))
        /\ Good([rec EXCEPT !.stream = "streaming"])
        /\ Good([rec EXCEPT !.stream = ReleasedState])
        /\ Good([rec EXCEPT !.dl = "paused", !.stream = "ready"])
        /\ Good([rec EXCEPT !.dl = IF rec.meta = "ready" THEN "downloading" ELSE rec.dl])
        /\ Good([rec EXCEPT !.stream = "unavailable"])
<1> USE DEF Good, Records, Consistent
<1>1. \A m \in Snapshots, done \in BOOLEAN : Good(Measured(m, done))
  <2> TAKE m \in Snapshots, done \in BOOLEAN
  <2>1. CASE rec.err
    BY <2>1 DEF Measured
  <2>2. CASE ~rec.err
    <3> DEFINE meta == IF m.file THEN "ready" ELSE "resolving"
               stream_ == CASE ~m.file                -> "unavailable"
                            [] m.file /\ m.active > 0 -> "streaming"
                            [] m.file /\ m.active = 0 -> "ready"
    <3>1. DownloadStateOf(m, done) \in {"queued", "downloading", "paused", "completed"}
      BY DEF DownloadStateOf
    <3>2. m.active \in Nat /\ m.file \in BOOLEAN
      BY DEF Snapshots
    <3>3. meta \in {"ready", "resolving"} /\ stream_ \in {"unavailable", "streaming", "ready"}
      BY <3>2
    <3>4. Measured(m, done) = [rec EXCEPT !.meta = meta, !.dl = DownloadStateOf(m, done),
                                          !.stream = stream_]
      BY <2>2 DEF Measured
    <3> HIDE DEF meta, stream_
    <3>5. QED
      BY <2>2, <3>1, <3>3, <3>4
  <2>3. QED
    BY <2>1, <2>2
<1>2. ReleasedState \in {"unavailable", "ready", "error"}
      /\ (ReleasedState = "error" => rec.err)
  BY DEF ReleasedState
<1>3. Good(NewRecord)
  BY DEF NewRecord
<1>4. Good([rec EXCEPT !.meta = "error", !.dl = "error", !.stream = "error", !.err = TRUE])
  OBVIOUS
<1>5. ~rec.err => Good(Resolving)
  BY DEF Resolving
<1>6. Good([Resolving EXCEPT !.err = FALSE])
  BY DEF Resolving
<1>7. Good([rec EXCEPT !.meta = "ready", !.dl = "downloading", !.stream = "ready",
                       !.err = FALSE])
  OBVIOUS
<1>8. Good([rec EXCEPT !.stream = "streaming"])
  OBVIOUS
<1>9. Good([rec EXCEPT !.stream = ReleasedState])
  BY <1>2
<1>10. Good([rec EXCEPT !.dl = "paused", !.stream = "ready"])
  OBVIOUS
<1>11. Good([rec EXCEPT !.dl = IF rec.meta = "ready" THEN "downloading" ELSE rec.dl])
  OBVIOUS
<1>12. Good([rec EXCEPT !.stream = "unavailable"])
  OBVIOUS
<1> HIDE DEF Good, Records, Consistent
<1>13. QED
  BY <1>1, <1>3, <1>4, <1>5, <1>6, <1>7, <1>8, <1>9, <1>10, <1>11, <1>12

GoodRec == rec \in Records /\ Coherent(rec)

(* An update that refreshes a consistent record leaves a coherent one. *)
LEMMA UpdateIsGood ==
  ASSUME GoodRec, NEW s, Good(s), NEW n \in Nat, UpdateRecord(Refresh(s, n))
  PROVE GoodRec'
  BY GoodRefresh DEF GoodRec, UpdateRecord

(***************************************************************************)
(* Every update of the record, whoever makes it and whatever it captured   *)
(* before, leaves the record coherent.                                     *)
(***************************************************************************)
LEMMA RecordStep == ASSUME TypeOK, GoodRec, [Next]_vars PROVE GoodRec'
<1> USE GoodUpdates, CountIsNat, UpdateIsGood
<1>0. Good(rec)
  BY DEF GoodRec, Good, Coherent
<1>1. ASSUME NEW r \in Runtimes, NEW saved \in BOOLEAN, CreateSession(r, saved)
      PROVE GoodRec'
  BY <1>0, <1>1, GoodRefresh DEF CreateSession, GoodRec
<1>2. ASSUME NEW r \in Runtimes, Goroutines(r) PROVE GoodRec'
  <2>1. CASE BootstrapFails(r)
    BY <1>0, <2>1 DEF BootstrapFails, Failed
  <2>2. CASE BootstrapPublishes(r)
    BY <1>0, <2>2 DEF BootstrapPublishes
  <2>3. ASSUME MetadataSlow PROVE GoodRec'
    <3>1. CASE UNCHANGED rec
      BY <3>1 DEF GoodRec, Coherent, Consistent
    <3>2. CASE rec.err /\ UpdateRecord(rec)
      BY <3>2 DEF UpdateRecord, GoodRec, Coherent, Consistent
    <3>3. CASE ~rec.err /\ UpdateRecord(Refresh(Resolving, RegisteredCount))
      BY <1>0, <3>3
    <3>4. QED
      BY <2>3, <3>1, <3>2, <3>3 DEF MetadataSlow
  <2>4. CASE WaiterFindsNothing(r) \/ WaiterRetries(r)
    BY <2>3, <2>4 DEF WaiterFindsNothing, WaiterRetries
  <2>10. CASE WaiterFallsBack(r)
    <3>1. CASE UNCHANGED rec \/ UpdateRecord(rec)
      BY <3>1 DEF UpdateRecord, GoodRec, Coherent, Consistent
    <3>2. CASE UpdateRecord(Refresh(rec, RegisteredCount))
      BY <1>0, <3>2
    <3>3. QED
      BY <2>10, <3>1, <3>2 DEF WaiterFallsBack
  <2>11. CASE EventsRecover(r)
    BY <1>0, <2>11 DEF EventsRecover
  <2>5. CASE WaiterFindsNoFile(r)
    BY <1>0, <2>5 DEF WaiterFindsNoFile, Failed
  <2>6. CASE WaiterPublishes(r)
    BY <1>0, <2>6 DEF WaiterPublishes
  <2>7. ASSUME NEW done \in BOOLEAN, MetricsApply(r, done) PROVE GoodRec'
    <3>1. snap[r] \in Snapshots /\ snap[r].active \in Nat
      BY DEF TypeOK, Snapshots
    <3>2. QED
      BY <1>0, <2>7, <3>1 DEF MetricsApply
  <2>8. CASE BootstrapRegisters(r) \/ WaiterSelectsFile(r) \/ WaiterCancelled(r)
             \/ MetricsCapture(r) \/ MetricsCancelled(r) \/ EventsEnd(r)
    BY <2>8 DEF BootstrapRegisters, WaiterSelectsFile, WaiterCancelled, MetricsCapture,
                MetricsCancelled, EventsEnd, GoodRec, Coherent, Consistent
  <2>9. QED
    BY <1>2, <2>1, <2>2, <2>4, <2>5, <2>6, <2>7, <2>8, <2>10, <2>11 DEF Goroutines, Waiter
<1>3. ASSUME NEW s \in Streams, Streaming(s) PROVE GoodRec'
  <2>1. stream[s].n \in Nat
    BY DEF TypeOK, StreamStates
  <2>2. CASE MarkStreaming(s)
    BY <1>0, <2>1, <2>2 DEF MarkStreaming
  <2>3. CASE MarkReleased(s)
    BY <1>0, <2>1, <2>3 DEF MarkReleased
  <2>4. CASE MarkRange(s)
    BY <1>0, <2>1, <2>4 DEF MarkRange
  <2>5. ASSUME UNCHANGED rec PROVE GoodRec'
    BY <2>5 DEF GoodRec, Coherent, Consistent
  <2>6. QED
    BY <1>3, <2>2, <2>3, <2>4, <2>5
    DEF Streaming, OpenStream, PrepareRange, EnsureSubscription, PrepareNothing, RecordRange,
        RecordNoRange, ReleaseStream, ReleaseStreamAlone
<1>4. ASSUME NEW c \in Callers, CallProceeds(c) PROVE GoodRec'
  <2>1. CASE MarkPaused(c)
    BY <1>0, <2>1 DEF MarkPaused
  <2>2. CASE MarkResumed(c)
    BY <1>0, <2>2 DEF MarkResumed
  <2>3. CASE MarkStopped(c)
    BY <1>0, <2>3 DEF MarkStopped
  <2>4. CASE Unregister(c) \/ DeleteRecord(c)
    BY <2>4 DEF Unregister, DeleteRecord, GoodRec, Coherent, Consistent
  <2>5. QED
    BY <1>4, <2>1, <2>2, <2>3, <2>4 DEF CallProceeds
<1>5. ASSUME NEW c \in Callers, NewCall(c) PROVE GoodRec'
  BY <1>5 DEF NewCall, PauseSession, ResumeSession, ResumeWithoutRuntime, StopSession,
              DeleteWithoutRuntime, GoodRec, Coherent, Consistent
<1>6. ASSUME NEW r \in Runtimes, Restart(r) PROVE GoodRec'
  BY <1>6 DEF Restart, GoodRec, Coherent, Consistent
<1>7. CASE UNCHANGED vars
  BY <1>7 DEF vars, GoodRec, Coherent, Consistent
<1>8. QED
  BY <1>1, <1>2, <1>3, <1>4, <1>5, <1>6, <1>7 DEF Next

-----------------------------------------------------------------------------
(* Types.                                                                  *)

TypeRest ==
  /\ created \in BOOLEAN
  /\ present \in BOOLEAN
  /\ reg \in Runtimes \cup {NoRuntime}
  /\ rt \in [Runtimes -> RuntimeFields]
  /\ waiter \in [Runtimes -> {"off", "check", "select", "fallback", "publish", "end"}]
  /\ metrics \in [Runtimes -> {"off", "select", "apply", "end"}]
  /\ events \in [Runtimes -> {"off", "on"}]
  /\ snap \in [Runtimes -> Snapshots]
  /\ call \in [Callers -> Calls]
  /\ stream \in [Streams -> StreamStates]

(* Setting one field of one runtime leaves the function well typed. *)
LEMMA SetField ==
  ASSUME NEW f \in [Runtimes -> RuntimeFields], NEW r \in Runtimes
  PROVE  /\ \A n \in Nat : [f EXCEPT ![r].active = n] \in [Runtimes -> RuntimeFields]
         /\ \A b \in BOOLEAN : [f EXCEPT ![r].paused = b] \in [Runtimes -> RuntimeFields]
         /\ \A b \in BOOLEAN : [f EXCEPT ![r].cancelled = b] \in [Runtimes -> RuntimeFields]
<1>1. f[r] \in RuntimeFields
  OBVIOUS
<1>2. \A n \in Nat : [f[r] EXCEPT !.active = n] \in RuntimeFields
  BY <1>1 DEF RuntimeFields
<1>3. \A b \in BOOLEAN : [f[r] EXCEPT !.paused = b] \in RuntimeFields
  BY <1>1 DEF RuntimeFields
<1>4. \A b \in BOOLEAN : [f[r] EXCEPT !.cancelled = b] \in RuntimeFields
  BY <1>1 DEF RuntimeFields
<1>5. \A v \in RuntimeFields : [f EXCEPT ![r] = v] \in [Runtimes -> RuntimeFields]
  OBVIOUS
<1>6. QED
  BY <1>2, <1>3, <1>4, <1>5

(* So do the first update of a stream and the second section of stopSession. *)
LEMMA OpenIsStream ==
  ASSUME NEW v \in StreamStates PROVE [v EXCEPT !.at = "open", !.n = 0] \in StreamStates
  BY DEF StreamStates

LEMMA StoppingIsCall ==
  ASSUME NEW v \in Calls PROVE [v EXCEPT !.at = "stopping", !.rt = NoRuntime] \in Calls
  BY DEF Calls

(* The steps of a stream between its first update and its release. *)
Serves(s) ==
  \/ PrepareRange(s) \/ EnsureSubscription(s) \/ PrepareNothing(s)
  \/ RecordRange(s) \/ RecordNoRange(s) \/ MarkRange(s)

LEMMA ServesFrame ==
  ASSUME TypeRest, NEW s \in Streams, Serves(s)
  PROVE  /\ UNCHANGED <<created, present, reg, rt, waiter, metrics, snap, call>>
         /\ events' \in [Runtimes -> {"off", "on"}]
         /\ stream' \in [Streams -> StreamStates]
         /\ \A q \in Streams :
              /\ stream'[q].rt = stream[q].rt
              /\ stream'[q].at \in {"idle", "releasing"} =>
                   stream'[q].at = stream[q].at \/ stream[q].rt = NoRuntime
<1> DEFINE Kept(v) == /\ v \in StreamStates /\ v.rt = stream[s].rt
                      /\ v.at \in {"idle", "releasing"} =>
                           v.at = stream[s].at \/ stream[s].rt = NoRuntime
<1>0. /\ stream \in [Streams -> StreamStates] /\ stream[s] \in StreamStates
      /\ reg # NoRuntime => reg \in Runtimes /\ rt[reg].active \in Nat
  BY NoRuntimeIsNone DEF TypeRest, RuntimeFields
<1>1. UNCHANGED <<created, present, reg, rt, waiter, metrics, snap, call>>
  BY DEF Serves, PrepareRange, EnsureSubscription, PrepareNothing, RecordRange, RecordNoRange,
         MarkRange
<1>2. events' \in [Runtimes -> {"off", "on"}]
  BY DEF TypeRest, Serves, PrepareRange, EnsureSubscription, PrepareNothing, RecordRange,
         RecordNoRange, MarkRange
<1>3. \E v : Kept(v) /\ stream' = [stream EXCEPT ![s] = v]
  <2>1. CASE PrepareRange(s)
    <3>1. stream' = [stream EXCEPT ![s] = [stream[s] EXCEPT !.at = "subscribing",
                                                            !.held = reg]]
      BY <2>1 DEF PrepareRange
    <3>2. Kept([stream[s] EXCEPT !.at = "subscribing", !.held = reg])
      BY <1>0, <2>1 DEF PrepareRange, StreamStates
    <3>3. QED
      BY <3>1, <3>2
  <2>2. CASE EnsureSubscription(s)
    <3>1. stream' = [stream EXCEPT ![s] = [stream[s] EXCEPT !.at = "serving",
                                                            !.held = NoRuntime]]
      BY <2>2 DEF EnsureSubscription
    <3>2. Kept([stream[s] EXCEPT !.at = "serving", !.held = NoRuntime])
      BY <1>0 DEF StreamStates
    <3>3. QED
      BY <3>1, <3>2
  <2>3. CASE PrepareNothing(s) \/ RecordNoRange(s)
    <3>1. PICK at \in {"serving", "closing"} :
               stream' = [stream EXCEPT ![s] = [stream[s] EXCEPT !.at = at]]
      BY <2>3 DEF PrepareNothing, RecordNoRange
    <3>2. Kept([stream[s] EXCEPT !.at = at])
      BY <1>0 DEF StreamStates
    <3>3. QED
      BY <3>1, <3>2
  <2>4. CASE RecordRange(s)
    <3>1. stream' = [stream EXCEPT ![s] = [stream[s] EXCEPT !.at = "recording",
                                                            !.n = rt[reg].active]]
      BY <2>4 DEF RecordRange
    <3>2. Kept([stream[s] EXCEPT !.at = "recording", !.n = rt[reg].active])
      BY <1>0, <2>4 DEF RecordRange, StreamStates
    <3>3. QED
      BY <3>1, <3>2
  <2>5. CASE MarkRange(s)
    <3> DEFINE at == IF stream[s].rt = NoRuntime THEN "idle" ELSE "closing"
    <3>1. stream' = [stream EXCEPT ![s] = [stream[s] EXCEPT !.at = at, !.n = 0]]
      BY <2>5 DEF MarkRange
    <3>2. Kept([stream[s] EXCEPT !.at = at, !.n = 0])
      BY <1>0 DEF StreamStates
    <3>3. QED
      BY <3>1, <3>2
  <2>6. QED
    BY <2>1, <2>2, <2>3, <2>4, <2>5 DEF Serves
<1>4. QED
  BY <1>0, <1>1, <1>2, <1>3

LEMMA RestStep == ASSUME TypeRest, [Next]_vars PROVE TypeRest'
<1> USE NoRuntimeIsNone DEF TypeRest, RuntimeFields, Snapshots
<1>1. ASSUME NEW r \in Runtimes, Spawn(r)
      PROVE /\ rt' \in [Runtimes -> RuntimeFields]
            /\ waiter' \in [Runtimes -> {"off", "check", "select", "fallback", "publish", "end"}]
            /\ metrics' \in [Runtimes -> {"off", "select", "apply", "end"}]
            /\ events' \in [Runtimes -> {"off", "on"}]
            /\ snap' \in [Runtimes -> Snapshots]
  BY <1>1 DEF Spawn, Free, NoSnapshot
<1>2. ASSUME NEW r \in Runtimes, NEW saved \in BOOLEAN, CreateSession(r, saved)
      PROVE TypeRest'
  BY <1>1, <1>2 DEF CreateSession
<1>3. ASSUME NEW r \in Runtimes, Goroutines(r) PROVE TypeRest'
  <2>1. CASE BootstrapFails(r)
    BY <2>1 DEF BootstrapFails, Free
  <2>2. CASE BootstrapRegisters(r)
    BY <2>2 DEF BootstrapRegisters
  <2>9. CASE BootstrapPublishes(r)
    BY <2>9 DEF BootstrapPublishes
  <2>3. CASE WaiterSelectsFile(r)
    BY <2>3 DEF WaiterSelectsFile
  <2>4. CASE WaiterFindsNothing(r) \/ WaiterRetries(r) \/ WaiterFallsBack(r)
             \/ WaiterFindsNoFile(r) \/ WaiterPublishes(r) \/ WaiterCancelled(r)
    <3>1. waiter' \in [Runtimes -> {"off", "check", "select", "fallback", "publish", "end"}]
      <4>1. \E at \in {"check", "select", "fallback", "publish", "end"} :
              waiter' = [waiter EXCEPT ![r] = at]
        BY <2>4 DEF WaiterFindsNothing, WaiterRetries, WaiterFallsBack, WaiterFindsNoFile,
                    WaiterPublishes, WaiterCancelled
      <4>2. QED
        BY <4>1
    <3>2. QED
      BY <2>4, <3>1 DEF WaiterFindsNothing, WaiterRetries, WaiterFallsBack,
                        WaiterFindsNoFile, WaiterPublishes, WaiterCancelled
  <2>5. CASE MetricsCapture(r)
    BY <2>5 DEF MetricsCapture
  <2>6. ASSUME NEW done \in BOOLEAN, MetricsApply(r, done) PROVE TypeRest'
    BY <2>6 DEF MetricsApply, NoSnapshot
  <2>7. CASE MetricsCancelled(r)
    BY <2>7 DEF MetricsCancelled
  <2>10. CASE EventsRecover(r) \/ EventsEnd(r)
    BY <2>10 DEF EventsRecover, EventsEnd
  <2>8. QED
    BY <1>3, <2>1, <2>2, <2>3, <2>4, <2>5, <2>6, <2>7, <2>9, <2>10 DEF Goroutines, Waiter
<1>4. ASSUME NEW s \in Streams, Streaming(s) PROVE TypeRest'
  <2>1. CASE OpenStream(s)
    <3>1. reg \in Runtimes /\ rt[reg].active + 1 \in Nat
      BY <2>1 DEF OpenStream
    <3>2. rt' \in [Runtimes -> RuntimeFields]
      BY <2>1, <3>1, SetField DEF OpenStream
    <3>3. stream' \in [Streams -> StreamStates]
      BY <2>1, <3>1 DEF OpenStream, StreamStates
    <3>4. QED
      BY <2>1, <3>2, <3>3 DEF OpenStream
  <2>2. CASE MarkStreaming(s)
    <3>1. stream' \in [Streams -> StreamStates]
      <4>1. stream' = [stream EXCEPT ![s] = [stream[s] EXCEPT !.at = "open", !.n = 0]]
        BY <2>2 DEF MarkStreaming
      <4>2. [stream[s] EXCEPT !.at = "open", !.n = 0] \in StreamStates
        BY OpenIsStream
      <4>3. QED
        BY <4>1, <4>2
    <3>2. QED
      BY <2>2, <3>1 DEF MarkStreaming
  <2>3. CASE ReleaseStreamAlone(s) \/ MarkReleased(s)
    <3>1. stream' \in [Streams -> StreamStates]
      <4>1. stream' = [stream EXCEPT ![s] = NoStream]
        BY <2>3 DEF ReleaseStreamAlone, MarkReleased
      <4>2. NoStream \in StreamStates
        BY DEF NoStream, StreamStates
      <4>3. QED
        BY <4>1, <4>2
    <3>2. QED
      BY <2>3, <3>1 DEF ReleaseStreamAlone, MarkReleased
  <2>4. CASE ReleaseStream(s)
    <3> DEFINE left == IF rt[reg].active > 0 THEN rt[reg].active - 1 ELSE 0
    <3>1. reg \in Runtimes /\ left \in Nat
      BY <2>4 DEF ReleaseStream
    <3>2. /\ rt' = [rt EXCEPT ![reg].active = left]
          /\ stream' = [stream EXCEPT ![s] = [at |-> "releasing", rt |-> NoRuntime,
                                              held |-> NoRuntime, n |-> left]]
      BY <2>4 DEF ReleaseStream
    <3> HIDE DEF left
    <3>3. rt' \in [Runtimes -> RuntimeFields]
      BY <3>1, <3>2, SetField
    <3>4. stream' \in [Streams -> StreamStates]
      BY <3>1, <3>2 DEF StreamStates
    <3>5. QED
      BY <2>4, <3>3, <3>4 DEF ReleaseStream
  <2>5. CASE Serves(s)
    BY <2>5, ServesFrame
  <2>6. QED
    BY <1>4, <2>1, <2>2, <2>3, <2>4, <2>5 DEF Streaming, Serves
<1>5. ASSUME NEW c \in Callers, CallProceeds(c) PROVE TypeRest'
  <2>1. call' \in [Callers -> Calls]
    <3>1. CASE Return(c)
      <4>1. Idle \in Calls
        BY DEF Idle, Calls
      <4>2. QED
        BY <3>1, <4>1 DEF Return
    <3>2. CASE Unregister(c)
      <4>1. call' = [call EXCEPT ![c] = [call[c] EXCEPT !.at = "stopping",
                                                        !.rt = NoRuntime]]
        BY <3>2 DEF Unregister
      <4>2. QED
        BY <4>1, StoppingIsCall
    <3>3. CASE MarkStopped(c)
      <4>1. call[c].then \in {"idle", "deleting"}
        BY DEF Calls
      <4>2. call' = [call EXCEPT ![c] = [at |-> call[c].then, then |-> "idle", rt |-> NoRuntime]]
        BY <3>3 DEF MarkStopped
      <4>3. QED
        BY <4>1, <4>2 DEF Calls
    <3>4. QED
      BY <1>5, <3>1, <3>2, <3>3 DEF CallProceeds, MarkPaused, MarkResumed, DeleteRecord
  <2>2. QED
    BY <1>5, <2>1 DEF CallProceeds, MarkPaused, MarkResumed, Unregister, MarkStopped,
                      DeleteRecord
<1>6. ASSUME NEW c \in Callers, NewCall(c) PROVE TypeRest'
  <2>1. CASE PauseSession(c) \/ ResumeSession(c)
    <3>0. reg \in Runtimes
      BY <2>1 DEF PauseSession, ResumeSession
    <3>1. rt' \in [Runtimes -> RuntimeFields]
      <4>1. \A b \in BOOLEAN : [rt EXCEPT ![reg].paused = b] \in [Runtimes -> RuntimeFields]
        BY <3>0, SetField
      <4>2. QED
        BY <2>1, <4>1 DEF PauseSession, ResumeSession
    <3>2. call' \in [Callers -> Calls]
      <4>1. \A at \in {"pausing", "resuming"} : [call EXCEPT ![c].at = at] \in [Callers -> Calls]
        BY DEF Calls
      <4>2. QED
        BY <2>1, <4>1 DEF PauseSession, ResumeSession, Goto
    <3>3. QED
      BY <2>1, <3>1, <3>2 DEF PauseSession, ResumeSession
  <2>2. ASSUME NEW r \in Runtimes, ResumeWithoutRuntime(c, r) PROVE TypeRest'
    BY <1>1, <2>2 DEF ResumeWithoutRuntime
  <2>3. ASSUME NEW then \in {"idle", "deleting"}, StopSession(c, then) PROVE TypeRest'
    <3>0. reg \in Runtimes
      BY <2>3 DEF StopSession
    <3>1. rt' \in [Runtimes -> RuntimeFields]
      <4>1. [rt EXCEPT ![reg].cancelled = TRUE] \in [Runtimes -> RuntimeFields]
        BY <3>0, SetField
      <4>2. QED
        BY <2>3, <4>1 DEF StopSession
    <3>2. call' \in [Callers -> Calls]
      BY <2>3 DEF StopSession, Calls
    <3>3. QED
      BY <2>3, <3>1, <3>2 DEF StopSession
  <2>4. CASE DeleteWithoutRuntime(c)
    BY <2>4 DEF DeleteWithoutRuntime, Goto, Calls
  <2>5. QED
    BY <1>6, <2>1, <2>2, <2>3, <2>4 DEF NewCall
<1>7. ASSUME NEW r \in Runtimes, Restart(r) PROVE TypeRest'
  BY <1>7 DEF Restart, Free, NoSnapshot, Idle, NoStream, Calls, StreamStates
<1>8. CASE UNCHANGED vars
  BY <1>8 DEF vars
<1>9. QED
  BY <1>2, <1>3, <1>4, <1>5, <1>6, <1>7, <1>8 DEF Next

LEMMA TypeIsBoth == TypeOK <=> TypeRest /\ rec \in Records
  BY DEF TypeOK, TypeRest

LEMMA TypedInit == Init => TypeOK /\ GoodRec
<1> SUFFICES ASSUME Init PROVE TypeOK /\ GoodRec
  OBVIOUS
<1> USE DEF Init
<1>1. GoodRec
  BY DEF GoodRec, Coherent, Consistent, Records, NewRecord
<1>2. TypeRest
  BY DEF TypeRest, RuntimeFields, Snapshots, Calls, StreamStates, Free, NoSnapshot, Idle,
         NoStream
<1>3. QED
  BY <1>1, <1>2, TypeIsBoth DEF GoodRec

LEMMA TypedStep == TypeOK /\ GoodRec /\ [Next]_vars => TypeOK' /\ GoodRec'
  BY RecordStep, RestStep, TypeIsBoth DEF GoodRec, TypeOK, TypeRest

LEMMA TypedAndCoherent == Spec => [](TypeOK /\ GoodRec)
  BY TypedInit, TypedStep, PTL DEF Spec

(* Type correctness, with any number of runtimes, calls and streams. *)
THEOREM TypeCorrect == Spec => []TypeOK
  BY TypedAndCoherent, PTL

(***************************************************************************)
(* Error, metadata state and status of the record never contradict each    *)
(* other, in whatever order the goroutines' updates arrive.                *)
(***************************************************************************)
THEOREM RecordAlwaysCoherent == Spec => []RecordCoherent
<1>1. GoodRec => RecordCoherent
  BY DEF GoodRec, Coherent, Consistent, RecordCoherent
<1>2. QED
  BY <1>1, TypedAndCoherent, PTL

-----------------------------------------------------------------------------
(* What most steps leave alone.                                            *)

LEMMA GoroutinesFrame ==
  ASSUME NEW r \in Runtimes, Goroutines(r)
  PROVE  \/ BootstrapFails(r) \/ BootstrapRegisters(r) \/ BootstrapPublishes(r)
         \/ WaiterSelectsFile(r)
         \/ UNCHANGED <<created, present, reg, rt, call, stream>>
  BY DEF Goroutines, Waiter, WaiterFindsNothing, WaiterRetries, WaiterFallsBack,
         WaiterFindsNoFile, WaiterPublishes, WaiterCancelled, MetricsCapture, MetricsApply,
         MetricsCancelled, EventsRecover, EventsEnd

(* Pausing, resuming and counting leave the life of every runtime alone. *)
LEMMA SetLeavesLife ==
  ASSUME NEW f \in [Runtimes -> RuntimeFields], NEW q, NEW r \in Runtimes
  PROVE  /\ \A n : LET g == [f EXCEPT ![q].active = n]
                  IN  g[r].life = f[r].life /\ g[r].cancelled = f[r].cancelled
         /\ \A b : LET g == [f EXCEPT ![q].paused = b]
                  IN  g[r].life = f[r].life /\ g[r].cancelled = f[r].cancelled
<1>1. f[r] \in RuntimeFields
  OBVIOUS
<1>2. \A n : /\ [f[r] EXCEPT !.active = n].life = f[r].life
             /\ [f[r] EXCEPT !.active = n].cancelled = f[r].cancelled
  BY <1>1 DEF RuntimeFields
<1>3. \A b : /\ [f[r] EXCEPT !.paused = b].life = f[r].life
             /\ [f[r] EXCEPT !.paused = b].cancelled = f[r].cancelled
  BY <1>1 DEF RuntimeFields
<1>4. \A n : [f EXCEPT ![q].active = n][r] = IF q = r THEN [f[r] EXCEPT !.active = n] ELSE f[r]
  OBVIOUS
<1>5. \A b : [f EXCEPT ![q].paused = b][r] = IF q = r THEN [f[r] EXCEPT !.paused = b] ELSE f[r]
  OBVIOUS
<1>6. QED
  BY <1>2, <1>3, <1>4, <1>5

LEMMA StreamingFrame ==
  ASSUME TypeRest, NEW s \in Streams, Streaming(s)
  PROVE  /\ UNCHANGED <<created, present, reg, call>>
         /\ UNCHANGED rt \/ \E n : rt' = [rt EXCEPT ![reg].active = n]
<1>1. CASE Serves(s)
  BY <1>1, ServesFrame
<1>2. CASE ~Serves(s)
  BY <1>2 DEF Streaming, Serves, OpenStream, MarkStreaming, ReleaseStream,
              ReleaseStreamAlone, MarkReleased
<1>3. QED
  BY <1>1, <1>2

-----------------------------------------------------------------------------
(***************************************************************************)
(* LifeInv is inductive.  An object is spawned, registered once, cancelled *)
(* only while registered, and reused only when out of the map.             *)
(***************************************************************************)
LEMMA LifeStep == ASSUME TypeOK, LifeInv, [Next]_vars PROVE LifeInv'
<1> TypeRest
  BY TypeIsBoth
<1> USE NoRuntimeIsNone DEF TypeRest, RuntimeFields, LifeInv, RegisteredIsLive
<1>1. ASSUME NEW r \in Runtimes, Spawn(r), UNCHANGED <<reg, call>> PROVE LifeInv'
  BY <1>1 DEF Spawn, Available, Collectable, Free
<1>2. ASSUME NEW r \in Runtimes, NEW saved \in BOOLEAN, CreateSession(r, saved)
      PROVE LifeInv'
  BY <1>1, <1>2 DEF CreateSession
<1>3. ASSUME NEW r \in Runtimes, Goroutines(r) PROVE LifeInv'
  <2>1. CASE BootstrapFails(r)
    BY <2>1 DEF BootstrapFails, Free
  <2>2. CASE BootstrapRegisters(r)
    BY <2>2 DEF BootstrapRegisters
  <2>3. CASE BootstrapPublishes(r)
    BY <2>3 DEF BootstrapPublishes
  <2>4. CASE WaiterSelectsFile(r)
    BY <2>4 DEF WaiterSelectsFile
  <2>5. ASSUME UNCHANGED <<reg, rt, call>> PROVE LifeInv'
    BY <2>5
  <2>6. QED
    BY <1>3, <2>1, <2>2, <2>3, <2>4, <2>5, GoroutinesFrame
<1>4. ASSUME NEW s \in Streams, Streaming(s) PROVE LifeInv'
  <2>1. UNCHANGED <<reg, call>>
    BY <1>4, StreamingFrame
  <2>2. \A r \in Runtimes : rt'[r].life = rt[r].life /\ rt'[r].cancelled = rt[r].cancelled
    <3>1. UNCHANGED rt \/ \E n : rt' = [rt EXCEPT ![reg].active = n]
      BY <1>4, StreamingFrame
    <3>2. ASSUME NEW n, rt' = [rt EXCEPT ![reg].active = n], NEW r \in Runtimes
          PROVE  rt'[r].life = rt[r].life /\ rt'[r].cancelled = rt[r].cancelled
      BY <3>2, SetLeavesLife
    <3>3. QED
      BY <3>1, <3>2
  <2>3. QED
    BY <2>1, <2>2
<1>5. ASSUME NEW c \in Callers, CallProceeds(c) PROVE LifeInv'
  <2>1. CASE Unregister(c)
    BY <2>1 DEF Unregister
  <2>2. CASE MarkPaused(c) \/ MarkResumed(c) \/ MarkStopped(c) \/ DeleteRecord(c)
    <3>1. UNCHANGED <<reg, rt>> /\ call[c].at # "unregister"
      BY <2>2 DEF MarkPaused, MarkResumed, MarkStopped, DeleteRecord
    <3>2. \A d \in Callers \ {c} : call'[d] = call[d]
      BY <2>2 DEF MarkPaused, MarkResumed, MarkStopped, DeleteRecord, Return
    <3>3. QED
      BY <3>1, <3>2
  <2>3. QED
    BY <1>5, <2>1, <2>2 DEF CallProceeds
<1>6. ASSUME NEW c \in Callers, NewCall(c) PROVE LifeInv'
  <2>1. call[c].at = "idle"
    BY <1>6 DEF NewCall, PauseSession, ResumeSession, ResumeWithoutRuntime, StopSession,
                DeleteWithoutRuntime, Accepted
  <2>2. CASE PauseSession(c) \/ ResumeSession(c) \/ DeleteWithoutRuntime(c)
    <3>1. \A d \in Callers \ {c} : call'[d] = call[d]
      BY <2>2 DEF PauseSession, ResumeSession, DeleteWithoutRuntime, Goto
    <3>2. /\ reg' = reg
          /\ \A r \in Runtimes : /\ rt'[r].life = rt[r].life
                                 /\ rt'[r].cancelled = rt[r].cancelled
      BY <2>2 DEF PauseSession, ResumeSession, DeleteWithoutRuntime
    <3>3. QED
      BY <2>1, <3>1, <3>2
  <2>3. ASSUME NEW r \in Runtimes, ResumeWithoutRuntime(c, r) PROVE LifeInv'
    BY <1>1, <2>3 DEF ResumeWithoutRuntime
  <2>4. ASSUME NEW then \in {"idle", "deleting"}, StopSession(c, then) PROVE LifeInv'
    <3>1. reg \in Runtimes /\ reg' = reg /\ call'[c].at = "unregister" /\ call'[c].rt = reg
      BY <2>4 DEF StopSession, TypeOK
    <3>2. \A r \in Runtimes : /\ rt'[r].life = rt[r].life
                              /\ r # reg => rt'[r].cancelled = rt[r].cancelled
      <4>1. rt' = [rt EXCEPT ![reg].cancelled = TRUE]
        BY <2>4 DEF StopSession
      <4>2. \A r \in Runtimes \ {reg} : rt'[r] = rt[r]
        BY <4>1
      <4>3. rt'[reg] = [rt[reg] EXCEPT !.cancelled = TRUE]
        BY <3>1, <4>1
      <4>4. rt[reg] \in RuntimeFields
        BY <3>1
      <4>5. rt'[reg].life = rt[reg].life
        BY <4>3, <4>4
      <4>6. QED
        BY <4>2, <4>5
    <3>3. QED
      BY <3>1, <3>2
  <2>5. QED
    BY <1>6, <2>2, <2>3, <2>4 DEF NewCall
<1>7. ASSUME NEW r \in Runtimes, Restart(r) PROVE LifeInv'
  BY <1>7 DEF Restart, Free
<1>8. CASE UNCHANGED vars
  BY <1>8 DEF vars
<1>9. QED
  BY <1>2, <1>3, <1>4, <1>5, <1>6, <1>7, <1>8 DEF Next

(***************************************************************************)
(* A runtime found in the map is not cancelled, unless the call that has   *)
(* cancelled it is about to take it out.                                   *)
(***************************************************************************)
THEOREM LookupFindsLive == Spec => []RegisteredIsLive
<1>1. Init => LifeInv
  BY NoRuntimeIsNone DEF Init, LifeInv, RegisteredIsLive, Free
<1>2. LifeInv => RegisteredIsLive
  BY DEF LifeInv
<1>3. QED
  BY <1>1, <1>2, LifeStep, TypeCorrect, PTL DEF Spec
-----------------------------------------------------------------------------
(* The stream count.                                                       *)

LEMMA CountedFinite ==
  ASSUME NEW r PROVE IsFiniteSet(CountedOn(r)) /\ Cardinality(CountedOn(r)) \in Nat
  BY StreamsFinite, FS_Subset, FS_CardinalityType DEF CountedOn

(***************************************************************************)
(* CountInv is inductive.  A stream that opens is counted nowhere yet, so  *)
(* that the increment is matched by it; one that ends takes one from the   *)
(* registered runtime if that one is counting anything, and stops being    *)
(* counted on whichever runtime it was counted on.                         *)
(***************************************************************************)
LEMMA CountStep == ASSUME TypeOK, LifeInv, CountInv, [Next]_vars PROVE CountInv'
<1>0. /\ reg \in Runtimes \cup {NoRuntime}
      /\ rt \in [Runtimes -> RuntimeFields] /\ \A r \in Runtimes : rt[r].active \in Nat
      /\ stream \in [Streams -> StreamStates]
      /\ reg # NoRuntime <=> reg \in Runtimes
      /\ reg \in Runtimes => rt[reg].life \in {"registered", "running"}
  BY NoRuntimeIsNone DEF TypeOK, RuntimeFields, LifeInv
<1>1. ASSUME UNCHANGED stream, reg' \in {reg, NoRuntime},
             \A r \in Runtimes : \/ rt'[r].active = rt[r].active
                                    /\ (rt'[r].life = rt[r].life
                                        \/ rt'[r].life \notin {"free", "spawned"})
                                 \/ rt'[r].active = 0 /\ r # reg
      PROVE  CountInv'
  <2>1. \A r : CountedOn(r)' = CountedOn(r)
    BY <1>1 DEF CountedOn
  <2>2. NeverOvercounts'
    BY <1>0, <1>1, <2>1, CountedFinite DEF CountInv, NeverOvercounts
  <2>3. QED
    BY <1>1, <2>2 DEF CountInv
<1>2. ASSUME NEW r \in Runtimes, Spawn(r), UNCHANGED <<reg, stream>> PROVE CountInv'
  <2>1. r # reg
    BY <1>0, <1>2 DEF Spawn, Available, Collectable
  <2>2. rt'[r].active = 0 /\ \A q \in Runtimes \ {r} : rt'[q] = rt[q]
    BY <1>0, <1>2 DEF Spawn, Free
  <2>3. QED
    BY <1>1, <1>2, <2>1, <2>2
<1>3. ASSUME NEW r \in Runtimes, NEW saved \in BOOLEAN, CreateSession(r, saved)
      PROVE  CountInv'
  BY <1>2, <1>3 DEF CreateSession
<1>4. ASSUME NEW r \in Runtimes, Goroutines(r) PROVE CountInv'
  <2>1. CASE BootstrapFails(r)
    <3>1. rt'[r].active = 0 /\ r # reg /\ \A q \in Runtimes \ {r} : rt'[q] = rt[q]
      BY <1>0, <2>1 DEF BootstrapFails, Free
    <3>2. QED
      BY <1>1, <2>1, <3>1 DEF BootstrapFails
  <2>2. CASE BootstrapRegisters(r)
    <3>1. /\ reg' = r /\ rt'[r].active = 0 /\ rt'[r].life = "registered"
          /\ \A q \in Runtimes \ {r} : rt'[q] = rt[q]
      BY <1>0, <2>2 DEF BootstrapRegisters, CountInv, RuntimeFields
    <3>2. UNCHANGED stream /\ CountedOn(r)' = CountedOn(r)
      BY <2>2 DEF BootstrapRegisters, CountedOn
    <3>3. NeverOvercounts'
      BY <3>1, <3>2, CountedFinite DEF NeverOvercounts
    <3>4. QED
      BY <3>1, <3>2, <3>3 DEF CountInv
  <2>3. CASE BootstrapPublishes(r)
    <3>1. \A q \in Runtimes : rt'[q].active = rt[q].active
                              /\ (rt'[q].life = rt[q].life \/ rt'[q].life = "running")
      BY <1>0, <2>3 DEF BootstrapPublishes, RuntimeFields
    <3>2. QED
      BY <1>1, <2>3, <3>1 DEF BootstrapPublishes
  <2>4. CASE WaiterSelectsFile(r)
    <3>1. \A q \in Runtimes : rt'[q].active = rt[q].active /\ rt'[q].life = rt[q].life
      BY <1>0, <2>4 DEF WaiterSelectsFile, RuntimeFields
    <3>2. QED
      BY <1>1, <2>4, <3>1 DEF WaiterSelectsFile
  <2>5. ASSUME UNCHANGED <<reg, rt, stream>> PROVE CountInv'
    BY <1>1, <2>5
  <2>6. QED
    BY <1>4, <2>1, <2>2, <2>3, <2>4, <2>5, GoroutinesFrame
<1>5. ASSUME NEW s \in Streams, Streaming(s) PROVE CountInv'
  <2>1. CASE OpenStream(s)
    <3>1. /\ reg \in Runtimes /\ reg' = reg
          /\ rt' = [rt EXCEPT ![reg].active = rt[reg].active + 1]
          /\ stream' = [stream EXCEPT ![s] = [at |-> "counted", rt |-> reg,
                                              held |-> NoRuntime, n |-> rt[reg].active + 1]]
          /\ s \notin CountedOn(reg)
      BY <1>0, <2>1, NoRuntimeIsNone DEF OpenStream, CountInv, CountedOn
    <3>2. CountedOn(reg)' = CountedOn(reg) \cup {s}
      BY <1>0, <3>1 DEF CountedOn
    <3>3. Cardinality(CountedOn(reg)') = Cardinality(CountedOn(reg)) + 1
      BY <3>1, <3>2, CountedFinite, FS_AddElement
    <3>4. /\ rt'[reg].active = rt[reg].active + 1 /\ rt'[reg].life = rt[reg].life
          /\ \A r \in Runtimes \ {reg} : rt'[r] = rt[r]
      BY <1>0, <3>1 DEF RuntimeFields
    <3>5. NeverOvercounts'
      BY <1>0, <3>1, <3>3, <3>4, CountedFinite DEF CountInv, NeverOvercounts
    <3>6. \A q \in Streams : stream'[q].at \in {"idle", "releasing"} => stream'[q].rt = NoRuntime
      BY <1>0, <3>1 DEF CountInv
    <3>7. QED
      BY <1>0, <3>4, <3>5, <3>6 DEF CountInv
  <2>2. CASE ReleaseStream(s)
    <3> DEFINE left == IF rt[reg].active > 0 THEN rt[reg].active - 1 ELSE 0
    <3>1. /\ reg \in Runtimes /\ reg' = reg
          /\ rt' = [rt EXCEPT ![reg].active = left]
          /\ stream' = [stream EXCEPT ![s] = [at |-> "releasing", rt |-> NoRuntime,
                                              held |-> NoRuntime, n |-> left]]
      BY <1>0, <2>2 DEF ReleaseStream
    <3> HIDE DEF left
    <3>2. CountedOn(reg)' = CountedOn(reg) \ {s}
      BY <1>0, <3>1, NoRuntimeIsNone DEF CountedOn
    <3>3. Cardinality(CountedOn(reg)') >= Cardinality(CountedOn(reg)) - 1
      <4>1. ASSUME NEW S, IsFiniteSet(S), Cardinality(S) \in Nat
            PROVE  Cardinality(S \ {s}) >= Cardinality(S) - 1
        <5>1. Cardinality(S \ {s}) = IF s \in S THEN Cardinality(S) - 1 ELSE Cardinality(S)
          BY <4>1, FS_RemoveElement
        <5>2. QED
          BY <4>1, <5>1
      <4>2. QED
        BY <3>2, <4>1, CountedFinite
    <3>4. /\ rt'[reg].active = left /\ rt'[reg].life = rt[reg].life
          /\ \A r \in Runtimes \ {reg} : rt'[r] = rt[r]
      BY <1>0, <3>1 DEF RuntimeFields
    <3>5. left <= Cardinality(CountedOn(reg)')
      <4>1. rt[reg].active <= Cardinality(CountedOn(reg)) /\ rt[reg].active \in Nat
        BY <1>0, <3>1, NoRuntimeIsNone DEF CountInv, NeverOvercounts
      <4>2. Cardinality(CountedOn(reg)') \in Nat
        BY <3>2, CountedFinite, FS_RemoveElement, FS_CardinalityType
      <4>3. QED
        BY <3>3, <4>1, <4>2, CountedFinite DEF left
    <3>6. NeverOvercounts'
      BY <3>1, <3>4, <3>5 DEF NeverOvercounts
    <3>7. \A q \in Streams : stream'[q].at \in {"idle", "releasing"} => stream'[q].rt = NoRuntime
      BY <1>0, <3>1 DEF CountInv
    <3>8. QED
      BY <1>0, <3>1, <3>4, <3>6, <3>7 DEF CountInv
  <2>3. CASE MarkStreaming(s)
    <3>1. \A q \in Streams : stream'[q].rt = stream[q].rt
                             /\ (stream'[q].at = stream[q].at \/ stream'[q].at = "open")
      BY <1>0, <2>3 DEF MarkStreaming, StreamStates
    <3>2. UNCHANGED <<reg, rt>> /\ \A r : CountedOn(r)' = CountedOn(r)
      BY <2>3, <3>1 DEF MarkStreaming, CountedOn
    <3>3. QED
      BY <3>1, <3>2 DEF CountInv, NeverOvercounts
  <2>4. CASE ReleaseStreamAlone(s)
    <3>1. \A q \in Streams : stream'[q].at \in {"idle", "releasing"} => stream'[q].rt = NoRuntime
      BY <1>0, <2>4 DEF ReleaseStreamAlone, NoStream, CountInv
    <3>2. QED
      BY <2>4, <3>1 DEF ReleaseStreamAlone, CountInv, NeverOvercounts
  <2>5. CASE MarkReleased(s)
    <3>1. \A q \in Streams : /\ stream'[q].rt = stream[q].rt
                             /\ stream'[q].at \in {"idle", "releasing"} =>
                                  stream'[q].rt = NoRuntime
      BY <1>0, <2>5 DEF MarkReleased, NoStream, CountInv
    <3>2. UNCHANGED <<reg, rt>> /\ \A r : CountedOn(r)' = CountedOn(r)
      BY <2>5, <3>1 DEF MarkReleased, CountedOn
    <3>3. QED
      BY <3>1, <3>2 DEF CountInv, NeverOvercounts
  <2>6. CASE Serves(s)
    <3>1. /\ UNCHANGED <<reg, rt>>
          /\ \A q \in Streams :
               /\ stream'[q].rt = stream[q].rt
               /\ stream'[q].at \in {"idle", "releasing"} =>
                    stream'[q].at = stream[q].at \/ stream[q].rt = NoRuntime
      BY <2>6, ServesFrame, TypeIsBoth
    <3>2. \A r : CountedOn(r)' = CountedOn(r)
      BY <3>1 DEF CountedOn
    <3>3. QED
      BY <3>1, <3>2 DEF CountInv, NeverOvercounts
  <2>7. QED
    BY <1>5, <2>1, <2>2, <2>3, <2>4, <2>5, <2>6 DEF Streaming, Serves
<1>6. ASSUME NEW c \in Callers, CallProceeds(c) PROVE CountInv'
  <2>1. UNCHANGED <<rt, stream>> /\ reg' \in {reg, NoRuntime}
    BY <1>6 DEF CallProceeds, MarkPaused, MarkResumed, Unregister, MarkStopped, DeleteRecord
  <2>2. QED
    BY <1>1, <2>1
<1>7. ASSUME NEW c \in Callers, NewCall(c) PROVE CountInv'
  <2>1. ASSUME NEW r \in Runtimes, ResumeWithoutRuntime(c, r) PROVE CountInv'
    BY <1>2, <2>1 DEF ResumeWithoutRuntime
  <2>2. ASSUME PauseSession(c) \/ ResumeSession(c)
               \/ (\E then \in {"idle", "deleting"} : StopSession(c, then))
               \/ DeleteWithoutRuntime(c)
        PROVE  CountInv'
    <3>1. \A r \in Runtimes : rt'[r].active = rt[r].active /\ rt'[r].life = rt[r].life
      BY <1>0, <2>2 DEF PauseSession, ResumeSession, StopSession, DeleteWithoutRuntime,
                        RuntimeFields
    <3>2. UNCHANGED <<reg, stream>>
      BY <2>2 DEF PauseSession, ResumeSession, StopSession, DeleteWithoutRuntime
    <3>3. QED
      BY <1>1, <3>1, <3>2
  <2>3. QED
    BY <1>7, <2>1, <2>2 DEF NewCall
<1>8. ASSUME NEW r \in Runtimes, Restart(r) PROVE CountInv'
  BY <1>8 DEF Restart, Free, NoStream, CountInv, NeverOvercounts
<1>9. CASE UNCHANGED vars
  BY <1>1, <1>9 DEF vars
<1>10. QED
  BY <1>3, <1>4, <1>5, <1>6, <1>7, <1>8, <1>9 DEF Next

(***************************************************************************)
(* The registered runtime never counts a stream that is no longer open,    *)
(* with any number of streams, opened on it or on runtimes it replaced.    *)
(***************************************************************************)
THEOREM CountsOpenStreams == Spec => []NeverOvercounts
<1>1. Init => LifeInv /\ CountInv
  BY NoRuntimeIsNone
  DEF Init, LifeInv, RegisteredIsLive, CountInv, NeverOvercounts, Free, NoStream
<1>2. TypeOK /\ LifeInv /\ CountInv /\ [Next]_vars => LifeInv' /\ CountInv'
  BY LifeStep, CountStep
<1>3. LifeInv /\ CountInv => NeverOvercounts
  BY DEF CountInv
<1>4. QED
  BY <1>1, <1>2, <1>3, TypeCorrect, PTL DEF Spec
-----------------------------------------------------------------------------
(* What leaks.                                                             *)

Undisturbed ==
  OneAtATime /\ LiveIsRegistered /\ SpawnedIntoEmptyMap /\ StopsEmptyMap /\ NothingYet

(* What Undisturbed is said of: the map and where runtimes and calls are. *)
LEMMA UndisturbedFrame ==
  ASSUME Undisturbed, UNCHANGED <<created, present, reg>>,
         \A r \in Runtimes : rt'[r].life = rt[r].life /\ rt'[r].cancelled = rt[r].cancelled,
         \A c \in Callers : call'[c].at = call[c].at
  PROVE  Undisturbed'
  BY DEF Undisturbed, OneAtATime, LiveIsRegistered, SpawnedIntoEmptyMap, StopsEmptyMap,
         NothingYet, Bootstrapping, Live

(***************************************************************************)
(* A bootstrap begins when the map is empty, no call is in progress and no *)
(* runtime is alive.                                                       *)
(***************************************************************************)
LEMMA UndisturbedSpawn ==
  ASSUME TypeOK, NEW r \in Runtimes, Spawn(r), UNCHANGED <<reg, call>>, created', present',
         reg = NoRuntime, \A c \in Callers : call[c].at = "idle",
         \A q \in Runtimes : ~Live(q) /\ ~Bootstrapping(q)
  PROVE  Undisturbed'
<1>1. /\ rt'[r].life = "spawned" /\ \A q \in Runtimes \ {r} : rt'[q] = rt[q]
      /\ \A q \in Runtimes : ~Live(q)'
  BY DEF TypeOK, Spawn, Free, Live
<1>2. OneAtATime'
  BY <1>1 DEF OneAtATime, Bootstrapping
<1>3. QED
  BY <1>1, <1>2 DEF Undisturbed, LiveIsRegistered, SpawnedIntoEmptyMap, StopsEmptyMap,
                    NothingYet

LEMMA UndisturbedGoroutines ==
  ASSUME TypeOK, Undisturbed, NEW r \in Runtimes, Goroutines(r)
  PROVE  Undisturbed'
<1>0. /\ rt \in [Runtimes -> RuntimeFields] /\ rt[r] \in RuntimeFields
      /\ NoRuntime \notin Runtimes
  BY NoRuntimeIsNone DEF TypeOK
<1>1. CASE BootstrapFails(r)
  <2>1. /\ rt'[r].life = "free" /\ \A q \in Runtimes \ {r} : rt'[q] = rt[q]
        /\ UNCHANGED <<created, present, reg, call>>
    BY <1>0, <1>1 DEF BootstrapFails, Free
  <2>2. QED
    BY <2>1 DEF Undisturbed, OneAtATime, LiveIsRegistered, SpawnedIntoEmptyMap, StopsEmptyMap,
                NothingYet, Bootstrapping, Live
<1>2. CASE BootstrapRegisters(r)
  <2>1. /\ rt[r].life = "spawned" /\ rt'[r].life = "registered"
        /\ \A q \in Runtimes \ {r} : rt'[q] = rt[q]
        /\ reg' = r /\ UNCHANGED <<created, present, call>>
    BY <1>0, <1>2 DEF BootstrapRegisters, RuntimeFields
  <2>2. /\ present /\ created /\ \A q \in Runtimes : ~Live(q)
        /\ \A c \in Callers : call[c].at = "idle"
        /\ \A q \in Runtimes \ {r} : ~Bootstrapping(q)
    BY <1>0, <2>1 DEF Undisturbed, OneAtATime, LiveIsRegistered, SpawnedIntoEmptyMap,
                      NothingYet, Bootstrapping
  <2>3. \A q \in Runtimes \ {r} : ~Live(q)' /\ ~Bootstrapping(q)'
    BY <2>1, <2>2 DEF Live, Bootstrapping
  <2>4. OneAtATime'
    BY <2>1, <2>2, <2>3 DEF OneAtATime
  <2>5. QED
    BY <2>1, <2>2, <2>3, <2>4 DEF Undisturbed, LiveIsRegistered, SpawnedIntoEmptyMap,
                                  StopsEmptyMap, NothingYet, Bootstrapping
<1>3. CASE BootstrapPublishes(r)
  <2>1. /\ rt[r].life = "registered" /\ rt'[r].life = "running"
        /\ rt'[r].cancelled = rt[r].cancelled
        /\ \A q \in Runtimes \ {r} : rt'[q] = rt[q]
        /\ UNCHANGED <<created, present, reg, call>>
    BY <1>0, <1>3 DEF BootstrapPublishes, RuntimeFields
  <2>2. QED
    BY <2>1 DEF Undisturbed, OneAtATime, LiveIsRegistered, SpawnedIntoEmptyMap, StopsEmptyMap,
                NothingYet, Bootstrapping, Live
<1>4. CASE WaiterSelectsFile(r)
  <2>1. \A q \in Runtimes : rt'[q].life = rt[q].life /\ rt'[q].cancelled = rt[q].cancelled
    BY <1>0, <1>4 DEF WaiterSelectsFile, RuntimeFields
  <2>2. QED
    BY <1>4, <2>1, UndisturbedFrame DEF WaiterSelectsFile
<1>5. ASSUME UNCHANGED <<created, present, reg, rt, call>> PROVE Undisturbed'
  BY <1>5, UndisturbedFrame
<1>6. QED
  BY <1>1, <1>2, <1>3, <1>4, <1>5, GoroutinesFrame

(* A call that begins when nothing is pending. *)
LEMMA UndisturbedNewCall ==
  ASSUME TypeOK, Undisturbed, NothingPending, NEW c \in Callers, NewCall(c)
  PROVE  Undisturbed'
<1>0. /\ rt \in [Runtimes -> RuntimeFields] /\ call \in [Callers -> Calls]
      /\ \A d \in Callers : call[d].at = "idle"
      /\ \A r \in Runtimes : ~Bootstrapping(r)
      /\ present /\ created
      /\ NoRuntime \notin Runtimes
  BY NoRuntimeIsNone
  DEF TypeOK, NothingPending, Bootstrapping, NewCall, PauseSession, ResumeSession,
      ResumeWithoutRuntime, StopSession, DeleteWithoutRuntime, Accepted, Undisturbed, NothingYet
<1>1. ASSUME NEW at, call'[c].at = at, \A d \in Callers \ {c} : call'[d] = call[d],
             UNCHANGED <<created, present, reg>>,
             \A r \in Runtimes : rt'[r].life = rt[r].life,
             \A r \in Runtimes : Live(r)' => Live(r),
             at = "unregister" => \A r \in Runtimes : ~Live(r)',
             at \in {"stopping", "deleting"} => reg = NoRuntime
      PROVE  Undisturbed'
  <2>1. OneAtATime'
    BY <1>0, <1>1 DEF OneAtATime, Bootstrapping
  <2>2. LiveIsRegistered' /\ SpawnedIntoEmptyMap'
    BY <1>0, <1>1 DEF Undisturbed, LiveIsRegistered, SpawnedIntoEmptyMap
  <2>3. StopsEmptyMap'
    <3>1. ASSUME NEW d \in Callers
          PROVE  /\ call'[d].at = "unregister" => \A r \in Runtimes : ~Live(r)'
                 /\ call'[d].at \in {"stopping", "deleting"} => reg' = NoRuntime
      BY <1>0, <1>1
    <3>2. QED
      BY <3>1 DEF StopsEmptyMap
  <2>4. QED
    BY <1>0, <1>1, <2>1, <2>2, <2>3 DEF Undisturbed, NothingYet
<1>2. CASE PauseSession(c) \/ ResumeSession(c)
  <2>1. /\ call'[c].at \in {"pausing", "resuming"}
        /\ \A d \in Callers \ {c} : call'[d] = call[d]
        /\ UNCHANGED <<created, present, reg>>
    <3>1. PICK at \in {"pausing", "resuming"} : Goto(c, at)
      BY <1>2 DEF PauseSession, ResumeSession
    <3>2. call' = [call EXCEPT ![c] = [call[c] EXCEPT !.at = at]]
      BY <3>1 DEF Goto
    <3>3. call[c] \in Calls
      BY <1>0
    <3>4. [call[c] EXCEPT !.at = at].at = at
      BY <3>3 DEF Calls
    <3>5. call'[c].at = at /\ \A d \in Callers \ {c} : call'[d] = call[d]
      BY <1>0, <3>2, <3>4
    <3>6. UNCHANGED <<created, present, reg>>
      BY <1>2 DEF PauseSession, ResumeSession
    <3>7. QED
      BY <3>5, <3>6
  <2>2. \A r \in Runtimes : rt'[r].life = rt[r].life /\ rt'[r].cancelled = rt[r].cancelled
    <3>1. PICK b \in BOOLEAN : rt' = [rt EXCEPT ![reg].paused = b]
      BY <1>2 DEF PauseSession, ResumeSession
    <3>2. QED
      BY <1>0, <3>1, SetLeavesLife
  <2>3. QED
    BY <1>1, <2>1, <2>2 DEF Live
<1>3. ASSUME NEW r \in Runtimes, ResumeWithoutRuntime(c, r) PROVE Undisturbed'
  <2>1. reg = NoRuntime /\ \A q \in Runtimes : ~Live(q)
    BY <1>0, <1>3 DEF ResumeWithoutRuntime, Undisturbed, LiveIsRegistered
  <2>2. Spawn(r) /\ UNCHANGED <<reg, call>> /\ created' /\ present'
    BY <1>0, <1>3 DEF ResumeWithoutRuntime
  <2>3. QED
    BY <1>0, <2>1, <2>2, UndisturbedSpawn
<1>4. ASSUME NEW then \in {"idle", "deleting"}, StopSession(c, then) PROVE Undisturbed'
  <2>1. /\ reg \in Runtimes
        /\ call'[c].at = "unregister" /\ \A d \in Callers \ {c} : call'[d] = call[d]
        /\ UNCHANGED <<created, present, reg>>
        /\ rt' = [rt EXCEPT ![reg].cancelled = TRUE]
    BY <1>0, <1>4 DEF StopSession, TypeOK
  <2>2. /\ rt'[reg].life = rt[reg].life /\ rt'[reg].cancelled
        /\ \A r \in Runtimes \ {reg} : rt'[r] = rt[r]
    BY <1>0, <2>1 DEF RuntimeFields
  <2>3. \A r \in Runtimes : ~Live(r)'
    BY <2>2 DEF Live, Undisturbed, LiveIsRegistered
  <2>4. QED
    BY <1>1, <2>1, <2>2, <2>3
<1>5. CASE DeleteWithoutRuntime(c)
  <2>1. /\ reg = NoRuntime /\ call'[c].at = "deleting"
        /\ \A d \in Callers \ {c} : call'[d] = call[d]
        /\ UNCHANGED <<created, present, reg, rt>>
    BY <1>0, <1>5 DEF DeleteWithoutRuntime, Goto, Calls
  <2>2. QED
    BY <1>1, <2>1 DEF Live
<1>6. QED
  BY <1>2, <1>3, <1>4, <1>5 DEF NewCall

(* A call that goes on is the only one, and no bootstrap is in progress. *)
LEMMA UndisturbedCall ==
  ASSUME TypeOK, Undisturbed, NEW c \in Callers, CallProceeds(c)
  PROVE  Undisturbed'
<1>0. /\ call \in [Callers -> Calls] /\ call[c].at # "idle"
      /\ NoRuntime \notin Runtimes
      /\ UNCHANGED <<created, rt>>
  BY NoRuntimeIsNone
  DEF TypeOK, CallProceeds, MarkPaused, MarkResumed, Unregister, MarkStopped, DeleteRecord
<1>1. /\ created /\ \A r \in Runtimes : ~Bootstrapping(r)
      /\ \A d \in Callers \ {c} : call[d].at = "idle"
  BY <1>0 DEF Undisturbed, OneAtATime, NothingYet
<1>2. /\ \A d \in Callers \ {c} : call'[d] = call[d]
      /\ call'[c].at \in {"idle", "stopping", "deleting"}
      /\ call'[c].at # "idle" => reg' = NoRuntime
      /\ reg' = reg \/ \A r \in Runtimes : ~Live(r)
      /\ present' = present \/ \A r \in Runtimes : ~Live(r)
  <2>1. CASE MarkPaused(c) \/ MarkResumed(c)
    BY <1>0, <2>1 DEF MarkPaused, MarkResumed, Return, Idle
  <2>2. CASE Unregister(c)
    <3>1. /\ reg' = NoRuntime /\ UNCHANGED present
          /\ \A r \in Runtimes : ~Live(r)
      BY <2>2 DEF Unregister, Undisturbed, StopsEmptyMap
    <3>2. /\ \A d \in Callers \ {c} : call'[d] = call[d]
          /\ call'[c].at = "stopping"
      BY <1>0, <2>2 DEF Unregister, Calls
    <3>3. QED
      BY <3>1, <3>2
  <2>3. CASE MarkStopped(c)
    <3>1. reg = NoRuntime /\ UNCHANGED <<reg, present>>
      BY <2>3 DEF MarkStopped, Undisturbed, StopsEmptyMap
    <3>2. call[c].then \in {"idle", "deleting"}
      BY <1>0 DEF Calls
    <3>3. /\ \A d \in Callers \ {c} : call'[d] = call[d]
          /\ call'[c].at = call[c].then
      BY <1>0, <2>3 DEF MarkStopped
    <3>4. QED
      BY <3>1, <3>2, <3>3
  <2>4. CASE DeleteRecord(c)
    <3>1. reg = NoRuntime /\ UNCHANGED reg
      BY <2>4 DEF DeleteRecord, Undisturbed, StopsEmptyMap
    <3>2. \A r \in Runtimes : ~Live(r)
      BY <1>0, <3>1 DEF Undisturbed, LiveIsRegistered
    <3>3. QED
      BY <1>0, <2>4, <3>1, <3>2 DEF DeleteRecord, Return, Idle
  <2>5. QED
    BY <2>1, <2>2, <2>3, <2>4 DEF CallProceeds
<1>3. OneAtATime'
  BY <1>0, <1>1, <1>2 DEF OneAtATime, Bootstrapping
<1>4. LiveIsRegistered' /\ SpawnedIntoEmptyMap'
  BY <1>0, <1>1, <1>2
  DEF Undisturbed, LiveIsRegistered, SpawnedIntoEmptyMap, Live, Bootstrapping
<1>5. StopsEmptyMap'
  BY <1>1, <1>2 DEF StopsEmptyMap
<1>6. QED
  BY <1>0, <1>1, <1>3, <1>4, <1>5 DEF Undisturbed, NothingYet

LEMMA UndisturbedStep ==
  ASSUME TypeOK, UndisturbedInv, [HistoryNext]_historyVars
  PROVE  UndisturbedInv'
<1> SUFFICES ASSUME ~disturbed' PROVE Undisturbed'
  BY DEF UndisturbedInv, Undisturbed
<1>0. Undisturbed /\ (UNCHANGED vars \/ (Next /\ ~Disturbs))
  BY DEF HistoryNext, historyVars, UndisturbedInv, Undisturbed
<1>1. CASE UNCHANGED vars
  BY <1>0, <1>1, UndisturbedFrame DEF vars
<1>2. ASSUME NEW r \in Runtimes, NEW saved \in BOOLEAN, CreateSession(r, saved), ~Disturbs
      PROVE  Undisturbed'
  <2>1. ~created /\ created' /\ present' /\ Spawn(r) /\ UNCHANGED <<reg, call>>
    BY <1>2 DEF CreateSession, Disturbs
  <2>2. /\ reg = NoRuntime /\ \A c \in Callers : call[c].at = "idle"
        /\ \A q \in Runtimes : rt[q].life = "free"
    BY <1>0, <2>1 DEF Undisturbed, NothingYet
  <2>3. QED
    BY <2>1, <2>2, UndisturbedSpawn DEF Live, Bootstrapping
<1>3. ASSUME NEW s \in Streams, Streaming(s) PROVE Undisturbed'
  <2>1. UNCHANGED <<created, present, reg, call>>
    BY <1>3, StreamingFrame, TypeIsBoth
  <2>2. \A r \in Runtimes : rt'[r].life = rt[r].life /\ rt'[r].cancelled = rt[r].cancelled
    <3>1. UNCHANGED rt \/ \E n : rt' = [rt EXCEPT ![reg].active = n]
      BY <1>3, StreamingFrame, TypeIsBoth
    <3>2. rt \in [Runtimes -> RuntimeFields]
      BY DEF TypeOK
    <3>3. ASSUME NEW n, rt' = [rt EXCEPT ![reg].active = n], NEW r \in Runtimes
          PROVE  rt'[r].life = rt[r].life /\ rt'[r].cancelled = rt[r].cancelled
      BY <3>2, <3>3, SetLeavesLife
    <3>4. QED
      BY <3>1, <3>3
  <2>3. QED
    BY <1>0, <2>1, <2>2, UndisturbedFrame
<1>4. ASSUME NEW c \in Callers, NewCall(c), ~Disturbs PROVE Undisturbed'
  BY <1>0, <1>4, UndisturbedNewCall DEF Disturbs
<1>5. ASSUME NEW r \in Runtimes, Restart(r) PROVE Undisturbed'
  <2>1. /\ created' /\ present' = present /\ reg' = NoRuntime
        /\ \A c \in Callers : call'[c].at = "idle"
        /\ \A q \in Runtimes : \/ rt'[q].life = "free"
                               \/ q = r /\ present /\ rt'[q].life = "spawned"
    BY <1>5 DEF Restart, Free, Idle
  <2>2. OneAtATime'
    BY <2>1 DEF OneAtATime, Bootstrapping
  <2>3. QED
    BY <2>1, <2>2 DEF Undisturbed, LiveIsRegistered, SpawnedIntoEmptyMap, StopsEmptyMap,
                      NothingYet, Live
<1>6. QED
  BY <1>0, <1>1, <1>2, <1>3, <1>4, <1>5, UndisturbedGoroutines, UndisturbedCall DEF Next

(***************************************************************************)
(* As long as calls wait for each other and for bootstraps, and sessions   *)
(* are saved, no runtime is left running out of reach: overlaps and failed *)
(* saves are all that leaks one, with any number of runtimes and callers.  *)
(***************************************************************************)
THEOREM OnlyDisturbancesLeak == HistorySpec => []NoLeakUndisturbed
<1>1. HistoryInit => TypeOK /\ GoodRec /\ UndisturbedInv
  <2>1. HistoryInit => UndisturbedInv
    BY DEF HistoryInit, Init, UndisturbedInv, OneAtATime, LiveIsRegistered,
           SpawnedIntoEmptyMap, StopsEmptyMap, NothingYet, Bootstrapping, Live, Free, Idle
  <2>2. QED
    BY <2>1, TypedInit DEF HistoryInit
<1>2. TypeOK /\ GoodRec /\ UndisturbedInv /\ [HistoryNext]_historyVars =>
        TypeOK' /\ GoodRec' /\ UndisturbedInv'
  <2>1. [HistoryNext]_historyVars => [Next]_vars
    BY DEF HistoryNext, historyVars
  <2>2. QED
    BY <2>1, TypedStep, UndisturbedStep
<1>3. UndisturbedInv => NoLeakUndisturbed
  BY DEF UndisturbedInv, NoLeakUndisturbed, NoLeak, LiveIsRegistered, Live
<1>4. QED
  BY <1>1, <1>2, <1>3, PTL DEF HistorySpec
=============================================================================
