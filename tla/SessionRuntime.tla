---------------------------- MODULE SessionRuntime ----------------------------
(***************************************************************************)
(* The life of one session in internal/service: the calls of the API       *)
(* (session_service.go), the runtimes they create and end                  *)
(* (torrent_runtime_manager.go), the three goroutines of each runtime, the *)
(* streams players hold open, and the session record all of them update.   *)
(*                                                                         *)
(* Sessions do not share state, so one is enough.  Its id may get several  *)
(* runtimes: one per bootstrapSession.  A step is a section of code that   *)
(* runs under one lock, or one repository update: the repository's mutex   *)
(* makes an update atomic (FileSessionRepository models what it does to    *)
(* the file).  Everything captured before a step and used after it is kept *)
(* in the state of the goroutine that captured it.                         *)
(***************************************************************************)
EXTENDS Naturals, FiniteSets

CONSTANTS Runtimes,   \* bound: runtimes of the session alive at the same time
          NoRuntime,
          Callers,    \* bound: API calls in progress at the same time
          Streams,    \* bound: GET /streams requests in progress at the same time
          SaveMayFail \* whether CreateSession's write to the disk can fail

ASSUME NoRuntimeIsNone == NoRuntime \notin Runtimes
ASSUME StreamsFinite == IsFiniteSet(Streams)
ASSUME SaveMayFailType == SaveMayFail \in BOOLEAN

VARIABLES
  created,    \* CreateSession has been called for this id
  present,    \* the repository has the session
  rec,        \* its record
  reg,        \* manager.runtimes[id]
  rt,         \* the fields of each runtime
  waiter,     \* program counter of waitForMetadata, per runtime
  metrics,    \* program counter of refreshMetrics, per runtime
  events,     \* whether consumePieceStateChanges is running, per runtime
  snap,       \* what refreshMetrics captured before its update
  call,       \* each API call: what it is, where it is, the runtime it holds
  stream      \* each stream: where it is, its runtime, the one it looked up, the
              \*   count it captured

vars == <<created, present, rec, reg, rt, waiter, metrics, events, snap, call, stream>>

(***************************************************************************)
(* The record keeps the states other code reads.  "err" is LastError # "", *)
(* and the status "settled" stands for Stalled, Completed, Ready and       *)
(* Downloading, which only differ by figures that are not modelled.        *)
(***************************************************************************)
Records ==
  [meta   : {"pending", "resolving", "ready", "error"},
   dl     : {"queued", "downloading", "paused", "completed", "error"},
   stream : {"unavailable", "ready", "streaming", "error"},
   err    : BOOLEAN,
   status : {"error", "waiting", "streaming", "settled"}]

RuntimeFields ==
  [life      : {"free", "spawned", "registered", "running"},
   cancelled : BOOLEAN,     \* cancel() and Drop()
   paused    : BOOLEAN,
   file      : BOOLEAN,     \* selectedFile # nil
   active    : Nat]       \* activeStreamRequests

Snapshots == [paused : BOOLEAN, file : BOOLEAN, active : Nat]

Calls == [at : {"idle", "pausing", "resuming", "unregister", "stopping", "deleting"},
          then : {"idle", "deleting"},
          rt : Runtimes \cup {NoRuntime}]

StreamStates == [at : {"idle", "counted", "open", "subscribing", "serving", "recording",
                       "closing", "releasing"},
                 rt : Runtimes \cup {NoRuntime},     \* counted on it
                 held : Runtimes \cup {NoRuntime},   \* found by PrepareRangeDownload
                 n : Nat]

TypeOK ==
  /\ created \in BOOLEAN
  /\ present \in BOOLEAN
  /\ rec \in Records
  /\ reg \in Runtimes \cup {NoRuntime}
  /\ rt \in [Runtimes -> RuntimeFields]
  /\ waiter \in [Runtimes -> {"off", "check", "select", "fallback", "publish", "end"}]
  /\ metrics \in [Runtimes -> {"off", "select", "apply", "end"}]
  /\ events \in [Runtimes -> {"off", "on"}]
  /\ snap \in [Runtimes -> Snapshots]
  /\ call \in [Callers -> Calls]
  /\ stream \in [Streams -> StreamStates]

Free == [life |-> "free", cancelled |-> FALSE, paused |-> FALSE, file |-> FALSE, active |-> 0]
NoSnapshot == [paused |-> FALSE, file |-> FALSE, active |-> 0]
Idle == [at |-> "idle", then |-> "idle", rt |-> NoRuntime]
NoStream == [at |-> "idle", rt |-> NoRuntime, held |-> NoRuntime, n |-> 0]
NewRecord == [meta |-> "pending", dl |-> "queued", stream |-> "unavailable",
              err |-> FALSE, status |-> "waiting"]

Init ==
  /\ created = FALSE
  /\ present = FALSE
  /\ rec = NewRecord
  /\ reg = NoRuntime
  /\ rt = [r \in Runtimes |-> Free]
  /\ waiter = [r \in Runtimes |-> "off"]
  /\ metrics = [r \in Runtimes |-> "off"]
  /\ events = [r \in Runtimes |-> "off"]
  /\ snap = [r \in Runtimes |-> NoSnapshot]
  /\ call = [c \in Callers |-> Idle]
  /\ stream = [s \in Streams |-> NoStream]

-----------------------------------------------------------------------------
(* The record.                                                             *)

(***************************************************************************)
(* refreshSessionDerivedFields: the status first, from the stream state as *)
(* the caller left it, and only then the stream state from the count.      *)
(***************************************************************************)
StatusOf(s, n) ==
  CASE s.err                                              -> "error"
    [] ~s.err /\ s.meta # "ready"                         -> "waiting"
    [] ~s.err /\ s.meta = "ready"
         /\ (s.stream = "streaming" \/ n > 0)             -> "streaming"
    [] OTHER                                              -> "settled"

StreamOf(s, n) ==
  CASE n > 0                                              -> "streaming"
    [] n = 0 /\ s.stream = "streaming" /\ s.meta = "ready" -> "ready"
    [] n = 0 /\ s.stream = "streaming" /\ s.meta # "ready" -> "unavailable"
    [] OTHER                                              -> s.stream

Refresh(s, n) == [s EXCEPT !.status = StatusOf(s, n), !.stream = StreamOf(s, n)]

(* UpdateByID and UpdateByIDTransient: nothing happens to an absent session. *)
UpdateRecord(s) == rec' = IF present THEN s ELSE rec

(* activeStreamRequests, called from inside an update. *)
RegisteredCount == IF reg = NoRuntime THEN 0 ELSE rt[reg].active

Failed == Refresh([rec EXCEPT !.meta = "error", !.dl = "error", !.stream = "error",
                              !.err = TRUE], RegisteredCount)

Resolving == [rec EXCEPT !.meta = "resolving", !.dl = "queued", !.stream = "unavailable"]

-----------------------------------------------------------------------------
(* Starting a runtime.                                                     *)

(***************************************************************************)
(* A slot is one sessionRuntime object.  It is taken again when nothing    *)
(* refers to the object any more.                                          *)
(***************************************************************************)
Ended(r) == waiter[r] = "end" /\ metrics[r] = "end" /\ events[r] = "off"

Collectable(r) ==
  /\ rt[r].life = "running"
  /\ reg # r
  /\ Ended(r)
  /\ \A c \in Callers : call[c].rt # r
  /\ \A s \in Streams : stream[s].rt # r /\ stream[s].held # r

Available(r) == rt[r].life = "free" \/ Collectable(r)

(* go bootstrapSession *)
Spawn(r) ==
  /\ Available(r)
  /\ rt' = [rt EXCEPT ![r] = [Free EXCEPT !.life = "spawned"]]
  /\ waiter' = [waiter EXCEPT ![r] = "off"]
  /\ metrics' = [metrics EXCEPT ![r] = "off"]
  /\ events' = [events EXCEPT ![r] = "off"]
  /\ snap' = [snap EXCEPT ![r] = NoSnapshot]

(***************************************************************************)
(* CreateSession: Save, whose failure the caller does not see, and the     *)
(* bootstrap of the session whether it was saved or not.                   *)
(***************************************************************************)
CreateSession(r, saved) ==
  /\ ~created
  /\ saved \/ SaveMayFail
  /\ created' = TRUE
  /\ present' = saved
  /\ rec' = Refresh(NewRecord, 0)
  /\ Spawn(r)
  /\ UNCHANGED <<reg, call, stream>>

(* AddMagnet refuses the link: failSession. *)
BootstrapFails(r) ==
  /\ rt[r].life = "spawned"
  /\ rt' = [rt EXCEPT ![r] = Free]
  /\ UpdateRecord(Failed)
  /\ UNCHANGED <<created, present, reg, waiter, metrics, events, snap, call, stream>>

(* The runtime replaces whatever is registered under the id. *)
BootstrapRegisters(r) ==
  /\ rt[r].life = "spawned"
  /\ rt' = [rt EXCEPT ![r].life = "registered"]
  /\ reg' = r
  /\ UNCHANGED <<created, present, rec, waiter, metrics, events, snap, call, stream>>

(* The record starts over, and the first two goroutines start in any case. *)
BootstrapPublishes(r) ==
  /\ rt[r].life = "registered"
  /\ rt' = [rt EXCEPT ![r].life = "running"]
  /\ UpdateRecord(Refresh([Resolving EXCEPT !.err = FALSE], 0))
  /\ waiter' = [waiter EXCEPT ![r] = "check"]
  /\ metrics' = [metrics EXCEPT ![r] = "select"]
  /\ UNCHANGED <<created, present, reg, events, snap, call, stream>>

Bootstrap(r) == BootstrapFails(r) \/ BootstrapRegisters(r) \/ BootstrapPublishes(r)

-----------------------------------------------------------------------------
(***************************************************************************)
(* waitForMetadata.  Whether torrent.Info() is there when the loop looks   *)
(* (peers and HTTP sources provide it, at any time, to a torrent that may  *)
(* be shared by two runtimes) is a free choice at each look.               *)
(***************************************************************************)

(* The soft warning and the ten minute deadline make the same update. *)
MetadataSlow ==
  \/ UpdateRecord(IF rec.err THEN rec ELSE Refresh(Resolving, RegisteredCount))
  \/ UNCHANGED rec

(* Top of the loop, no metadata yet. *)
WaiterFindsNothing(r) ==
  /\ waiter[r] = "check"
  /\ waiter' = [waiter EXCEPT ![r] = "select"]
  /\ MetadataSlow
  /\ UNCHANGED <<created, present, reg, rt, metrics, events, snap, call, stream>>

(* The retry ticker, which select may prefer to a context already done. *)
WaiterRetries(r) ==
  /\ waiter[r] = "select"
  /\ \E next \in {"check", "fallback"} : waiter' = [waiter EXCEPT ![r] = next]
  /\ MetadataSlow
  /\ UNCHANGED <<created, present, reg, rt, metrics, events, snap, call, stream>>

(* tryInjectMetadataFallback, on every third retry: a source is merged, or none. *)
WaiterFallsBack(r) ==
  /\ waiter[r] = "fallback"
  /\ waiter' = [waiter EXCEPT ![r] = "check"]
  /\ \/ UpdateRecord(IF rec.err THEN rec ELSE Refresh(rec, RegisteredCount))
     \/ UNCHANGED rec
  /\ UNCHANGED <<created, present, reg, rt, metrics, events, snap, call, stream>>

WaiterCancelled(r) ==
  /\ waiter[r] = "select"
  /\ rt[r].cancelled
  /\ waiter' = [waiter EXCEPT ![r] = "end"]
  /\ UNCHANGED <<created, present, rec, reg, rt, metrics, events, snap, call, stream>>

(* Past the loop the context is not looked at again. *)
WaiterFindsNoFile(r) ==
  /\ waiter[r] = "check"
  /\ waiter' = [waiter EXCEPT ![r] = "end"]
  /\ UpdateRecord(Failed)
  /\ UNCHANGED <<created, present, reg, rt, metrics, events, snap, call, stream>>

(* The piece events start before the file is set, and do nothing without it. *)
WaiterSelectsFile(r) ==
  /\ waiter[r] = "check"
  /\ events' = [events EXCEPT ![r] = "on"]
  /\ rt' = [rt EXCEPT ![r].file = TRUE]
  /\ waiter' = [waiter EXCEPT ![r] = "publish"]
  /\ UNCHANGED <<created, present, rec, reg, metrics, snap, call, stream>>

WaiterPublishes(r) ==
  /\ waiter[r] = "publish"
  /\ waiter' = [waiter EXCEPT ![r] = "end"]
  /\ UpdateRecord(Refresh([rec EXCEPT !.meta = "ready", !.dl = "downloading",
                                      !.stream = "ready", !.err = FALSE],
                          RegisteredCount))
  /\ UNCHANGED <<created, present, reg, rt, metrics, events, snap, call, stream>>

Waiter(r) ==
  \/ WaiterFindsNothing(r)
  \/ WaiterRetries(r)
  \/ WaiterFallsBack(r)
  \/ WaiterFindsNoFile(r)
  \/ WaiterSelectsFile(r)
  \/ WaiterPublishes(r)

-----------------------------------------------------------------------------
(* refreshMetrics.                                                         *)

(* A tick: the fields are captured under the runtime's mutex. *)
MetricsCapture(r) ==
  /\ metrics[r] = "select"
  /\ metrics' = [metrics EXCEPT ![r] = "apply"]
  /\ snap' = [snap EXCEPT ![r] = [paused |-> rt[r].paused, file |-> rt[r].file,
                                  active |-> rt[r].active]]
  /\ UNCHANGED <<created, present, rec, reg, rt, waiter, events, call, stream>>

(***************************************************************************)
(* done: downloadedBytes has reached totalBytes, the selected file's       *)
(* figures being left out of the model.                                    *)
(***************************************************************************)
DownloadStateOf(m, done) ==
  CASE m.file /\ done                  -> "completed"
    [] ~(m.file /\ done) /\ m.paused   -> "paused"
    [] m.file /\ ~done /\ ~m.paused    -> "downloading"
    [] OTHER                           -> "queued"

(* Mutant: the captured figures overwrite a failure, whose error stays. *)
MeasuredIgnoringError(m, done) ==
  [rec EXCEPT !.meta = IF m.file THEN "ready" ELSE "resolving",
              !.dl = DownloadStateOf(m, done),
              !.stream = CASE ~m.file                 -> "unavailable"
                           [] m.file /\ m.active > 0  -> "streaming"
                           [] m.file /\ m.active = 0  -> "ready"]

Measured(m, done) ==
  IF rec.err
  THEN [rec EXCEPT !.meta = "error", !.dl = "error", !.stream = "error"]
  ELSE [rec EXCEPT !.meta = IF m.file THEN "ready" ELSE "resolving",
                   !.dl = DownloadStateOf(m, done),
                   !.stream = CASE ~m.file                 -> "unavailable"
                                [] m.file /\ m.active > 0  -> "streaming"
                                [] m.file /\ m.active = 0  -> "ready"]

(* Mutant: only the figures are refreshed once the session is streaming. *)
MetricsApplySkipsStreaming(r, done) ==
  /\ metrics[r] = "apply"
  /\ metrics' = [metrics EXCEPT ![r] = "select"]
  /\ UpdateRecord(IF rec.stream = "streaming" THEN rec
                  ELSE Refresh(Measured(snap[r], done), snap[r].active))
  /\ snap' = [snap EXCEPT ![r] = NoSnapshot]
  /\ UNCHANGED <<created, present, reg, rt, waiter, events, call, stream>>

(* The update uses what was captured, whatever happened in between. *)
MetricsApply(r, done) ==
  /\ metrics[r] = "apply"
  /\ metrics' = [metrics EXCEPT ![r] = "select"]
  /\ UpdateRecord(Refresh(Measured(snap[r], done), snap[r].active))
  /\ snap' = [snap EXCEPT ![r] = NoSnapshot]
  /\ UNCHANGED <<created, present, reg, rt, waiter, events, call, stream>>

(* Mutant: the goroutine waits for the streams it counts to be closed. *)
MetricsCancelledWhenUnused(r) ==
  /\ metrics[r] = "select"
  /\ rt[r].cancelled
  /\ rt[r].active = 0
  /\ metrics' = [metrics EXCEPT ![r] = "end"]
  /\ UNCHANGED <<created, present, rec, reg, rt, waiter, events, snap, call, stream>>

MetricsCancelled(r) ==
  /\ metrics[r] = "select"
  /\ rt[r].cancelled
  /\ metrics' = [metrics EXCEPT ![r] = "end"]
  /\ UNCHANGED <<created, present, rec, reg, rt, waiter, events, snap, call, stream>>

-----------------------------------------------------------------------------
(***************************************************************************)
(* consumePieceStateChanges.  Of what it does (StreamWindow), only         *)
(* recoverStalledCriticalPieces writes the record, after any event.        *)
(***************************************************************************)
EventsRecover(r) ==
  /\ events[r] = "on"
  /\ rt[r].file
  /\ UpdateRecord(Refresh(rec, RegisteredCount))
  /\ UNCHANGED <<created, present, reg, rt, waiter, metrics, events, snap, call, stream>>

(* The context is done, and Drop has closed the subscription. *)
EventsEnd(r) ==
  /\ events[r] = "on"
  /\ rt[r].cancelled
  /\ events' = [events EXCEPT ![r] = "off"]
  /\ UNCHANGED <<created, present, rec, reg, rt, waiter, metrics, snap, call, stream>>

-----------------------------------------------------------------------------
(* Streams.                                                                *)

(***************************************************************************)
(* openStream: refused without a runtime, on a paused one, or before the   *)
(* file is selected.  The count is captured with the increment.            *)
(***************************************************************************)
OpenStream(s) ==
  /\ stream[s].at = "idle"
  /\ reg # NoRuntime
  /\ ~rt[reg].paused
  /\ rt[reg].file
  /\ rt' = [rt EXCEPT ![reg].active = @ + 1]
  /\ stream' = [stream EXCEPT ![s] = [at |-> "counted", rt |-> reg, held |-> NoRuntime,
                                      n |-> rt[reg].active + 1]]
  /\ UNCHANGED <<created, present, rec, reg, waiter, metrics, events, snap, call>>

MarkStreaming(s) ==
  /\ stream[s].at = "counted"
  /\ UpdateRecord(Refresh([rec EXCEPT !.stream = "streaming"], stream[s].n))
  /\ stream' = [stream EXCEPT ![s].at = "open", ![s].n = 0]
  /\ UNCHANGED <<created, present, reg, rt, waiter, metrics, events, snap, call>>

(***************************************************************************)
(* PrepareRangeDownload: the runtime is looked up again, and its piece     *)
(* events started if they are not running, also when it was cancelled      *)
(* meanwhile.                                                              *)
(***************************************************************************)
PrepareRange(s) ==
  /\ stream[s].at = "open"
  /\ reg # NoRuntime
  /\ rt[reg].file
  /\ stream' = [stream EXCEPT ![s].at = "subscribing", ![s].held = reg]
  /\ UNCHANGED <<created, present, rec, reg, rt, waiter, metrics, events, snap, call>>

EnsureSubscription(s) ==
  /\ stream[s].at = "subscribing"
  /\ events' = [events EXCEPT ![stream[s].held] = "on"]
  /\ stream' = [stream EXCEPT ![s].at = "serving", ![s].held = NoRuntime]
  /\ UNCHANGED <<created, present, rec, reg, rt, waiter, metrics, snap, call>>

(* No runtime, no file or no range to prepare for. *)
PrepareNothing(s) ==
  /\ stream[s].at = "open"
  /\ stream' = [stream EXCEPT ![s].at = "serving"]
  /\ UNCHANGED <<created, present, rec, reg, rt, waiter, metrics, events, snap, call>>

(***************************************************************************)
(* recordRangeActivity, which is also called for a request that was        *)
(* refused (a method, a paused session) and counts on no runtime.          *)
(***************************************************************************)
RecordRange(s) ==
  /\ stream[s].at \in {"idle", "serving"}
  /\ reg # NoRuntime
  /\ stream' = [stream EXCEPT ![s].at = "recording", ![s].n = rt[reg].active]
  /\ UNCHANGED <<created, present, rec, reg, rt, waiter, metrics, events, snap, call>>

RecordNoRange(s) ==
  /\ stream[s].at = "serving"
  /\ reg = NoRuntime
  /\ stream' = [stream EXCEPT ![s].at = "closing"]
  /\ UNCHANGED <<created, present, rec, reg, rt, waiter, metrics, events, snap, call>>

MarkRange(s) ==
  /\ stream[s].at = "recording"
  /\ UpdateRecord(Refresh(rec, stream[s].n))
  /\ stream' = [stream EXCEPT ![s].at = IF stream[s].rt = NoRuntime THEN "idle" ELSE "closing",
                              ![s].n = 0]
  /\ UNCHANGED <<created, present, reg, rt, waiter, metrics, events, snap, call>>

(* Mutant: a closed stream leaves its count behind. *)
ReleaseStreamForgets(s) ==
  /\ stream[s].at = "closing"
  /\ reg # NoRuntime
  /\ stream' = [stream EXCEPT ![s] = [at |-> "releasing", rt |-> NoRuntime,
                                      held |-> NoRuntime, n |-> rt[reg].active]]
  /\ UNCHANGED <<created, present, rec, reg, rt, waiter, metrics, events, snap, call>>

(* Mutant: the decrement trusts the count to be the one of this stream. *)
ReleaseStreamUnguarded(s) ==
  /\ stream[s].at = "closing"
  /\ reg # NoRuntime
  /\ rt' = [rt EXCEPT ![reg].active = @ - 1]
  /\ stream' = [stream EXCEPT ![s] = [at |-> "releasing", rt |-> NoRuntime,
                                      held |-> NoRuntime, n |-> rt[reg].active]]
  /\ UNCHANGED <<created, present, rec, reg, waiter, metrics, events, snap, call>>

(***************************************************************************)
(* releaseStream: the runtime is looked up by the session id, so it need   *)
(* not be the one the stream was counted on, and there may be none.        *)
(***************************************************************************)
ReleaseStream(s) ==
  /\ stream[s].at = "closing"
  /\ reg # NoRuntime
  /\ LET left == IF rt[reg].active > 0 THEN rt[reg].active - 1 ELSE 0
     IN  /\ rt' = [rt EXCEPT ![reg].active = left]
         /\ stream' = [stream EXCEPT ![s] = [at |-> "releasing", rt |-> NoRuntime,
                                             held |-> NoRuntime, n |-> left]]
  /\ UNCHANGED <<created, present, rec, reg, waiter, metrics, events, snap, call>>

ReleaseStreamAlone(s) ==
  /\ stream[s].at = "closing"
  /\ reg = NoRuntime
  /\ stream' = [stream EXCEPT ![s] = NoStream]
  /\ UNCHANGED <<created, present, rec, reg, rt, waiter, metrics, events, snap, call>>

ReleasedState ==
  CASE rec.err                             -> "error"
    [] ~rec.err /\ rec.meta = "ready"      -> "ready"
    [] OTHER                               -> "unavailable"

MarkReleased(s) ==
  /\ stream[s].at = "releasing"
  /\ UpdateRecord(Refresh([rec EXCEPT !.stream = ReleasedState], stream[s].n))
  /\ stream' = [stream EXCEPT ![s] = NoStream]
  /\ UNCHANGED <<created, present, reg, rt, waiter, metrics, events, snap, call>>

-----------------------------------------------------------------------------
(* The calls of the API.  Each first looks the session up.                 *)

Accepted(c) == call[c].at = "idle" /\ present

Goto(c, at) == call' = [call EXCEPT ![c].at = at]
Return(c) == call' = [call EXCEPT ![c] = Idle]

PauseSession(c) ==
  /\ Accepted(c)
  /\ reg # NoRuntime
  /\ rt' = [rt EXCEPT ![reg].paused = TRUE]
  /\ Goto(c, "pausing")
  /\ UNCHANGED <<created, present, rec, reg, waiter, metrics, events, snap, stream>>

(* Whatever the metadata or the error, the stream state becomes ready. *)
MarkPaused(c) ==
  /\ call[c].at = "pausing"
  /\ UpdateRecord(Refresh([rec EXCEPT !.dl = "paused", !.stream = "ready"],
                          RegisteredCount))
  /\ Return(c)
  /\ UNCHANGED <<created, present, reg, rt, waiter, metrics, events, snap, stream>>

ResumeSession(c) ==
  /\ Accepted(c)
  /\ reg # NoRuntime
  /\ rt' = [rt EXCEPT ![reg].paused = FALSE]
  /\ Goto(c, "resuming")
  /\ UNCHANGED <<created, present, rec, reg, waiter, metrics, events, snap, stream>>

MarkResumed(c) ==
  /\ call[c].at = "resuming"
  /\ UpdateRecord(Refresh([rec EXCEPT !.dl = IF rec.meta = "ready" THEN "downloading"
                                             ELSE rec.dl], RegisteredCount))
  /\ Return(c)
  /\ UNCHANGED <<created, present, reg, rt, waiter, metrics, events, snap, stream>>

(* recoverSession: no runtime is registered, so one is started. *)
ResumeWithoutRuntime(c, r) ==
  /\ Accepted(c)
  /\ reg = NoRuntime
  /\ Spawn(r)
  /\ UNCHANGED <<created, present, rec, reg, call, stream>>

(* Mutant: the entry goes, the goroutines and the torrent stay. *)
StopSessionWithoutCancel(c, then) ==
  /\ Accepted(c)
  /\ reg # NoRuntime
  /\ call' = [call EXCEPT ![c] = [at |-> "unregister", then |-> then, rt |-> reg]]
  /\ UNCHANGED <<created, present, rec, reg, rt, waiter, metrics, events, snap, stream>>

(***************************************************************************)
(* stopSession, also called by DeleteSession (then = "deleting").  The     *)
(* runtime found first is the one cancelled; the one unregistered later is *)
(* whatever the map then holds.                                            *)
(***************************************************************************)
StopSession(c, then) ==
  /\ Accepted(c)
  /\ reg # NoRuntime
  /\ rt' = [rt EXCEPT ![reg].cancelled = TRUE]
  /\ call' = [call EXCEPT ![c] = [at |-> "unregister", then |-> then, rt |-> reg]]
  /\ UNCHANGED <<created, present, rec, reg, waiter, metrics, events, snap, stream>>

(* Mutant: the entry of the stopped runtime stays in the map. *)
UnregisterForgets(c) ==
  /\ call[c].at = "unregister"
  /\ call' = [call EXCEPT ![c].at = "stopping", ![c].rt = NoRuntime]
  /\ UNCHANGED <<created, present, rec, reg, rt, waiter, metrics, events, snap, stream>>

Unregister(c) ==
  /\ call[c].at = "unregister"
  /\ reg' = NoRuntime
  /\ call' = [call EXCEPT ![c].at = "stopping", ![c].rt = NoRuntime]
  /\ UNCHANGED <<created, present, rec, rt, waiter, metrics, events, snap, stream>>

MarkStopped(c) ==
  /\ call[c].at = "stopping"
  /\ UpdateRecord(Refresh([rec EXCEPT !.stream = "unavailable"], 0))
  /\ call' = [call EXCEPT ![c] = [at |-> call[c].then, then |-> "idle", rt |-> NoRuntime]]
  /\ UNCHANGED <<created, present, reg, rt, waiter, metrics, events, snap, stream>>

(* DeleteSession of a session without a runtime has nothing to stop. *)
DeleteWithoutRuntime(c) ==
  /\ Accepted(c)
  /\ reg = NoRuntime
  /\ Goto(c, "deleting")
  /\ UNCHANGED <<created, present, rec, reg, rt, waiter, metrics, events, snap, stream>>

(* DeleteByID, or the write it needs failing: the session stays. *)
DeleteRecord(c) ==
  /\ call[c].at = "deleting"
  /\ present' \in {FALSE, present}
  /\ Return(c)
  /\ UNCHANGED <<created, rec, reg, rt, waiter, metrics, events, snap, stream>>

-----------------------------------------------------------------------------
(***************************************************************************)
(* The process is restarted: RecoverSessionsOnStartup bootstraps every     *)
(* session it loads, whatever its state was.                               *)
(***************************************************************************)
Restart(r) ==
  /\ created
  /\ rt' = [q \in Runtimes |-> IF q = r /\ present THEN [Free EXCEPT !.life = "spawned"]
                               ELSE Free]
  /\ reg' = NoRuntime
  /\ waiter' = [q \in Runtimes |-> "off"]
  /\ metrics' = [q \in Runtimes |-> "off"]
  /\ events' = [q \in Runtimes |-> "off"]
  /\ snap' = [q \in Runtimes |-> NoSnapshot]
  /\ call' = [c \in Callers |-> Idle]
  /\ stream' = [s \in Streams |-> NoStream]
  /\ UNCHANGED <<created, present, rec>>

Goroutines(r) ==
  \/ BootstrapFails(r)
  \/ BootstrapRegisters(r)
  \/ BootstrapPublishes(r)
  \/ Waiter(r)
  \/ WaiterCancelled(r)
  \/ MetricsCapture(r)
  \/ \E done \in BOOLEAN : MetricsApply(r, done)
  \/ MetricsCancelled(r)
  \/ EventsRecover(r)
  \/ EventsEnd(r)

Streaming(s) ==
  \/ OpenStream(s)
  \/ MarkStreaming(s)
  \/ PrepareRange(s)
  \/ EnsureSubscription(s)
  \/ PrepareNothing(s)
  \/ RecordRange(s)
  \/ RecordNoRange(s)
  \/ MarkRange(s)
  \/ ReleaseStream(s)
  \/ ReleaseStreamAlone(s)
  \/ MarkReleased(s)

NewCall(c) ==
  \/ PauseSession(c)
  \/ ResumeSession(c)
  \/ \E r \in Runtimes : ResumeWithoutRuntime(c, r)
  \/ \E then \in {"idle", "deleting"} : StopSession(c, then)
  \/ DeleteWithoutRuntime(c)

CallProceeds(c) ==
  \/ MarkPaused(c)
  \/ MarkResumed(c)
  \/ Unregister(c)
  \/ MarkStopped(c)
  \/ DeleteRecord(c)

Next ==
  \/ \E r \in Runtimes, saved \in BOOLEAN : CreateSession(r, saved)
  \/ \E r \in Runtimes : Goroutines(r)
  \/ \E s \in Streams : Streaming(s)
  \/ \E c \in Callers : NewCall(c) \/ CallProceeds(c)
  \/ \E r \in Runtimes : Restart(r)

Spec == Init /\ [][Next]_vars

(***************************************************************************)
(* Fairness.  Goroutines that can run do run; the tickers tick; select     *)
(* chooses among ready branches at random, so a context that is done is    *)
(* not passed over for ever (strong fairness).  Users owe nothing: no call *)
(* has to be made and no stream has to be opened or to stop being served.  *)
(***************************************************************************)
StreamProceeds(s) ==
  \/ MarkStreaming(s)
  \/ PrepareRange(s) \/ EnsureSubscription(s) \/ PrepareNothing(s)
  \/ MarkRange(s)
  \/ ReleaseStream(s) \/ ReleaseStreamAlone(s)
  \/ MarkReleased(s)

Fairness ==
  /\ \A r \in Runtimes :
       /\ WF_vars(Bootstrap(r) \/ Waiter(r))
       /\ SF_vars(WaiterCancelled(r))
       /\ WF_vars(MetricsCapture(r) \/ \E done \in BOOLEAN : MetricsApply(r, done))
       /\ SF_vars(MetricsCancelled(r))
       /\ WF_vars(EventsEnd(r))
  /\ \A s \in Streams : WF_vars(StreamProceeds(s))
  /\ \A c \in Callers : WF_vars(CallProceeds(c))

FairSpec == Spec /\ Fairness

(***************************************************************************)
(* No call and no bootstrap is in progress.                                *)
(***************************************************************************)
NothingPending ==
  /\ \A c \in Callers : call[c].at = "idle"
  /\ \A r \in Runtimes : rt[r].life \notin {"spawned", "registered"}

-----------------------------------------------------------------------------
(* Properties.                                                             *)

(***************************************************************************)
(* Fourteen updates write the states of the record: the bootstrap, three   *)
(* goroutines of each runtime, streams and calls, with values captured     *)
(* earlier, in any order.  Whatever the order, the error, the metadata     *)
(* state and the status never contradict each other, and an error state is *)
(* never shown without an error.                                           *)
(***************************************************************************)
RecordCoherent ==
  /\ rec.err <=> rec.meta = "error"
  /\ rec.err <=> rec.status = "error"
  /\ ~rec.err => (rec.status = "waiting" <=> rec.meta # "ready")
  /\ rec.stream = "error" \/ rec.dl = "error" => rec.err

(***************************************************************************)
(* stopSession cancels one runtime and later unregisters whatever the map  *)
(* holds (lines 751-763), while bootstraps replace the entry.  Even so, a  *)
(* lookup finds a cancelled runtime only while the call that cancelled it  *)
(* is about to unregister it.                                              *)
(***************************************************************************)
RegisteredIsLive ==
  reg # NoRuntime /\ rt[reg].cancelled =>
    \E c \in Callers : call[c].at = "unregister" /\ call[c].rt = reg

(***************************************************************************)
(* What makes RegisteredIsLive inductive: an object enters the map once,   *)
(* before anybody can cancel it, and is not reused while it is in the map. *)
(***************************************************************************)
LifeInv ==
  /\ RegisteredIsLive
  /\ reg # NoRuntime => rt[reg].life \in {"registered", "running"}
  /\ \A r \in Runtimes : rt[r].life \in {"free", "spawned"} => ~rt[r].cancelled

(***************************************************************************)
(* A stream counts on the runtime it found and gives back to the runtime   *)
(* registered when it ends (lines 561-583, 613-622): the registered one    *)
(* never counts a stream that is no longer open, which would show the      *)
(* session as streaming for ever.                                          *)
(***************************************************************************)
CountedOn(r) == {s \in Streams : stream[s].rt = r}

NeverOvercounts == reg # NoRuntime => rt[reg].active <= Cardinality(CountedOn(reg))

(***************************************************************************)
(* What makes NeverOvercounts inductive: an object enters the map with     *)
(* nothing counted on it, and a stream that is not open is counted nowhere.*)
(***************************************************************************)
CountInv ==
  /\ NeverOvercounts
  /\ \A r \in Runtimes : rt[r].life \in {"free", "spawned"} => rt[r].active = 0
  /\ \A s \in Streams : stream[s].at \in {"idle", "releasing"} => stream[s].rt = NoRuntime

(***************************************************************************)
(* "no goroutine leak after a session has ended" (MVP to-do list): when no *)
(* call and no bootstrap is in progress, every runtime whose goroutines    *)
(* and torrent are alive can be reached, and so ended, through the API.    *)
(***************************************************************************)
NoLeak ==
  NothingPending =>
    \A r \in Runtimes : rt[r].life = "running" /\ ~rt[r].cancelled => reg = r /\ present

(***************************************************************************)
(* Nothing but the metrics of one live runtime is going on.                *)
(***************************************************************************)
Quiet(r) ==
  /\ present
  /\ reg = r
  /\ rt[r].life = "running" /\ ~rt[r].cancelled
  /\ rt[r].file /\ waiter[r] = "end"
  /\ \A q \in Runtimes \ {r} : rt[q].life = "free" \/ (rt[q].life = "running" /\ Ended(q))
  /\ \A c \in Callers : call[c].at = "idle"
  /\ \A s \in Streams : stream[s].at \in {"idle", "serving"}

Shown(r) ==
  IF rec.err
  THEN /\ rec.meta = "error" /\ rec.dl = "error" /\ rec.status = "error"
       /\ rec.stream = IF rt[r].active > 0 THEN "streaming" ELSE "error"
  ELSE /\ rec.meta = "ready"
       /\ rec.dl \in IF rt[r].paused THEN {"paused", "completed"}
                     ELSE {"downloading", "completed"}
       /\ rec.stream = IF rt[r].active > 0 THEN "streaming" ELSE "ready"
       /\ rec.status = IF rt[r].active > 0 THEN "streaming" ELSE "settled"

(***************************************************************************)
(* The updates of streams and calls may land out of order and leave the    *)
(* record wrong (lines 582-590, 622-648, 698-705).  refreshMetrics repairs *)
(* it: once nothing else happens to the session, the record comes to show  *)
(* the runtime as it is, and keeps showing it.                             *)
(***************************************************************************)
RecordSettles ==
  \A r \in Runtimes : <>[]Quiet(r) => <>[]Shown(r)

(***************************************************************************)
(* No cancelled runtime keeps a goroutine for ever (lines 331, 434, 1407), *)
(* also when it was cancelled before they started, whoever still holds a   *)
(* stream counted on it and whichever request starts its events again.     *)
(***************************************************************************)
GoroutinesEnd ==
  \A r \in Runtimes :
    []<>~(rt[r].life = "running" /\ rt[r].cancelled /\ ~Ended(r))
=============================================================================
