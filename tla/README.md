# TLA+ for BTDown_MA

BTDown_MA streams torrents: a desktop front end talks to a Go back end that
keeps *sessions* (one magnet link each), drives one torrent *runtime* per
session, and serves the selected file over HTTP with range requests. This
directory holds TLA+ modules translated from the Go source, the TLC
configurations that check them on small instances, and TLAPS proofs of the
properties that hold for every instance. Paths below are relative to `src/`.

## 1. Inventory

| component | state | operations | what is hard | what makes it correct |
|---|---|---|---|---|
| file session repository (`internal/repository/impl/file_session_repository.go`) | session map, `dirty`, `closed`, flush signal, the JSON file | Save, UpdateByID(Transient), DeleteByID, Flush, Close, flushLoop, load | truncate-then-write, failed writes and rollback, crash at any point, write-behind, shutdown | clean flag means on disk; every update reaches the disk; Close returns; callers see an atomic store |
| session service (`internal/service/session_service.go`) | none of its own | Create, Stop, Pause, Resume, Delete, RecoverSessionsOnStartup | each call is several steps over repository and manager | no session without a way to stop it, no runtime without a session |
| runtime manager (`internal/service/torrent_runtime_manager.go`) | `runtimes` map; per runtime: torrent, context, `paused`, `selectedFile`, stream count, window state | bootstrapSession, waitForMetadata, refreshMetrics, open/releaseStream, pause/resume/stop, fail | three goroutines per runtime, values captured under one lock and used under another, check-then-act on the map, cancellation | record coherent whatever the order of updates; counts never stuck; goroutines end; metrics repair the record |
| priority window (same file, 1206-1654) | window plan, generation, seek recovery, piece marks | PrepareRangeDownload, build/apply plan, piece events, stall recovery | plans built under a read lock and applied later; coordinates of the file and of the torrent | windows stay in the file; a request is served from its own window; only a seek starts a recovery; the window applied last keeps its priorities; only an overtaken plan takes the generation back |
| session state machine (`internal/service/session_state_machine.go`) | pure, over a session that changes | refreshSessionDerivedFields, health report, tiers | order of the derivations; scores, floors and thresholds | status and stream state agree with their inputs; better measures and waiting move the tier one way only |
| settings (`internal/service/settings_service.go`, manager `ApplySettings`) | file, memory, manager copy, rate limiters | load, update, normalise, validate, apply | persist outside the lock, three copies, limiters the client does not know | an update alone leaves all copies equal; limits reach the client |
| metadata search (manager, 257-404, 905-987, 1689-1732) | trackers given, their count, publicity, retries | bootstrap, retry, `.torrent` source, selection | settings change meanwhile; whether a torrent is private is known last | the count is of what was given; settings reach a waiting session; private torrents keep to their trackers |
| access log and overview (`internal/service/stream_access_buffer.go`, `observability_service.go`) | last 100 accesses | Add, ListRecent, GetOverview | capacity, records stamped before the lock, buckets of time, rules written twice | holds the last entries; the trend loses none of the recent ones; totals are sums |
| file selection (`internal/service/session_file_selection.go`) | pure | choosePrimaryFileDescriptor | ties | a media file if there is one, the largest, independent of order |
| dashboard (`frontend/.../useSessionDashboard.ts`) | sessions and overview shown, selection, loading flags | timer, loads, the user's requests, reloads | answers late, out of order or lost; reloads skipped | never goes back; every change is shown; what is selected is listed |
| application (`internal/bootstrap/application.go`) | - | start, shutdown | start over a damaged file; shutdown with goroutines running | recovery of all sessions |

Interactions. The API goroutines (one per request) and the three goroutines of
each runtime (metadata, metrics, piece events) meet in three places: the manager's map (`manager.mutex`), the
runtime's fields (`runtime.mutex`) and the session record
(`repository.mutex`). A handler takes one after the other, so between two sections
anything may happen. Where they do nest (the count read inside a repository
update, `torrent_runtime_manager.go:671`) the order is repository, manager (to
read), runtime, and nowhere the reverse: they cannot wait for each other in a
circle. The settings add a fourth place, the manager's copy, which each section
of a runtime reads anew. The dashboard meets the back end only in its requests,
the log only in its own lock. The repository is the only
component that persists sessions; its flush loop is the only background writer. The
torrent client is a library: its answers are free choices.

## 2. Modules

| module | models | kind |
|---|---|---|
| `SessionStore` | what a `SessionRepository` promises, with crashes | abstract specification |
| `FileSessionRepository` | the repository, its loop and its file | component; refines `SessionStore` |
| `MCFileSessionRepository` | instances for TLC | symmetry |
| `FileSessionRepositoryProofs` | type, invariant, refinement | proofs |
| `SessionRuntime` | one session: API calls, runtimes, goroutines, streams, record | component |
| `SessionRuntimeHistory` | the same with a note of what disturbs it, and what holds until then | history variable |
| `MCSessionRuntime` | instances of it for TLC | parts with bounds of their own, symmetry, view |
| `SessionRuntimeProofs` | type, record coherence, lookup, stream counts, leaks | proofs |
| `StreamWindow` | one runtime's priority window: stream requests, piece events, piece priorities | component |
| `StreamWindowHistory` | the same with notes of the window raised last and of plans that were overtaken | history variables |
| `MCStreamWindow` | instances of it for TLC | bound on requests, view |
| `StreamWindowProofs` | type, windows in the file, the requested piece, seek recovery, priorities, generations | proofs |
| `Settings` | the three copies of the settings, updates, rate limiters, restart | component |
| `SettingsProofs` | type, lone updates, limits | proofs |
| `MetadataSearch` | the trackers of one session, with the settings as they become | composes one runtime's search with `Settings` |
| `MCMetadataSearch` | instances for TLC, also of `Settings` | bounds |
| `MetadataSearchProofs` | type, the count, private torrents | proofs |
| `Dashboard` | the page's hook and the program as it sees it | component |
| `DashboardProofs` | type, loading, selection, order of what is shown | proofs |
| `StreamAccess` | the access log; the trend and totals made of it and of the sessions | component, with pure algorithms |
| `StreamAccessProofs` | type, the log, the trend, the totals | proofs |
| `SessionHealth` | the diagnosis of a session as measures, streams and time change | component, with pure algorithms |
| `SessionHealthProofs` | type, stalled sessions, both monotonicities | proofs |
| `MCObservation` | instances of the last three components for TLC | one component moves per behaviour |

### FileSessionRepository

Every method holds one mutex, so a method that touches only memory is one
action. `persistLocked` is several: the mutex holder is the variable `writer`
(`caller`, `loop`), and `os.WriteFile` is `Truncate` followed by `WriteDone` or
`WriteFails`; `OpenFails` stands for what fails before the file is touched.
`undo` is what Save and DeleteByID remember (`original`, `previousDirty`). The
loop's program counter separates leaving `select` (which consumes the signal)
from taking the mutex. `Crash` may happen at every step, also inside a write;
`Exit` is the process ending after Close; `Load` and `LoadFails` are the start.
The file is `blank` (missing or empty: loaded as no sessions), `intact` or
`torn` (a proper prefix of the JSON array: a parse error, so a panic).
A crash is one of the process, not of the machine: the file system keeps what
was written.

The refinement mapping: readers wait for the mutex, so while a write is in
progress the abstract content is still `undo.sessions`, and it becomes
`sessions` when the write ends. `durable` is what a start would load.

### SessionRuntime

Sessions share nothing but locks, so one session is modelled, with several
runtime objects (a runtime exists per `bootstrapSession`; nothing but the map
limits how many). A step is a section under one lock or one repository update.
What a goroutine captured earlier is in its own state: `snap[r]` for
`refreshMetrics`, `stream[s].n` for open, recorded range and release, `call[c].rt` for
`stopSession`. The order of sections in the code is kept: for instance stop is
`StopSession` (cancel and Drop), `Unregister` (deletes whatever is in the map),
`MarkStopped`. Joined into one step are only neighbours no other goroutine can
tell apart: a map lookup with the runtime section that follows it, the look at
`Info()` with the selection of the file.

The states of the record are written by fourteen updates, each of which ends in
`refreshSessionDerivedFields` or replaces the states: `BootstrapPublishes`; a failure
(`BootstrapFails`, `WaiterFindsNoFile`); of the metadata goroutine the soft warning and
the deadline (both `MetadataSlow`), the fallback (`WaiterFallsBack`) and
`WaiterPublishes`; `MetricsApply`; the stall recovery of the piece events
(`EventsRecover`); and `MarkStreaming`, `MarkRange`, `MarkReleased`, `MarkPaused`,
`MarkResumed`, `MarkStopped`. A request runs through `OpenStream`,
`MarkStreaming`, `PrepareRange` and `EnsureSubscription` (or `PrepareNothing`), is served,
and goes on with `RecordRange`, `MarkRange` (or `RecordNoRange`), `ReleaseStream`,
`MarkReleased`; one that is refused only records. `MarkRange` writes with the count
`RecordRange` captured. The piece events are `events[r]`, on or off: what a handler does
to the window is the subject of `StreamWindow`. They start with the selected file,
and again with any request that finds them ended, also on a runtime that was
stopped between the request's look at the map and its subscription.

Abstracted: figures (peers, bytes, speed), trackers, DHT and health report.
Whether metadata is there and whether the download is complete are free choices
each time they are looked at; the statuses Stalled, Completed, Ready and
Downloading are one value, `settled`. The file behind the record is the subject
of the other module; here an update is atomic and a delete may fail. `Restart`
drops all of memory and bootstraps the session if the repository has it.
Calling Drop twice on one torrent (two overlapping stops) is taken to return.

### StreamWindow

A plan has three sections in the code: it is built under the runtime's lock,
applied to the torrent without one, and recorded under the lock again. They are
the steps `Build`, `Raise` and `Record` of whoever carries a plan out
(`job[a]`), and other actors come between them. The loops of
`applyPriorityWindowPlan` are one step, in which the last assignment to a piece
counts. A request plans twice: `Prepare` (which builds at once, then
`EnsureSubscription`) before it is answered, and `RecordRangeActivity` after it.
`handlePieceStateChange` captures the state once (`con`) and then makes up to
four calls, of which each looks at the present state again: `Reach` finds the
next call that is made, `MaybeAdvanceWindow`, `MarkSeekRecovery`, `FindStalled`
to `RecordRecovery` are the calls, `ReturnEarly` a call that a clock or a
condition ends. An event plans through the same three steps, never as a seek.

The order of priorities is the library's: none, normal, high, readahead, next, now.
So `applyPriorityWindowPlan`, which gives the playback window `PiecePriorityHigh` and the
prefetch window `PiecePriorityReadahead`, ranks what is played next below what is
played later, and `recoverStalledCriticalPieces` takes stalled prefetch pieces from
readahead down to high (finding 6).

`StreamWindowHistory` adds which window was raised last and which plans were overtaken:
between the section that built a plan and the one that records it, another plan was
recorded. The code has no such note, and nothing keeps plans apart.

Abstracted: offsets are counted in units of which a piece holds `PieceLength`,
as fine as an instance wants it. Clocks (throttles, the stall delay, the 250 ms
after a seek) are choices, and so are the speed of an answer and whether its
latency is recorded. Settings do not change while the runtime lives (their
updates belong to the settings component); `StreamDynamicReadaheadEnabled = false` is
`MinReadahead = MaxReadahead`; `SeekGapFactor` is a whole number. The priority
of the file as a whole (high, line 380) is left out: the library takes the higher of it
and the piece's own, so that no piece of the file really falls below high. What is
said of high and above holds with and without it. `Init` is the runtime after `waitForMetadata` has
selected the file.

### Settings and MetadataSearch

`UpdateSettings` of the service and `ApplySettings` of the manager run one after
the other in the goroutine of a request, `job[u]`: the check (`UpdateSettings`),
`os.WriteFile` in its two system calls (`Truncate`, then `WriteDone` or
`WriteFails`; `OpenFails` before), the service's copy (`StoreMemory`), the
manager's copy and limiters in one section (`ApplySettings`). No lock spans two of
them. Two writers of one file write at their own offsets: what the later one
leaves behind a shorter text is `torn`. `limiter` says which limiter object the
manager holds, `inForce` what the client's own one allows; the client only knows
the objects it was built with. `Restart` is the process ending anywhere and
starting again with what it can read.

`MetadataSearch` adds one session: its magnet, its torrent and the goroutine of
`bootstrapSession` and `waitForMetadata`. Reading the manager's settings
(`Capture`) and using them are two steps. `retries` counts to three and over again,
as only its remainder by three is looked at. `Missing`, `Given` and `Counted` are
`appendMissingPublicTrackers`; two settings of trackers that differ in what each
of the two normalizations keeps (a tracker without a host passes
`normalizeTrackerList` and not `normalizeTrackerURLs`) are in the instance.

Abstracted: a tracker is a value, a list a set; of the settings, fields that are
treated alike are one; the content of a torn file is not told apart;
`MetadataFallbackSources` is normalized and then used by nobody. The deadline of
`waitForMetadata` and the record it updates belong to `SessionRuntime`;
`forceDHTAnnounce` concerns the library only.

### Dashboard, StreamAccess, SessionHealth

A step of `Dashboard` is what the page runs between two awaits. `load[l]` is a call
of `loadDashboardData` with its two requests, which are served (`ListServed`,
`OverviewServed`) before `LoadDone` shows both; each answer carries the number of
the change it shows, so that older and newer can be told. `op[o]` is one of
`submitSession`, stop, pause, resume and cleanup, which differ only in what the
program does. The program is abstract here: its sessions change, by request or by
themselves. The sessions' order is free, as `FindAll` ranges over a map.

`StreamAccess`: a handler stamps its record (`Stamp`) and adds it under the lock
(`Add`). `Trend`, `Distribution`, `TotalSuccess` are `GetOverview` asked at any state,
`SessionBuckets` and `SessionSuccess` what the mapper says of one session. The two
reads of `GetOverview`, sessions and log, are not interleaved with anything: nothing
it makes of one depends on the other but the averages, which are left out.

`SessionHealth`: a state is what the last tick of `refreshMetrics` measured, and the
time that matters (three ages of the session, three of its last Range request).
`Diagnosis` is the whole of `refreshSessionHealthReport` and the status; steps that
make no report leave the old one standing, as the record does. Two facts found on
the way, both only commented: `NO_USEFUL_TRANSFER` cannot occur, as it needs an active
peer and a tier that excludes one; and the number of DHT nodes never matters,
since without peers UDP always counts as blocked. Combinations of measures
include ones the network may never give. `Possible` excludes only what the code does:
a file's bytes and readers without metadata. A pause may come at any time and
closes no stream; only a new one is refused while it lasts.

## 3. Runs

| run | question | result |
|---|---|---|
| `repo` | is memory ever ahead of an intact file with the flag down; does every step fit the interface; is every update written, does Close return | holds |
| `repo_failed_write` | is a clean repository recoverable | violated: finding 1 |
| `runtime_safety` | what a lookup in the map can find under overlapping calls; whether anything but overlaps and failed saves leaks a runtime; is the record coherent after every order of the updates of an old and a new runtime and a stream; are stream counts right with a session stopped and resumed under an open stream | holds |
| `runtime_liveness` | does the record come right after updates out of order, those of two streams and those of a stopped runtime included; do all three goroutines of a cancelled runtime end | holds |
| `runtime_leak` | can a runtime be left out of reach by overlapping calls | violated: finding 2 |
| `window` | windows, priorities, generations and recoveries with plans of a request and of events across each other; is a request answered from its own window | holds |
| `window_old_request` | can the end of an old request take the window back | violated: finding 3 |
| `window_second_file` | is the requested piece in the window when the file does not begin the torrent | violated: finding 4 |
| `window_recovery_lowers` | does the stall recovery ever lower a priority | violated: finding 6 |
| `settings` | do the copies agree after an update, do limits reach the client, do trackers and their count follow settings that change, is a prompt private torrent left alone | holds |
| `search_private` | is a private torrent ever given the settings' trackers | violated: finding 5 |
| `observation` | page: order, flags, selection, progress; log, trend and totals; diagnosis under better measures and under time | holds |

Bounds. `repo`: three sessions, two records; a write concerns one
session, so two are enough for "the others", the third shows nothing depends
on it. The state space is finite without further bounds. `SessionRuntime`: the
sets of runtimes, callers and streams bound what is in progress at the same
time, not how often: a slot is used again when nothing refers to it. Two
runtimes are what it takes for one to replace another, two callers for two stops
to overlap. `runtime_leak` bounds nothing else. In the two other
runs a behaviour belongs to one of the parts of `MCSessionRuntime`, each of which has many
of what its question needs. What the goroutines, the calls and the requests already made
do is bounded in none: ticks, retries, fallbacks and piece events come at any number.

* `map` (`runtime_safety`): two callers, calls without number, no streams, which touch
  neither the map nor what may leak. No guard reads the record or what was
  captured to write it, so the `VIEW` leaves them out here.
* `record` (`runtime_safety`): two runtimes, one request and two calls, one at a time: a
  stop and a resume put a new runtime beside an old one whose three goroutines and whose
  stream still have updates to make, with the counts they captured. Calls that overlap
  add orders of their updates, but each update leaves a coherent record of any coherent
  one, which the proof shows; it has no bound. The `VIEW` leaves out what nobody reads any
  more (the record of a deleted session, the paused flag of a runtime out of the map), and
  of the record what `RecordCoherent` cannot tell apart, with the counts that make it:
  they decide between a session that is streaming and one that has settled, which is
  `RecordSettles`' question and checked there without a view.
* `streams` (`runtime_liveness`): one runtime and two requests, whose counts cross.
* `cancelled` (`runtime_liveness`): one runtime, one request, two calls: the stream is held
  across a pause, a stop, a resume or a restart.
* `resumed` (`runtime_liveness`): two runtimes and two calls: the metrics and metadata
  updates of a stopped runtime land on the record of the new one.

`RecordSettles` and `GoroutinesEnd` are not proved, and more than these bounds (two
streams on two runtimes with calls) is beyond what TLC does in reasonable time.

`disturbed` of `SessionRuntimeHistory` notes, for
the rest of a behaviour, that a call began before another call or a bootstrap had
ended or that a session could not be saved: `NoLeakUndisturbed` says that without
that no runtime is left out of reach, and `runtime_leak` that with it one is.
Symmetry is used in safety runs only.

`StreamWindow`: `MaxGeneration` bounds how many seeks are followed: no further
window is planned beyond it. In `window` `MaxRequests` bounds the stream requests that are
opened, one after another: with three there is one that seeks, one that follows it and one
between whose plans events come; events and recoveries are not bounded. In `window` a piece holds two units, so that ranges inside a piece occur, and the file's
third piece is half full; there is one request beside the events: two actors whose
plans, each built, raised and recorded in steps of its own, cross in every order, with
handlers that use windows captured before. The read-ahead has two sizes there, so
that it grows and is clamped, and one distance makes a seek; the proofs of all its
properties hold for any settings, files and number of requests. Its `VIEW` leaves out the
priorities of pieces outside the window raised last, about which nothing is claimed, and
the old window of a plan whose loops have passed it or pass it by, which nothing reads any
more.
`window_recovery_lowers` and `window_old_request` run `SerialSpec`, in which a plan or
an event is finished before the next begins, so that what they find is not due to
such a race; `window_old_request` needs two requests.

`settings`: two updaters, a default, a request that sets everything else, one that
only sends what normalization must replace, and one whose upload limit is refused;
three magnets (private with trackers, public with, public without). Updates
overlap only until the session starts (`OverlapsBefore`): the copies they leave
stay, and a running session sees no more of two updaters than the order of
`ApplySettings`, which one gives as well. The proofs have no such bound.

`observation`: two sessions, two loads (one in progress at a time is a result, not
a bound), two requests of the user at the same time, two changes of the sessions,
one failed request of a load, a list of none or one session at first (of two requests, the
first to be made is always the same one: they are alike); a log of three for four accesses by two handlers,
two buckets of two seconds, five seconds; latencies on both sides of every bound;
every measure, age and stream. The three components take nothing from each other
but values any of them may have at any time, so in a behaviour only one moves
(`part`), which keeps their numbers of states added and not multiplied.

Deadlock is checked in every run but `observation`, `window` and those of
`MCSessionRuntime`: a stopped process can always start again, and a stream can always be
requested. In `observation` the clock and the accesses have an end, and the log with them;
in the others the calls and requests are used up, and a cancelled runtime or a deleted
session without one has nothing left to do.

## 4. Fairness

Repository: the ticker fires; Go's `select` chooses at random among ready
branches, hence strong fairness of the stop branch; `sync.RWMutex` does not
starve a waiter, hence strong fairness of the loop's locking; a begun write
ends. That the disk does not refuse every write for ever is an assumption about
the environment (`SF(Truncate)`, `SF(WriteDone)`), without which nothing about
reaching the disk can hold. Runtimes: goroutines run, tickers tick, a done
context is eventually chosen by `select`, a started call proceeds. The piece events of a
cancelled runtime end (`EventsEnd`, weak fairness): its context stays done, and Drop closes
their subscription. A request is not obliged to stop being served. Nothing is
assumed of users, peers or crashes. Metadata search: its goroutine runs, its
ticker ticks and its fetches have timeouts (`metadataFallbackTimeout`); metadata
need not come. Dashboard: the timer ticks, requests are answered or fail, and not
for ever (`MaxFailures`), and the page goes on with what it gets; the user need not
do anything. The fairness of `MCObservation` is the page's, which alone has a
liveness property.

## 5. Proofs

For every value of the constants:

* `FileSessionRepositoryProofs!TypeCorrect`, `Invariant`, `CleanOnDisk`.
  `CleanMeansOnDisk` alone is not inductive: the step that breaks or keeps it is
  the rollback of a failed write, so `Inv` says what `undo` holds (if it is
  clean and the file untouched, then `undo.sessions` is what the file holds),
  that the file is blank once truncated, and that a writer is a live process
  with dirty memory.
* `Refinement`: `Spec => Store!Spec`. `OneChange` (a write carries at most one
  session's change) turns the end of a Save or Delete into the abstract
  `Write`, everything else into `Sync`, `Damage`, `Update`, a stop, a start or a
  stutter.
* `SessionRuntimeProofs!TypeCorrect` (the count stays natural, whichever runtime
  a stream is released on) and `RecordAlwaysCoherent`, by showing once that
  `Refresh` makes a coherent record of any record whose error and metadata
  state agree, and that every update passes it such a record.
* `LookupFindsLive`, by `LifeInv`: an object enters the map once, before it can
  be cancelled, and is not reused while it is there.
* `CountsOpenStreams`, by `CountInv`: a stream takes part in the count of at most one
  runtime (`CountedOn`), and `CountStep` compares the cardinalities of that set
  before and after each section of open and release. `NeverOvercounts` alone is not
  inductive: an object must enter the map with nothing counted on it, and a stream
  that is not open must be counted nowhere.
* `OnlyDisturbancesLeak`, of `HistorySpec`, by `UndisturbedInv`. That no live runtime
  is out of the map says nothing of the step that is about to overwrite the map or
  to empty it, so the invariant follows a call and a bootstrap through all their
  steps: there is one of them at a time (`OneAtATime`), a bootstrap begins with an
  empty map (`SpawnedIntoEmptyMap`), past `Unregister` the map is empty and the
  runtimes of the session are cancelled (`StopsEmptyMap`). `runtime_leak` shows that
  the condition is needed.
* `StreamWindowProofs!TypeCorrect` and `WindowsStayInFile`, for any number of
  requests, any file and any settings. `PieceOfFile` shows with the division of
  whole numbers that a clamped start lies in a piece of the file, `PlannedWindow`
  that the window around such a piece stays in the file and holds it.
  `WindowInFile` is then inductive: windows are only copied from plans.
* `RequestsFindTheirPiece` (`RequestedPieceReady`, if `FileOffset = 0`) and
  `OnlySeeksRecover`, from `FlowInv`: a plan in the hands of an open request is for
  its own range, the events' plan is no seek, and what `FindStalled` has seen pending
  stays pending until the handler is done, since only the same goroutine ends
  a recovery. `window_second_file` shows that the condition is needed.
* `PrioritiesAreRaised` and `OnlyOvertakenPlansTurnBack`, of `HistorySpec` in
  `StreamWindowHistory`, whatever plans overlap, by `HistoryInv`. The loops of a plan end
  with those of its own window, so that whoever raised last has left its priorities (`RaisedRaises`), and
  no other step but the stall recovery touches them;
  it never sets less than high (`StalledRaises`), which is why the prefetch pieces keep
  readahead only until one comes. For the generation: a plan that nobody overtook is not
  behind the current one (`gen <= plan.gen`), since `Generation` never plans an earlier
  one than it reads (`PlannedGeneration`) and only a record changes it (`PlanSteps`).

* `SettingsProofs!TypeCorrect`: the program works with no settings that are not
  valid and normalized, which rests on `Normalize` giving a fixed point.
  `LimitsReachClient` follows step by step: `ApplySettings` sets the limit of the
  object it finds, and an upload limit is never 0.
  `LoneUpdates` needs `LoneInv`: an update still alone finds the file as it left it,
  the service's copy likewise, and nobody else at work.
* `MetadataSearchProofs!CountIsOfGiven`: each place adds what was not in the set
  (cardinality of a disjoint union); the last one sets the count, but only when it
  is 0, when the set is empty. `PromptPrivate` needs that before the first retry
  only the torrent's own trackers are there and nothing was captured to add.
* `DashboardProofs`, by `PageInv`: `loadingRef` is up exactly while one load is in
  progress, and there is at most one (`OneLoad`); what is shown is no newer than the
  answers of a load that is still to be shown (`AnswersInOrder`). `PageNeverGoesBack`,
  `LoadingShown` and `SelectedIsListed` follow for any number of
  loads, sessions and requests.
* `StreamAccessProofs!LogKeepsLast`, for every capacity and number of requests.
* `TrendIsRecent`: no stamp is later than the clock (`StampedBefore`); then the keys
  later than a bucket among the last `BucketCount` are buckets of fewer numbers than
  that (`FewAreLater`, by an injection), so that bucket is kept with all its accesses;
  and the kept ones are few, as all but the least of them are later than it
  (`FewAreKept`).
* `OverviewSums`: a sum of values of at most 2 is how many are at least 1 and how many
  are 2 (`SumIsLevels`). The library's sum is a recursive function of sets; that it
  exists is shown by giving it, that it is unique by a smallest set on which two
  differ (`Least`, from the library's theorem on well-founded relations).
* `SessionHealthProofs`: the confidence and the tier are written without the set of
  evidence first (`ConfidenceIs`, `TierOfIs`), then compared case by case
  (`BetterTier`, `OlderTier`). The report may be older than the clock: `ReportOf` says
  of which age and which Range request it is.

Assumptions: `Absent` is no record, `NoRuntime` no runtime, `Streams` is finite,
`SaveMayFail` is a Boolean; `Events` is no request, a piece and the file are not
empty, sizes are positive (the settings are validated so) and
`MinReadahead <= MaxReadahead`. For the settings, sizes are positive, the defaults are valid once
normalized, requests are records with the fields' types, the fallback trackers are
trackers and not none; a set of trackers is finite. For the page, load 1 exists and
`None` is no session and no load; for the log, capacity and buckets are positive and the sessions finite.

Only model-checked: liveness (`EveryUpdateReachesDisk`, `CloseEnds`,
`RecordSettles`, `GoroutinesEnd`, `SettingsReachSearch`, `ChangesAreShown`) and the
absence of deadlock, which are out of the prover's reach. Every safety invariant
and action property of a run that passes is proved: `RequestedPieceReady` for a file that begins its
torrent, as it is checked.

## 6. Findings

1. A failed write leaves a damaged file, and the rollback marks the repository
   clean (`file_session_repository.go:60`, `:112`): nothing repairs it. The cause,
   that the only copy is emptied before it is written (`:211`), also means that a
   crash during any save loses every session; `SessionStore!Damage` and the crash
   in `FileSessionRepository` show it.
2. Deleting a session during its bootstrap leaves a runtime and its goroutines
   that no call can reach (`session_service.go:97`). In the same way resuming
   during a bootstrap starts a second runtime over the first
   (`torrent_runtime_manager.go:221`, `:264`).
3. The end of an older request plans a window for its own range
   (`torrent_runtime_manager.go:855`): after a player has sought, the end of the
   request it gave up takes the window, the priorities and the generation back.
4. The start of a range is an offset in the file but is clamped to the file's
   bounds in the torrent (`torrent_runtime_manager.go:1238`): in a file that does
   not begin the torrent the window is prepared for an earlier piece.
5. Each retry gives the torrent the settings' trackers, whatever its magnet brought
   (`torrent_runtime_manager.go:337`); when it turns out to be private, it has them.
   The settings page promises they are only for public torrents.
6. The stall recovery sets the first stalled pieces of the prefetch window to
   `PiecePriorityHigh` while the peers are not slow (`torrent_runtime_manager.go:1571`),
   where the plan had set `PiecePriorityReadahead` (`:1327`), which is higher: the
   remedy for pieces that are late makes them less urgent. The same order means that a
   plan ranks its playback window below its prefetch window (`:1327`, `:1330`).

`NoLeak` has two more ways to fail than those of finding 2: two overlapping
stops, the second of which unregisters a runtime resumed in between (`:762`),
and a Save that failed (with `SaveMayFail = TRUE`).

A download limit is in force only under the condition `LimitsInForce` gives: with
the default of 0 the client is built without a limiter, and one set later is an
object it does not know (`torrent_runtime_manager.go:1193`) until the next start; a
limit set back to 0, which the settings page calls no limit, leaves the client's
limiter at its old value.

A seek recovery need not end: an event that moves the window takes the
generation of a seek without being one (`torrent_runtime_manager.go:1518`), and the
recovery then waits for a generation that has passed. Where plans overlap the
generation itself goes back (`:1347`), and is given again to another window: a handler
that captured it before may then pass the check at `:1554` although two windows lie
between, and a recovery may wait for a generation the window has not reached. No property is stated of
it, as no document says when it should end.

## 7. Plan

Done: repository, session lifecycle, priority window, settings and metadata search,
page, log, overview and diagnosis. What could follow:

1. Composition of repository and runtimes at shutdown: what is dirtied after the
   last flush.
2. `FileSelection`: independence of order.

## 8. Not modelled

HTTP routing, decoding and CORS, formatting of responses, environment variables,
UI components (input and output without state); DHT and the library's own work,
whose answers are free choices; the choice of the primary file, a pure comparison,
whose outcome (a file or none) is a free choice here; the
in-memory repository, which the program does not use; the HTTP server's shutdown;
averages of speeds, latencies and ratios.
