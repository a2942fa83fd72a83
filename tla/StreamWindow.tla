----------------------------- MODULE StreamWindow -----------------------------
(***************************************************************************)
(* The priority window of one runtime (torrent_runtime_manager.go): the    *)
(* stream requests that plan it before and after a response, the goroutine *)
(* that moves it when pieces complete, and the piece priorities they set.  *)
(*                                                                         *)
(* A plan is built under one lock, applied to the torrent outside it, and  *)
(* recorded under another: Build, Raise and Record are steps of their own, *)
(* and other actors may come between them.  Offsets are in units of which  *)
(* a piece holds PieceLength.  Clocks (throttles, stalls, the 250 ms after *)
(* a seek) are choices.                                                    *)
(***************************************************************************)
EXTENDS Integers, Sequences

CONSTANTS
  Requests,            \* bound: stream requests in progress at the same time
  Events,              \* the goroutine that consumes piece state changes
  PieceLength,
  FileOffset, FileLength,    \* the selected file in the torrent
  PreheatHead, PreheatTail,  \* settings.StreamPreheatHeadPieces, ...TailPieces
  DefaultPlayback, DefaultPrefetch, DefaultRetention,
  BoostWindow,         \* settings.StreamBoostWindowPieces
  MinReadahead, MaxReadahead,     \* equal when StreamDynamicReadaheadEnabled is off
  ReadaheadStep, DefaultReadahead,
  SeekGapFactor,       \* settings.StreamSeekGapFactor, a whole number here
  DeprioritizeOld,     \* settings.StreamDeprioritizeOldWindow
  MaxGeneration        \* bound: windows are not planned beyond this generation

ASSUME EventsIsNoRequest == Events \notin Requests
ASSUME FileType ==
  /\ PieceLength \in Nat \ {0}
  /\ FileOffset \in Nat
  /\ FileLength \in Nat \ {0}
ASSUME SizesType ==
  /\ {PreheatHead, PreheatTail} \subseteq Nat \ {0}
  /\ {DefaultPlayback, DefaultPrefetch, DefaultRetention, BoostWindow} \subseteq Nat \ {0}
  /\ {ReadaheadStep, DefaultReadahead, SeekGapFactor} \subseteq Nat \ {0}
  /\ MinReadahead \in Nat \ {0}
  /\ MaxReadahead \in Nat
  /\ MinReadahead <= MaxReadahead
ASSUME SettingsType == DeprioritizeOld \in BOOLEAN /\ MaxGeneration \in Nat

VARIABLES
  win,         \* the playback, prefetch and retention windows, once there are any
  gen,         \* windowGeneration
  forward,     \* windowMovesForward
  prepared,    \* lastPreparedRangeStart, or None
  lastRange,   \* lastRangeStart, or None
  readahead,   \* currentReadaheadBytes
  framed,      \* a request has succeeded and firstFrameLatencyMs # 0
  recovery,    \* pendingSeekRecovery and seekTargetGeneration
  prio,        \* the priority of each piece of the file
  job,         \* the plan each actor is carrying out
  req,         \* each stream request
  con,         \* consumePieceStateChanges, and what its handler captured
  cancelled    \* the context of the runtime

vars == <<win, gen, forward, prepared, lastRange, readahead, framed, recovery, prio,
          job, req, con, cancelled>>
fields == <<win, gen, forward, prepared, recovery>>

-----------------------------------------------------------------------------
(* Numbers.                                                                *)

None == -1

Larger(a, b) == IF a > b THEN a ELSE b
Smaller(a, b) == IF a < b THEN a ELSE b
Gap(a, b) == IF a > b THEN a - b ELSE b - a
Clamp(v, low, high) == IF v < low THEN low ELSE IF v > high THEN high ELSE v

(* torrent.File: the pieces the file touches are First..(End - 1). *)
FirstPiece == FileOffset \div PieceLength
EndPiece == (FileOffset + FileLength + PieceLength - 1) \div PieceLength
Pieces == FirstPiece .. (EndPiece - 1)

(* windowPieceSizes, for the scenario of a plan. *)
PlaybackSize(scenario) ==
  LET usual == Larger(DefaultPlayback, BoostWindow \div 2)
  IN  IF scenario = "startup" THEN Larger(usual, BoostWindow) ELSE usual
PrefetchSize(scenario) ==
  IF scenario = "steady" THEN Larger(DefaultPrefetch, BoostWindow)
  ELSE Larger(DefaultPrefetch, BoostWindow * 2)
RetentionSize(scenario) ==
  IF scenario = "seek" THEN Larger(2, DefaultRetention \div 2)
  ELSE Larger(Larger(DefaultRetention, Larger(DefaultPlayback, BoostWindow \div 2) \div 2),
              PlaybackSize(scenario) \div 2)

(* Mutant: the result is not clamped. *)
ReadaheadUnclamped(speed, isSeek) ==
  IF isSeek \/ speed = "slow" THEN readahead + ReadaheadStep
  ELSE IF speed = "fast" THEN readahead - ReadaheadStep ELSE readahead

(* nextReadahead, for an answer that was "fast", "fair" or "slow". *)
NextReadahead(speed, isSeek) ==
  Clamp(CASE isSeek \/ speed = "slow"  -> readahead + ReadaheadStep
          [] ~isSeek /\ speed = "fast" -> readahead - ReadaheadStep
          [] OTHER                     -> readahead,
        MinReadahead, MaxReadahead)

SeekThreshold == readahead * SeekGapFactor

-----------------------------------------------------------------------------
(* Types.                                                                  *)

(***************************************************************************)
(* The order of torrent.PiecePriority: None, Normal, High, Readahead,      *)
(* Next, Now.  High is below Readahead.                                    *)
(***************************************************************************)
Priorities == 0 .. 5
NoPriority == 0
Normal == 1
High == 2
Readahead == 3
Now == 5

Windows == [playBegin : Int, playEnd : Int, preBegin : Int, preEnd : Int,
            retBegin : Int, retEnd : Int]

NoWindow == [playBegin |-> -1, playEnd |-> -1, preBegin |-> -1, preEnd |-> -1,
             retBegin |-> -1, retEnd |-> -1]

Plans == [win : Windows, gen : Nat, start : Nat, old : Int \X Int,
          isSeek : BOOLEAN, forward : BOOLEAN]

NoPlan == [win |-> NoWindow, gen |-> 0, start |-> 0, old |-> <<-1, -1>>,
           isSeek |-> FALSE, forward |-> FALSE]

Jobs == [at : {"none", "build", "subscribe", "raise", "record"}, start : Int, plan : Plans]
NoJob == [at |-> "none", start |-> 0, plan |-> NoPlan]

(* The start of a Range header, None for a header that has none. *)
Ranges == {None} \cup 0 .. (FileLength - 1)

EventStages ==
  {"off", "waiting", "playback", "prefetch", "recover", "recovering", "recovered",
   "retention"}

TypeOK ==
  /\ win \in Windows
  /\ gen \in Nat
  /\ forward \in BOOLEAN
  /\ prepared \in Nat \cup {None}
  /\ lastRange \in Nat \cup {None}
  /\ readahead \in MinReadahead .. MaxReadahead
  /\ framed \in BOOLEAN
  /\ recovery \in [pending : BOOLEAN, target : Nat]
  /\ prio \in [Pieces -> Priorities]
  /\ job \in [Requests \cup {Events} -> Jobs]
  /\ req \in [Requests -> [at : {"idle", "open"}, range : Ranges]]
  /\ con \in [at : EventStages, piece : Int, gen : Nat, win : Windows, pending : BOOLEAN]
  /\ cancelled \in BOOLEAN

Idle == [at |-> "idle", range |-> None]
Waiting(at) == [at |-> at, piece |-> FirstPiece, gen |-> 0, win |-> NoWindow,
                pending |-> FALSE]

(***************************************************************************)
(* waitForMetadata has selected the file, preheated its ends and started   *)
(* the events: no window is planned before.  The priority of the file as a *)
(* whole, which the library adds to that of its pieces, is left out.       *)
(***************************************************************************)
Init ==
  /\ win = NoWindow
  /\ gen = 0
  /\ forward = FALSE
  /\ prepared = None
  /\ lastRange = None
  /\ readahead = Clamp(DefaultReadahead, MinReadahead, MaxReadahead)
  /\ framed = FALSE
  /\ recovery = [pending |-> FALSE, target |-> 0]
  /\ prio = [p \in Pieces |-> IF p < FirstPiece + PreheatHead \/ p >= EndPiece - PreheatTail
                             THEN Normal ELSE NoPriority]
  /\ job = [a \in Requests \cup {Events} |-> NoJob]
  /\ req = [r \in Requests |-> Idle]
  /\ con = Waiting("waiting")
  /\ cancelled = FALSE

-----------------------------------------------------------------------------
(* Plans.                                                                  *)

Span(begin, end) == begin .. (end - 1)
Playback(w) == Span(w.playBegin, w.playEnd)
Prefetch(w) == Span(w.preBegin, w.preEnd)
Retention(w) == Span(w.retBegin, w.retEnd)

(* Mutant: the prefetch window is not cut at the end of the file. *)
WindowPastEnd(piece, scenario) ==
  LET InFile(p) == Clamp(p, FirstPiece, EndPiece)
      playBegin == InFile(piece - PlaybackSize(scenario) \div 2)
      playEnd == InFile(playBegin + PlaybackSize(scenario))
  IN  [playBegin |-> playBegin, playEnd |-> playEnd,
       preBegin |-> playEnd, preEnd |-> playEnd + PrefetchSize(scenario),
       retBegin |-> InFile(playBegin - RetentionSize(scenario)), retEnd |-> playBegin]

(* Mutant: the window ends where it should be centred. *)
WindowBehind(piece, scenario) ==
  LET InFile(p) == Clamp(p, FirstPiece, EndPiece)
      playBegin == InFile(piece - PlaybackSize(scenario))
      playEnd == InFile(playBegin + PlaybackSize(scenario))
  IN  [playBegin |-> playBegin, playEnd |-> playEnd,
       preBegin |-> playEnd, preEnd |-> InFile(playEnd + PrefetchSize(scenario)),
       retBegin |-> InFile(playBegin - RetentionSize(scenario)), retEnd |-> playBegin]

WindowAround(piece, scenario) ==
  LET InFile(p) == Clamp(p, FirstPiece, EndPiece)
      playBegin == InFile(piece - PlaybackSize(scenario) \div 2)
      playEnd == InFile(playBegin + PlaybackSize(scenario))
  IN  [playBegin |-> playBegin, playEnd |-> playEnd,
       preBegin |-> playEnd, preEnd |-> InFile(playEnd + PrefetchSize(scenario)),
       retBegin |-> InFile(playBegin - RetentionSize(scenario)), retEnd |-> playBegin]

(* Mutant: a plan that is no seek starts the generations again. *)
GenerationRestarts(isSeek) == IF isSeek THEN gen + 1 ELSE 1

Generation(isSeek) == IF isSeek THEN gen + 1 ELSE Larger(gen, 1)

FarFrom(start, known) == known # None /\ Gap(start, known) > SeekThreshold

(***************************************************************************)
(* buildPriorityWindowPlan.  The start is an offset in the file when it    *)
(* comes from a request and in the torrent when it comes from an event;    *)
(* both are clamped to the bounds of the file in the torrent.  There is    *)
(* always a plan: the code's branch for an empty window is never taken     *)
(* (WindowInFile).                                                         *)
(***************************************************************************)
PlanFor(rangeStart) ==
  LET start == Clamp(rangeStart, FileOffset, FileOffset + FileLength - 1)
      isSeek == FarFrom(start, lastRange) \/ FarFrom(start, prepared)
      piece == FirstPiece + (start - FileOffset) \div PieceLength
      w == WindowAround(piece, IF isSeek \/ recovery.pending THEN "seek"
                               ELSE IF framed THEN "steady" ELSE "startup")
      old == <<win.playBegin, Larger(win.playEnd, win.preEnd)>>
  IN  [win |-> w, gen |-> Generation(isSeek), start |-> start,
       old |-> old, isSeek |-> isSeek,
       forward |-> w.playBegin > old[1] \/ w.preEnd > old[2]]


(* The loops of applyPriorityWindowPlan; where two set a piece, the last one counts. *)
Raised(plan) ==
  LET known == DeprioritizeOld /\ plan.old[1] >= 0
      behind == Span(plan.old[1], Smaller(plan.win.playBegin, plan.old[2]))
  IN  [p \in Pieces |->
        CASE p \in Playback(plan.win)                    -> High
          [] p \in Prefetch(plan.win)                    -> Readahead
          [] p \in Retention(plan.win)                   -> Normal
          [] OTHER ->
               IF known /\ plan.forward /\ p \in behind THEN NoPriority
               ELSE IF known /\ plan.isSeek /\ p \in Span(plan.old[1], plan.old[2])
                    THEN Normal
                    ELSE prio[p]]

Bounded == gen < MaxGeneration

(***************************************************************************)
(* The steps of whoever carries out a plan.  An event never counts as a    *)
(* seek, but keeps the generation of one.                                  *)
(***************************************************************************)
Build(a) ==
  /\ job[a].at = "build"
  /\ job' = [job EXCEPT ![a] = [at |-> "raise", start |-> 0,
                               plan |-> [PlanFor(job[a].start) EXCEPT
                                           !.isSeek = @ /\ a # Events]]]
  /\ UNCHANGED <<fields, lastRange, readahead, framed, prio, req, con, cancelled>>

(* ensurePieceEventSubscription, called between the two by PrepareRangeDownload. *)
EnsureSubscription(r) ==
  /\ job[r].at = "subscribe"
  /\ job' = [job EXCEPT ![r].at = "raise"]
  /\ con' = IF con.at = "off" THEN Waiting("waiting") ELSE con
  /\ UNCHANGED <<fields, lastRange, readahead, framed, prio, req, cancelled>>

Raise(a) ==
  /\ job[a].at = "raise"
  /\ prio' = Raised(job[a].plan)
  /\ job' = [job EXCEPT ![a].at = "record"]
  /\ UNCHANGED <<fields, lastRange, readahead, framed, req, con, cancelled>>

Record(a) ==
  /\ job[a].at = "record"
  /\ LET plan == job[a].plan
     IN  /\ win' = plan.win
         /\ gen' = plan.gen
         /\ forward' = plan.forward
         /\ prepared' = plan.start
         /\ recovery' = IF plan.isSeek THEN [pending |-> TRUE, target |-> plan.gen]
                        ELSE recovery
  /\ job' = [job EXCEPT ![a] = NoJob]
  /\ UNCHANGED <<lastRange, readahead, framed, prio, req, con, cancelled>>

-----------------------------------------------------------------------------
(* Stream requests.                                                        *)

(* PrepareRangeDownload builds a plan, unless the header has no start. *)
Prepare(r, range) ==
  /\ req[r].at = "idle" /\ job[r].at = "none"
  /\ range # None => Bounded
  /\ req' = [req EXCEPT ![r] = [at |-> "open", range |-> range]]
  /\ job' = IF range = None THEN job
            ELSE [job EXCEPT ![r] = [at |-> "subscribe", start |-> 0,
                                     plan |-> PlanFor(range)]]
  /\ UNCHANGED <<fields, lastRange, readahead, framed, prio, con, cancelled>>

(***************************************************************************)
(* recordRangeActivity after a successful answer with a body: a header     *)
(* without a start counts as one that starts at 0.                         *)
(***************************************************************************)
RecordRangeActivity(r, speed, timed) ==
  /\ req[r].at = "open" /\ job[r].at = "none"
  /\ Bounded
  /\ LET start == Larger(req[r].range, 0)
     IN  /\ lastRange' = start
         /\ readahead' = NextReadahead(speed, FarFrom(start, lastRange))
         /\ job' = [job EXCEPT ![r] = [at |-> "build", start |-> start, plan |-> NoPlan]]
  /\ framed' = (framed \/ timed)
  /\ req' = [req EXCEPT ![r] = Idle]
  /\ UNCHANGED <<fields, prio, con, cancelled>>

(* recordRangeActivity after an error, or an answer without a body. *)
RecordNothing(r) ==
  /\ req[r].at = "open" /\ job[r].at = "none"
  /\ req' = [req EXCEPT ![r] = Idle]
  /\ UNCHANGED <<fields, lastRange, readahead, framed, prio, job, con, cancelled>>

-----------------------------------------------------------------------------
(* Piece events.                                                           *)

(* The calls handlePieceStateChange may make, in its order, and when it makes them. *)
Calls == <<"playback", "prefetch", "recover", "retention">>

Made(c, call) ==
  \/ call = "playback" /\ c.piece \in Playback(c.win)
  \/ call = "prefetch" /\ c.pending /\ c.piece \in Prefetch(c.win)
  \/ call = "recover" /\ c.pending
  \/ call = "retention" /\ c.piece \in Retention(c.win)

(* At the first call from the i-th on that is made, or done. *)
Reach(c, i) ==
  LET made == {j \in i .. Len(Calls) : Made(c, Calls[j])}
  IN  IF made = {} THEN Waiting("waiting")
      ELSE [c EXCEPT !.at = Calls[CHOOSE j \in made : \A k \in made : j <= k]]

Return == con' = Reach(con, 1 + CHOOSE i \in DOMAIN Calls : Calls[i] = con.at)

(* handlePieceStateChange, for a piece of the file that is complete. *)
PieceCompletes(p) ==
  /\ con.at = "waiting" /\ job[Events].at = "none"
  /\ con' = Reach([at |-> "waiting", piece |-> p, gen |-> gen, win |-> win,
                   pending |-> recovery.pending], 1)
  /\ UNCHANGED <<fields, lastRange, readahead, framed, prio, job, req, cancelled>>

(* A call that returns early: its clocks may always make it. *)
ReturnEarly ==
  /\ \E i \in DOMAIN Calls : con.at = Calls[i]
  /\ job[Events].at = "none"
  /\ Return
  /\ UNCHANGED <<fields, lastRange, readahead, framed, prio, job, req, cancelled>>

Offset(piece) == FileOffset + (piece - FirstPiece) * PieceLength

(* Where an event moves the window to, and whether it does. *)
AdvanceStart ==
  LET begin == Offset(Larger(con.piece + 1, win.playBegin))
  IN  IF begin <= prepared THEN prepared + PieceLength ELSE begin
MayAdvance ==
  /\ gen = con.gen
  /\ forward => con.piece + 1 >= win.playBegin
                                 + Larger(1, (win.playEnd - win.playBegin) \div 2)
  /\ Larger(con.piece + 1, win.playBegin) < EndPiece
  /\ prepared < Offset(Larger(win.playEnd, win.preEnd))

MaybeAdvanceWindow ==
  /\ con.at \in {"playback", "retention"} /\ job[Events].at = "none"
  /\ Bounded
  /\ MayAdvance
  /\ job' = [job EXCEPT ![Events] = [at |-> "build", start |-> AdvanceStart,
                                     plan |-> NoPlan]]
  /\ Return
  /\ UNCHANGED <<fields, lastRange, readahead, framed, prio, req, cancelled>>

MarkSeekRecovery ==
  /\ con.at = "prefetch" /\ job[Events].at = "none"
  /\ recovery.pending
  /\ recovery.target = con.gen /\ gen = con.gen
  /\ win.playBegin + Larger(1, (win.playEnd - win.playBegin) \div 3) <= con.piece
  /\ con.piece < win.preEnd
  /\ recovery' = [recovery EXCEPT !.pending = FALSE]
  /\ Return
  /\ UNCHANGED <<win, gen, forward, prepared, lastRange, readahead, framed, prio, job, req,
                 cancelled>>

(* Mutant: what the handler captured is not checked again. *)
FindStalledUnchecked ==
  /\ con.at = "recover" /\ job[Events].at = "none"
  /\ Playback(con.win) # {} /\ Prefetch(con.win) # {}
  /\ gen = con.gen
  /\ con' = [con EXCEPT !.at = "recovering"]
  /\ UNCHANGED <<fields, lastRange, readahead, framed, prio, job, req, cancelled>>

(* recoverStalledCriticalPieces: what it checks, what it raises, what it records. *)
FindStalled ==
  /\ con.at = "recover" /\ job[Events].at = "none"
  /\ Playback(con.win) # {} /\ Prefetch(con.win) # {}
  /\ gen = con.gen /\ recovery.pending
  /\ con' = [con EXCEPT !.at = "recovering"]
  /\ UNCHANGED <<fields, lastRange, readahead, framed, prio, job, req, cancelled>>

(* The first pieces of a window: half of it, or two thirds. *)
Critical(begin, end, slow) ==
  LET size == end - begin
  IN  Span(begin, Smaller(end, begin + IF slow THEN Larger(3, (size * 2) \div 3)
                                       ELSE Larger(2, size \div 2)))

RaiseStalled(slow) ==
  /\ con.at = "recovering"
  /\ prio' = [p \in Pieces |->
       CASE p \in Critical(con.win.playBegin, con.win.playEnd, slow) -> Now
         [] p \in Critical(con.win.preBegin, con.win.preEnd, slow)   -> IF slow THEN Now ELSE High
         [] OTHER -> prio[p]]
  /\ con' = [con EXCEPT !.at = "recovered"]
  /\ UNCHANGED <<fields, lastRange, readahead, framed, job, req, cancelled>>

RecordRecovery ==
  /\ con.at = "recovered"
  /\ recovery' = [recovery EXCEPT !.pending = @ \/ gen = con.gen]
  /\ con' = Reach(con, 4)
  /\ UNCHANGED <<win, gen, forward, prepared, lastRange, readahead, framed, prio, job, req,
                 cancelled>>

(* stopSession cancels the runtime; the goroutine ends between two events. *)
Cancel ==
  /\ ~cancelled
  /\ cancelled' = TRUE
  /\ UNCHANGED <<fields, lastRange, readahead, framed, prio, job, req, con>>

EventsEnd ==
  /\ con.at = "waiting" /\ job[Events].at = "none"
  /\ cancelled
  /\ con' = Waiting("off")
  /\ UNCHANGED <<fields, lastRange, readahead, framed, prio, job, req, cancelled>>

-----------------------------------------------------------------------------
Planning(a) == Build(a) \/ Raise(a) \/ Record(a)

Request(r) ==
  \/ \E range \in Ranges : Prepare(r, range)
  \/ EnsureSubscription(r)
  \/ \E speed \in {"fast", "fair", "slow"}, timed \in BOOLEAN :
       RecordRangeActivity(r, speed, timed)
  \/ RecordNothing(r)

PieceEvents ==
  \/ \E p \in Pieces : PieceCompletes(p)
  \/ ReturnEarly \/ MaybeAdvanceWindow \/ MarkSeekRecovery
  \/ FindStalled \/ (\E slow \in BOOLEAN : RaiseStalled(slow)) \/ RecordRecovery
  \/ EventsEnd

Next ==
  \/ \E a \in Requests \cup {Events} : Planning(a)
  \/ \E r \in Requests : Request(r)
  \/ PieceEvents
  \/ Cancel

Spec == Init /\ [][Next]_vars

(***************************************************************************)
(* As Next, but a plan or an event is finished before the next begins: the *)
(* code does not enforce it.                                               *)
(***************************************************************************)
Busy(a) == job[a].at # "none" \/ (a = Events /\ con.at \notin {"off", "waiting"})
OneBusy == \A a, b \in Requests \cup {Events} : Busy(a) /\ Busy(b) => a = b

SerialSpec == Init /\ [][Next /\ OneBusy']_vars

-----------------------------------------------------------------------------
(* Properties.                                                             *)

(* The three windows are adjoining ranges of pieces of the file. *)
InFile(w) ==
  /\ FirstPiece <= w.retBegin /\ w.retBegin <= w.retEnd
  /\ w.retEnd = w.playBegin /\ w.playBegin < w.playEnd
  /\ w.playEnd = w.preBegin /\ w.preBegin <= w.preEnd
  /\ w.preEnd <= EndPiece

(***************************************************************************)
(* Plans are applied with Torrent.Piece(i), which panics outside the       *)
(* torrent, and with ranges built from fields other goroutines may have    *)
(* replaced since (lines 1312-1331, 1565-1570): whatever the request, the  *)
(* event and the order, every window planned, recorded or captured lies in *)
(* the file, and a playback window is never empty.                         *)
(***************************************************************************)
WindowInFile ==
  /\ win = NoWindow \/ InFile(win)
  /\ win = NoWindow <=> prepared = None
  /\ con.win = NoWindow \/ InFile(con.win)
  /\ \A a \in Requests \cup {Events} :
       job[a].at \in {"subscribe", "raise", "record"} => InFile(job[a].plan.win)

(***************************************************************************)
(* "before ServeContent starts to answer, the window of hot pieces of the  *)
(* current Range has been raised" (docs/streaming-execution-roadmap.md:98):*)
(* the window a request records before it is served holds the piece its    *)
(* first byte is in.                                                       *)
(***************************************************************************)
PieceOf(range) == (FileOffset + range) \div PieceLength

RequestedPieceReady ==
  [][\A r \in Requests :
       req[r].at = "open" /\ job[r].at = "record" /\ job'[r].at = "none" =>
         PieceOf(req[r].range) \in Playback(win')]_vars

(***************************************************************************)
(* Only a request that seeks starts a seek recovery (lines 1352-1356): the *)
(* handler that has just ended one does not start it again from the state  *)
(* it captured before (lines 1423, 1446, 1598).                            *)
(***************************************************************************)
OnlySeeksStartRecovery ==
  [][~recovery.pending /\ recovery'.pending =>
       \E r \in Requests : job[r].at = "record" /\ job[r].plan.isSeek]_vars

(***************************************************************************)
(* "for time critical pieces, a more aggressive remedy may be used after a *)
(* timeout, for example asking again or reassigning"                       *)
(* (docs/open-source-streaming-performance-research.md:195): the recovery  *)
(* of stalled pieces lowers the priority of none.                          *)
(***************************************************************************)
RecoveryNeverLowers ==
  [][con.at = "recovering" => \A p \in Pieces : prio'[p] >= prio[p]]_<<con, prio>>

(***************************************************************************)
(* "after a seek to a far position, priorities switch quickly to the new   *)
(* area" (docs/streaming-execution-roadmap.md:216): when one request is    *)
(* open and no plan is being carried out, the window has not been prepared *)
(* for a position as far before the one it asked for as makes a seek.      *)
(***************************************************************************)
SeekSwitchesWindow ==
  \A r \in Requests :
    /\ req[r].at = "open" /\ req[r].range # None
    /\ \A q \in Requests \ {r} : req[q].at = "idle"
    /\ ~\E a \in Requests \cup {Events} : Busy(a)
    => req[r].range <= prepared + SeekThreshold
=============================================================================
