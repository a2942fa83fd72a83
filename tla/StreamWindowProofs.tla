-------------------------- MODULE StreamWindowProofs --------------------------
(***************************************************************************)
(* Proofs about StreamWindow, for every file, every setting and any number *)
(* of requests.                                                            *)
(***************************************************************************)
EXTENDS StreamWindowHistory, TLAPS

(***************************************************************************)
(* Pieces.                                                                 *)
(***************************************************************************)
LEMMA Division ==
  ASSUME NEW n \in Nat, NEW d \in Nat \ {0}
  PROVE  /\ n \div d \in Nat
         /\ (n \div d) * d <= n
         /\ n < (n \div d) * d + d
  OBVIOUS

LEMMA Quotient ==
  ASSUME NEW n \in Int, NEW q \in Int, NEW d \in Nat \ {0}, n < q * d, NEW p \in Int, p * d <= n
  PROVE  p < q
<1>1. p * d < q * d
  OBVIOUS
<1>2. SUFFICES ASSUME q <= p PROVE FALSE
  OBVIOUS
<1>3. q * d <= p * d
  BY <1>2
<1>4. QED
  BY <1>1, <1>3

(* The piece a plan is made around is one of the file. *)
LEMMA PieceOfFile ==
  ASSUME NEW start \in FileOffset .. (FileOffset + FileLength - 1)
  PROVE  /\ FirstPiece \in Nat
         /\ EndPiece \in Nat
         /\ FirstPiece + (start - FileOffset) \div PieceLength \in FirstPiece .. (EndPiece - 1)
<1> DEFINE q == (start - FileOffset) \div PieceLength
           last == FileOffset + FileLength - 1
<1>1. /\ start - FileOffset \in Nat /\ FileOffset \in Nat /\ last \in Nat
      /\ PieceLength \in Nat \ {0} /\ last + PieceLength \in Nat
  BY FileType
<1>2. q \in Nat /\ q * PieceLength <= start - FileOffset
  BY <1>1, Division
<1>3. FirstPiece \in Nat /\ FirstPiece * PieceLength <= FileOffset
  BY <1>1, Division DEF FirstPiece
<1>4. EndPiece = (last + PieceLength) \div PieceLength
  BY <1>1, FileType DEF EndPiece
<1>5. EndPiece \in Nat /\ last + PieceLength < EndPiece * PieceLength + PieceLength
  BY <1>1, <1>4, Division
<1> HIDE DEF q
<1>6. EndPiece * PieceLength \in Int /\ last < EndPiece * PieceLength
  BY <1>1, <1>5
<1>7. (FirstPiece + q) * PieceLength = FirstPiece * PieceLength + q * PieceLength
  BY <1>1, <1>2, <1>3
<1>8. (FirstPiece + q) * PieceLength <= last
  BY <1>1, <1>2, <1>3, <1>7, FileType
<1>9. FirstPiece + q < EndPiece
  BY <1>1, <1>2, <1>3, <1>5, <1>6, <1>8, Quotient
<1>10. QED
  BY <1>2, <1>3, <1>5, <1>9 DEF q

LEMMA FileBounds == FirstPiece \in Nat /\ EndPiece \in Nat
<1>1. FileOffset \in FileOffset .. (FileOffset + FileLength - 1)
  BY FileType
<1>2. QED
  BY <1>1, PieceOfFile

(***************************************************************************)
(* Windows.                                                                *)
(***************************************************************************)
LEMMA Sizes ==
  ASSUME NEW scenario
  PROVE  /\ PlaybackSize(scenario) \in Nat \ {0}
         /\ PrefetchSize(scenario) \in Nat
         /\ RetentionSize(scenario) \in Nat
  BY SizesType DEF PlaybackSize, PrefetchSize, RetentionSize, Larger

(* A window planned around a piece of the file is in the file and holds the piece. *)
LEMMA PlannedWindow ==
  ASSUME NEW piece \in FirstPiece .. (EndPiece - 1), NEW scenario,
         FirstPiece \in Nat, EndPiece \in Nat
  PROVE  /\ WindowAround(piece, scenario) \in Windows
         /\ InFile(WindowAround(piece, scenario))
         /\ piece \in Playback(WindowAround(piece, scenario))
<1> DEFINE n == PlaybackSize(scenario)
           f == PrefetchSize(scenario)
           k == RetentionSize(scenario)
<1>1. n \in Nat \ {0} /\ f \in Nat /\ k \in Nat
  BY Sizes
<1> DEFINE cut(p) == Clamp(p, FirstPiece, EndPiece)
           pb == cut(piece - n \div 2)
           pe == cut(pb + n)
           fe == cut(pe + f)
           rb == cut(pb - k)
<1>2. WindowAround(piece, scenario) =
        [playBegin |-> pb, playEnd |-> pe, preBegin |-> pe, preEnd |-> fe,
         retBegin |-> rb, retEnd |-> pb]
  BY DEF WindowAround
<1> HIDE DEF n, f, k
<1>3. pb \in FirstPiece .. piece /\ piece < pb + n
  BY <1>1 DEF Clamp
<1> HIDE DEF pb
<1>4. pe \in (piece + 1) .. EndPiece
  BY <1>1, <1>3 DEF Clamp
<1> HIDE DEF pe
<1>5. fe \in pe .. EndPiece
  BY <1>1, <1>4 DEF Clamp
<1>6. rb \in FirstPiece .. pb
  BY <1>1, <1>3 DEF Clamp
<1> HIDE DEF fe, rb
<1>7. QED
  BY <1>2, <1>3, <1>4, <1>5, <1>6 DEF Windows, InFile, Playback, Span
-----------------------------------------------------------------------------
(* Types.                                                                  *)

LEMMA Planned ==
  ASSUME TypeOK, NEW s \in Int
  PROVE  /\ PlanFor(s) \in Plans
         /\ InFile(PlanFor(s).win)
         /\ FileOffset = 0 /\ s \in 0 .. (FileLength - 1) =>
              PieceOf(s) \in Playback(PlanFor(s).win)
<1> DEFINE start == Clamp(s, FileOffset, FileOffset + FileLength - 1)
           isSeek == FarFrom(start, lastRange) \/ FarFrom(start, prepared)
           piece == FirstPiece + (start - FileOffset) \div PieceLength
           scenario == IF isSeek \/ recovery.pending THEN "seek"
                       ELSE IF framed THEN "steady" ELSE "startup"
           w == WindowAround(piece, scenario)
           old == <<win.playBegin, Larger(win.playEnd, win.preEnd)>>
           fwd == w.playBegin > old[1] \/ w.preEnd > old[2]
<1>1. start \in FileOffset .. (FileOffset + FileLength - 1)
  BY FileType DEF Clamp
<1>2. FirstPiece \in Nat /\ EndPiece \in Nat /\ piece \in FirstPiece .. (EndPiece - 1)
  BY <1>1, PieceOfFile
<1>3. w \in Windows /\ InFile(w) /\ piece \in Playback(w)
  BY <1>2, PlannedWindow
<1>4. Generation(isSeek) \in Nat
  BY DEF TypeOK, Generation, Larger
<1>5. old \in Int \X Int
  BY DEF TypeOK, Windows, Larger
<1>6. start \in Nat
  BY <1>1, FileType
<1>7. PlanFor(s) = [win |-> w, gen |-> Generation(isSeek), start |-> start, old |-> old,
                    isSeek |-> isSeek, forward |-> fwd]
  BY DEF PlanFor
<1>8. isSeek \in BOOLEAN /\ fwd \in BOOLEAN
  BY DEF FarFrom
<1>9. ASSUME FileOffset = 0, s \in 0 .. (FileLength - 1) PROVE PieceOf(s) = piece
  <2>1. start = s
    BY <1>9, FileType DEF Clamp
  <2>2. FirstPiece = 0
    BY <1>9, FileType DEF FirstPiece
  <2>3. PieceOf(s) = s \div PieceLength /\ s \div PieceLength \in Nat
    BY <1>9, FileType, Division DEF PieceOf
  <2>4. QED
    BY <1>9, <2>1, <2>2, <2>3, FileType
<1> HIDE DEF isSeek, w, old, start, fwd, piece
<1>10. PlanFor(s) \in Plans
  BY <1>3, <1>4, <1>5, <1>6, <1>7, <1>8 DEF Plans
<1>11. QED
  BY <1>3, <1>7, <1>9, <1>10

LEMMA NoJobType == NoJob \in Jobs /\ NoPlan \in Plans /\ NoWindow \in Windows
<1>1. NoWindow \in Windows
  BY DEF NoWindow, Windows
<1>2. NoPlan \in Plans
  BY <1>1 DEF NoPlan, Plans
<1>3. QED
  BY <1>1, <1>2 DEF NoJob, Jobs

(* The changes the actions make to the plans in progress. *)
LEMMA JobChanges ==
  ASSUME NEW f \in [Actors -> Jobs], NEW a \in Actors
  PROVE  /\ f[a].plan \in Plans /\ f[a].start \in Int
         /\ \A v \in Jobs : [f EXCEPT ![a] = v] \in [Actors -> Jobs]
         /\ \A at \in {"raise", "record"} : [f EXCEPT ![a].at = at] \in [Actors -> Jobs]
         /\ \A s \in Int : [f EXCEPT ![a] = [at |-> "build", start |-> s, plan |-> NoPlan]]
                             \in [Actors -> Jobs]
<1>1. f[a] \in Jobs
  OBVIOUS
<1>2. \A at \in {"raise", "record"} : [f[a] EXCEPT !.at = at] \in Jobs
  BY <1>1 DEF Jobs
<1>3. \A v \in Jobs : [f EXCEPT ![a] = v] \in [Actors -> Jobs]
  OBVIOUS
<1>4. \A s \in Int : [at |-> "build", start |-> s, plan |-> NoPlan] \in Jobs
  BY NoJobType DEF Jobs
<1>5. f[a].plan \in Plans /\ f[a].start \in Int
  BY <1>1 DEF Jobs
<1>6. \A at \in {"raise", "record"} : [f EXCEPT ![a].at = at] \in [Actors -> Jobs]
  BY <1>2, <1>3
<1>7. \A s \in Int : [f EXCEPT ![a] = [at |-> "build", start |-> s, plan |-> NoPlan]]
                       \in [Actors -> Jobs]
  BY <1>3, <1>4
<1>8. QED
  BY <1>3, <1>5, <1>6, <1>7

Handlers == [at : EventStages, piece : Int, gen : Nat, win : Windows, pending : BOOLEAN]

LEMMA HandlerChanges ==
  /\ \A at \in {"off", "waiting"} : Waiting(at) \in Handlers
  /\ \A c \in Handlers, at \in EventStages : [c EXCEPT !.at = at] \in Handlers
  /\ \A c \in Handlers, i \in 1 .. 5 : Reach(c, i) \in Handlers
<1>1. \A at \in {"off", "waiting"} : Waiting(at) \in Handlers
  <2>1. FirstPiece \in Int
    BY FileBounds
  <2>2. QED
    BY <2>1, NoJobType DEF Waiting, Handlers, EventStages
<1>2. \A c \in Handlers, at \in EventStages : [c EXCEPT !.at = at] \in Handlers
  BY DEF Handlers
<1>3. \A i \in DOMAIN Calls : Calls[i] \in EventStages
  BY DEF Calls, EventStages
<1>4. ASSUME NEW c \in Handlers, NEW i \in 1 .. 5 PROVE Reach(c, i) \in Handlers
  <2> DEFINE made == {j \in i .. Len(Calls) : Made(c, Calls[j])}
             first == CHOOSE j \in made : \A k \in made : j <= k
  <2>1. Len(Calls) = 4 /\ DOMAIN Calls = 1 .. 4
    BY DEF Calls
  <2>2. CASE made = {}
    BY <1>1, <2>2 DEF Reach
  <2>3. CASE made # {}
    <3>1. made \subseteq 1 .. 4
      BY <2>1
    <3>2. \E j \in made : \A k \in made : j <= k
      BY <2>3, <3>1
    <3>3. first \in made
      BY <3>2
    <3>4. Calls[first] \in EventStages
      BY <1>3, <2>1, <3>1, <3>3
    <3>5. Reach(c, i) = [c EXCEPT !.at = Calls[first]]
      BY <2>3 DEF Reach
    <3>6. QED
      BY <1>2, <3>4, <3>5
  <2>4. QED
    BY <2>2, <2>3
<1>5. QED
  BY <1>1, <1>2, <1>4
LEMMA NextReadaheadType ==
  ASSUME TypeOK, NEW speed, NEW isSeek
  PROVE  NextReadahead(speed, isSeek) \in MinReadahead .. MaxReadahead
<1>1. readahead \in Int /\ ReadaheadStep \in Int /\ MinReadahead \in Int /\ MaxReadahead \in Int
      /\ MinReadahead <= MaxReadahead
  BY SizesType DEF TypeOK
<1> DEFINE v == CASE isSeek \/ speed = "slow"  -> readahead + ReadaheadStep
                  [] ~isSeek /\ speed = "fast" -> readahead - ReadaheadStep
                  [] OTHER                     -> readahead
<1>2. v \in Int
  BY <1>1
<1>3. NextReadahead(speed, isSeek) = Clamp(v, MinReadahead, MaxReadahead)
  BY DEF NextReadahead
<1> HIDE DEF v
<1>4. QED
  BY <1>1, <1>2, <1>3 DEF Clamp

LEMMA RaisedType ==
  ASSUME TypeOK, NEW plan \in Plans
  PROVE  Raised(plan) \in [Pieces -> Priorities]
<1>1. \A p \in Pieces : prio[p] \in Priorities
  BY DEF TypeOK
<1>2. {NoPriority, Normal, Readahead, High, Now} \subseteq Priorities
  BY DEF NoPriority, Normal, Readahead, High, Now, Priorities
<1>3. QED
  BY <1>1, <1>2 DEF Raised

LEMMA TypeStep == ASSUME TypeOK, [Next]_vars PROVE TypeOK'
<1> USE DEF TypeOK
<1>0. /\ job \in [Actors -> Jobs]
      /\ con \in Handlers
      /\ \A v : v \in [Actors -> Jobs] => v \in [Requests \cup {Events} -> Jobs]
  BY DEF Actors, Handlers
<1>1. ASSUME NEW a \in Requests \cup {Events}, Planning(a) PROVE TypeOK'
  <2>0. a \in Actors
    BY DEF Actors
  <2>1. CASE Build(a)
    <3> DEFINE p == PlanFor(job[a].start)
               v == [at |-> "raise", start |-> 0,
                     plan |-> [p EXCEPT !.isSeek = @ /\ a # Events]]
    <3>1. p \in Plans
      BY <1>0, <2>0, JobChanges, Planned
    <3>2. job' = [job EXCEPT ![a] = v]
      BY <2>1 DEF Build
    <3> HIDE DEF p
    <3>3. [p EXCEPT !.isSeek = @ /\ a # Events] \in Plans
      BY <3>1 DEF Plans
    <3>4. v \in Jobs
      BY <3>3 DEF Jobs
    <3> HIDE DEF v
    <3>5. job' \in [Requests \cup {Events} -> Jobs]
      BY <1>0, <2>0, <3>2, <3>4, JobChanges
    <3>6. QED
      BY <2>1, <3>5 DEF Build, fields
  <2>2. CASE Raise(a)
    <3>1. job' \in [Requests \cup {Events} -> Jobs]
      BY <1>0, <2>0, <2>2, JobChanges DEF Raise
    <3>2. prio' \in [Pieces -> Priorities]
      BY <1>0, <2>0, <2>2, JobChanges, RaisedType DEF Raise
    <3>3. QED
      BY <2>2, <3>1, <3>2 DEF Raise, fields
  <2>3. CASE Record(a)
    <3>1. job' \in [Requests \cup {Events} -> Jobs]
      BY <1>0, <2>0, <2>3, JobChanges, NoJobType DEF Record
    <3>2. job[a].plan \in Plans
      BY <1>0, <2>0, JobChanges
    <3>3. /\ win' \in Windows /\ gen' \in Nat /\ forward' \in BOOLEAN
          /\ prepared' \in Nat /\ recovery' \in [pending : BOOLEAN, target : Nat]
      BY <2>3, <3>2 DEF Record, Plans
    <3>4. QED
      BY <2>3, <3>1, <3>3 DEF Record
  <2>4. QED
    BY <1>1, <2>1, <2>2, <2>3 DEF Planning
<1>2. ASSUME NEW r \in Requests, Request(r) PROVE TypeOK'
  <2>0. r \in Actors
    BY DEF Actors
  <2>1. ASSUME NEW range \in Ranges, Prepare(r, range) PROVE TypeOK'
    <3>1. req' \in [Requests -> [at : {"idle", "open"}, range : Ranges]]
      BY <2>1 DEF Prepare
    <3> DEFINE v == [at |-> "subscribe", start |-> 0, plan |-> PlanFor(range)]
    <3>2. range \in Int
      BY FileType DEF Ranges, None
    <3>3. v \in Jobs
      BY <3>2, Planned DEF Jobs
    <3>4. job' = job \/ job' = [job EXCEPT ![r] = v]
      BY <2>1 DEF Prepare
    <3> HIDE DEF v
    <3>5. job' \in [Requests \cup {Events} -> Jobs]
      BY <1>0, <2>0, <3>3, <3>4, JobChanges
    <3>6. QED
      BY <2>1, <3>1, <3>5 DEF Prepare, fields
  <2>2. CASE EnsureSubscription(r)
    <3>1. job' \in [Requests \cup {Events} -> Jobs]
      BY <1>0, <2>0, <2>2, JobChanges DEF EnsureSubscription
    <3>2. con' \in Handlers
      BY <1>0, <2>2, HandlerChanges DEF EnsureSubscription
    <3>3. QED
      BY <2>2, <3>1, <3>2 DEF EnsureSubscription, fields, Handlers
  <2>3. ASSUME NEW speed, NEW timed \in BOOLEAN, RecordRangeActivity(r, speed, timed)
        PROVE TypeOK'
    <3> DEFINE start == Larger(req[r].range, 0)
    <3>1. start \in Nat
      BY FileType DEF Larger, Ranges, None
    <3>2. /\ lastRange' = start
          /\ job' = [job EXCEPT ![r] = [at |-> "build", start |-> start, plan |-> NoPlan]]
          /\ readahead' = NextReadahead(speed, FarFrom(start, lastRange))
      BY <2>3 DEF RecordRangeActivity
    <3> HIDE DEF start
    <3>3. job' \in [Requests \cup {Events} -> Jobs]
      <4>1. start \in Int
        BY <3>1
      <4> HIDE DEF TypeOK
      <4>2. [job EXCEPT ![r] = [at |-> "build", start |-> start, plan |-> NoPlan]]
              \in [Actors -> Jobs]
        BY <1>0, <2>0, <4>1, JobChanges
      <4>3. QED
        BY <1>0, <3>2, <4>2
    <3>4. readahead' \in MinReadahead .. MaxReadahead
      BY <3>2, NextReadaheadType
    <3>5. req' \in [Requests -> [at : {"idle", "open"}, range : Ranges]]
      BY <2>3 DEF RecordRangeActivity, Idle, Ranges
    <3>6. framed' \in BOOLEAN
      BY <2>3 DEF RecordRangeActivity
    <3>7. QED
      BY <2>3, <3>1, <3>2, <3>3, <3>4, <3>5, <3>6 DEF RecordRangeActivity, fields
  <2>4. CASE RecordNothing(r)
    BY <2>4 DEF RecordNothing, Idle, Ranges, fields
  <2>5. QED
    BY <1>2, <2>1, <2>2, <2>3, <2>4 DEF Request
<1>3. CASE PieceEvents
  <2>1. ASSUME NEW p \in Pieces, PieceCompletes(p) PROVE TypeOK'
    <3> DEFINE c == [at |-> "waiting", piece |-> p, gen |-> gen, win |-> win,
                     pending |-> recovery.pending]
    <3>1. FirstPiece \in Int /\ EndPiece \in Int
      BY FileBounds
    <3>2. p \in Int
      BY <3>1 DEF Pieces
    <3>3. c \in Handlers
      BY <3>2 DEF Handlers, EventStages
    <3>4. con' = Reach(c, 1)
      BY <2>1 DEF PieceCompletes
    <3> HIDE DEF c
    <3>5. con' \in Handlers
      BY <3>3, <3>4, HandlerChanges
    <3>6. QED
      BY <2>1, <3>5 DEF PieceCompletes, fields, Handlers
  <2>2. ASSUME Return, \E i \in DOMAIN Calls : con.at = Calls[i] PROVE con' \in Handlers
    <3> DEFINE i == CHOOSE i \in DOMAIN Calls : Calls[i] = con.at
    <3>1. i \in DOMAIN Calls
      BY <2>2
    <3>2. 1 + i \in 1 .. 5
      <4> HIDE DEF i
      <4>1. DOMAIN Calls = 1 .. 4
        BY DEF Calls
      <4>2. QED
        BY <3>1, <4>1
    <3>3. con' = Reach(con, 1 + i)
      BY <2>2 DEF Return
    <3> HIDE DEF i
    <3>4. QED
      BY <1>0, <3>2, <3>3, HandlerChanges
  <2>3. CASE ReturnEarly
    <3>1. con' \in Handlers
      BY <2>2, <2>3 DEF ReturnEarly
    <3>2. QED
      BY <2>3, <3>1 DEF ReturnEarly, fields, Handlers
  <2>4. CASE MaybeAdvanceWindow
    <3>1. con' \in Handlers
      BY <2>2, <2>4 DEF MaybeAdvanceWindow, Calls
    <3>2. AdvanceStart \in Int
      <4>1. FirstPiece \in Int /\ PieceLength \in Int /\ FileOffset \in Int /\ prepared \in Int
        BY FileBounds, FileType DEF None
      <4>2. Larger(con.piece + 1, win.playBegin) \in Int
        BY DEF Larger, Windows
      <4>3. Offset(Larger(con.piece + 1, win.playBegin)) \in Int
        BY <4>1, <4>2 DEF Offset
      <4>4. QED
        BY <4>1, <4>3 DEF AdvanceStart
    <3>3. Events \in Actors
      BY DEF Actors
    <3>4. job' \in [Requests \cup {Events} -> Jobs]
      BY <1>0, <2>4, <3>2, <3>3, JobChanges DEF MaybeAdvanceWindow
    <3>5. QED
      BY <2>4, <3>1, <3>4 DEF MaybeAdvanceWindow, fields, Handlers
  <2>5. CASE MarkSeekRecovery
    <3>1. con' \in Handlers
      BY <2>2, <2>5 DEF MarkSeekRecovery, Calls
    <3>2. QED
      BY <2>5, <3>1 DEF MarkSeekRecovery, Handlers
  <2>6. CASE FindStalled
    <3>1. con' \in Handlers
      BY <1>0, <2>6, HandlerChanges DEF FindStalled, EventStages
    <3>2. QED
      BY <2>6, <3>1 DEF FindStalled, fields, Handlers
  <2>7. ASSUME NEW slow \in BOOLEAN, RaiseStalled(slow) PROVE TypeOK'
    <3>1. con' \in Handlers
      BY <1>0, <2>7, HandlerChanges DEF RaiseStalled, EventStages
    <3>2. {High, Now} \subseteq Priorities
      BY DEF High, Now, Priorities
    <3>3. prio' \in [Pieces -> Priorities]
      BY <2>7, <3>2 DEF RaiseStalled
    <3>4. QED
      BY <2>7, <3>1, <3>3 DEF RaiseStalled, fields, Handlers
  <2>8. CASE RecordRecovery
    <3>1. con' \in Handlers
      BY <1>0, <2>8, HandlerChanges DEF RecordRecovery
    <3>2. QED
      BY <2>8, <3>1 DEF RecordRecovery, Handlers
  <2>9. CASE EventsEnd
    <3>1. con' \in Handlers
      BY <2>9, HandlerChanges DEF EventsEnd
    <3>2. QED
      BY <2>9, <3>1 DEF EventsEnd, fields, Handlers
  <2>10. QED
    BY <1>3, <2>1, <2>3, <2>4, <2>5, <2>6, <2>7, <2>8, <2>9 DEF PieceEvents
<1>4. CASE Cancel
  BY <1>4 DEF Cancel, fields
<1>5. CASE UNCHANGED vars
  BY <1>5 DEF vars
<1>6. QED
  BY <1>1, <1>2, <1>3, <1>4, <1>5 DEF Next

LEMMA TypeInit == Init => TypeOK
<1> SUFFICES ASSUME Init PROVE TypeOK
  OBVIOUS
<1> USE DEF Init
<1>1. win \in Windows /\ job \in [Requests \cup {Events} -> Jobs]
  BY NoJobType
<1>2. readahead \in MinReadahead .. MaxReadahead
  BY SizesType DEF Clamp
<1>3. con \in Handlers
  BY HandlerChanges
<1>4. prio \in [Pieces -> Priorities]
  BY DEF Priorities, Normal, NoPriority
<1>5. req \in [Requests -> [at : {"idle", "open"}, range : Ranges]]
  BY DEF Idle, Ranges
<1>6. QED
  BY <1>1, <1>2, <1>3, <1>4, <1>5 DEF TypeOK, Handlers

(* Type correctness, with any file, any settings and any number of requests. *)
THEOREM TypeCorrect == Spec => []TypeOK
  BY TypeInit, TypeStep, PTL DEF Spec
-----------------------------------------------------------------------------
(* Windows in the file.                                                    *)

Fits(w) == w = NoWindow \/ InFile(w)

LEMMA ReachKeepsWindow ==
  ASSUME NEW c \in Handlers, NEW i \in 1 .. 5, Fits(c.win)
  PROVE  Fits(Reach(c, i).win)
<1>1. Fits(Waiting("waiting").win)
  BY DEF Waiting, Fits
<1>2. Reach(c, i) = Waiting("waiting")
      \/ \E at : Reach(c, i) = [c EXCEPT !.at = at]
  BY DEF Reach
<1>3. QED
  BY <1>1, <1>2 DEF Handlers

LEMMA ReturnKeepsWindow ==
  ASSUME TypeOK, Return, Fits(con.win), \E i \in DOMAIN Calls : con.at = Calls[i]
  PROVE  Fits(con'.win)
<1> DEFINE i == CHOOSE i \in DOMAIN Calls : Calls[i] = con.at
<1>1. i \in DOMAIN Calls
  OBVIOUS
<1>2. con' = Reach(con, 1 + i)
  BY DEF Return
<1> HIDE DEF i
<1>3. DOMAIN Calls = 1 .. 4
  BY DEF Calls
<1>4. con \in Handlers /\ 1 + i \in 1 .. 5
  BY <1>1, <1>3 DEF TypeOK, Handlers
<1>5. QED
  BY <1>2, <1>4, ReachKeepsWindow

LEMMA WindowStep == ASSUME TypeOK, WindowInFile, [Next]_vars PROVE WindowInFile'
<1> DEFINE planned == {"subscribe", "raise", "record"}
<1>0. /\ \A a \in Actors : job[a] \in Jobs /\ job[a].start \in Int
      /\ job \in [Actors -> Jobs]
      /\ \A a \in Actors : job[a].at \in planned => InFile(job[a].plan.win)
      /\ Fits(con.win)
      /\ Fits(win)
      /\ con \in Handlers
  BY JobChanges DEF TypeOK, WindowInFile, Actors, Handlers, Fits
(* Steps that leave the windows alone, and change one plan to one that fits. *)
<1>1. ASSUME UNCHANGED <<win, prepared>>, Fits(con'.win),
             NEW a \in Actors, NEW v, job' = [job EXCEPT ![a] = v],
             v.at \in planned => InFile(v.plan.win)
      PROVE WindowInFile'
  <2>1. \A b \in Actors : job'[b].at \in planned => InFile(job'[b].plan.win)
    BY <1>0, <1>1
  <2>2. QED
    BY <1>1, <2>1 DEF WindowInFile, Fits, Actors, InFile
<1>2. ASSUME UNCHANGED <<win, prepared, job>>, Fits(con'.win) PROVE WindowInFile'
  BY <1>2 DEF WindowInFile, Fits, InFile
<1>3. ASSUME NEW a \in Requests \cup {Events}, Planning(a) PROVE WindowInFile'
  <2>0. a \in Actors
    BY DEF Actors
  <2>1. CASE Build(a)
    <3> DEFINE p == PlanFor(job[a].start)
               v == [at |-> "raise", start |-> 0,
                     plan |-> [p EXCEPT !.isSeek = @ /\ a # Events]]
    <3>1. p \in Plans /\ InFile(p.win)
      BY <1>0, <2>0, Planned
    <3>2. job' = [job EXCEPT ![a] = v] /\ UNCHANGED <<win, prepared, con>>
      BY <2>1 DEF Build, fields
    <3> HIDE DEF p
    <3>3. [p EXCEPT !.isSeek = @ /\ a # Events].win = p.win
      BY <3>1 DEF Plans
    <3>4. InFile(v.plan.win)
      BY <3>1, <3>3
    <3> HIDE DEF v
    <3>5. QED
      BY <1>0, <1>1, <2>0, <3>2, <3>4
  <2>2. CASE Raise(a)
    <3> DEFINE v == [job[a] EXCEPT !.at = "record"]
    <3>1. job' = [job EXCEPT ![a] = v] /\ UNCHANGED <<win, prepared, con>>
      BY <2>2 DEF Raise, fields
    <3>2. v.plan = job[a].plan
      BY <1>0, <2>0 DEF Jobs
    <3>3. InFile(v.plan.win)
      BY <1>0, <2>0, <2>2, <3>2 DEF Raise
    <3> HIDE DEF v
    <3>4. QED
      BY <1>0, <1>1, <2>0, <3>1, <3>3
  <2>3. CASE Record(a)
    <3>1. InFile(job[a].plan.win) /\ job[a].plan \in Plans
      BY <1>0, <2>0, <2>3, JobChanges DEF Record
    <3>2. /\ win' = job[a].plan.win
          /\ prepared' = job[a].plan.start
          /\ job' = [job EXCEPT ![a] = NoJob]
          /\ con' = con
      BY <2>3 DEF Record
    <3>3. prepared' \in Nat /\ prepared' # None
      BY <3>1, <3>2 DEF Plans, None
    <3>4. InFile(win') /\ win' # NoWindow
      <4>1. win' \in Windows
        BY <3>1, <3>2 DEF Plans
      <4>2. FirstPiece \in Nat
        BY FileBounds
      <4>3. QED
        BY <3>1, <3>2, <4>1, <4>2 DEF InFile, NoWindow, Windows
    <3>5. \A b \in Actors : job'[b].at \in planned => InFile(job'[b].plan.win)
      BY <1>0, <3>2 DEF NoJob
    <3>6. QED
      BY <1>0, <3>2, <3>3, <3>4, <3>5 DEF WindowInFile, Fits, Actors, InFile
  <2>4. QED
    BY <1>3, <2>1, <2>2, <2>3 DEF Planning
<1>4. ASSUME NEW r \in Requests, Request(r) PROVE WindowInFile'
  <2>0. r \in Actors
    BY DEF Actors
  <2>1. ASSUME NEW range \in Ranges, Prepare(r, range) PROVE WindowInFile'
    <3> DEFINE v == [at |-> "subscribe", start |-> 0, plan |-> PlanFor(range)]
    <3>1. range \in Int
      BY FileType DEF Ranges, None
    <3>2. InFile(v.plan.win)
      BY <3>1, Planned
    <3>3. job' = job \/ job' = [job EXCEPT ![r] = v]
      BY <2>1 DEF Prepare
    <3>4. UNCHANGED <<win, prepared, con>>
      BY <2>1 DEF Prepare, fields
    <3> HIDE DEF v
    <3>5. QED
      BY <1>0, <1>1, <1>2, <2>0, <3>2, <3>3, <3>4
  <2>2. CASE EnsureSubscription(r)
    <3> DEFINE v == [job[r] EXCEPT !.at = "raise"]
    <3>1. job' = [job EXCEPT ![r] = v] /\ UNCHANGED <<win, prepared>>
      BY <2>2 DEF EnsureSubscription, fields
    <3>2. v.plan = job[r].plan
      BY <1>0, <2>0 DEF Jobs
    <3>3. InFile(v.plan.win)
      BY <1>0, <2>0, <2>2, <3>2 DEF EnsureSubscription
    <3>4. Fits(con'.win)
      BY <1>0, <2>2 DEF EnsureSubscription, Waiting, Fits
    <3> HIDE DEF v
    <3>5. QED
      BY <1>1, <2>0, <3>1, <3>3, <3>4
  <2>3. ASSUME NEW speed, NEW timed, RecordRangeActivity(r, speed, timed)
        PROVE WindowInFile'
    <3> DEFINE v == [at |-> "build", start |-> Larger(req[r].range, 0), plan |-> NoPlan]
    <3>1. job' = [job EXCEPT ![r] = v] /\ UNCHANGED <<win, prepared, con>>
      BY <2>3 DEF RecordRangeActivity, fields
    <3>2. v.at \notin planned
      OBVIOUS
    <3> HIDE DEF v
    <3>3. QED
      BY <1>0, <1>1, <2>0, <3>1, <3>2
  <2>4. CASE RecordNothing(r)
    BY <1>0, <1>2, <2>4 DEF RecordNothing, fields
  <2>5. QED
    BY <1>4, <2>1, <2>2, <2>3, <2>4 DEF Request
<1>5. CASE PieceEvents
  <2>1. ASSUME NEW p \in Pieces, PieceCompletes(p) PROVE WindowInFile'
    <3> DEFINE c == [at |-> "waiting", piece |-> p, gen |-> gen, win |-> win,
                     pending |-> recovery.pending]
    <3>1. p \in Int
      BY FileBounds DEF Pieces
    <3>2. c \in Handlers
      BY <3>1 DEF Handlers, EventStages, TypeOK
    <3>3. con' = Reach(c, 1) /\ UNCHANGED <<win, prepared, job>>
      BY <2>1 DEF PieceCompletes, fields
    <3>4. Fits(c.win)
      BY <1>0
    <3> HIDE DEF c
    <3>5. QED
      BY <1>2, <3>2, <3>3, <3>4, ReachKeepsWindow
  <2>2. CASE ReturnEarly
    BY <1>0, <1>2, <2>2, ReturnKeepsWindow DEF ReturnEarly, fields
  <2>3. CASE MaybeAdvanceWindow
    <3> DEFINE v == [at |-> "build", start |-> AdvanceStart, plan |-> NoPlan]
    <3>1. job' = [job EXCEPT ![Events] = v] /\ UNCHANGED <<win, prepared>>
      BY <2>3 DEF MaybeAdvanceWindow, fields
    <3>2. v.at \notin planned
      OBVIOUS
    <3>3. Fits(con'.win)
      BY <1>0, <2>3, ReturnKeepsWindow DEF MaybeAdvanceWindow, Calls
    <3>4. Events \in Actors
      BY DEF Actors
    <3> HIDE DEF v
    <3>5. QED
      BY <1>1, <3>1, <3>2, <3>3, <3>4
  <2>4. CASE MarkSeekRecovery
    <3>1. Fits(con'.win)
      BY <1>0, <2>4, ReturnKeepsWindow DEF MarkSeekRecovery, Calls
    <3>2. QED
      BY <1>2, <2>4, <3>1 DEF MarkSeekRecovery
  <2>5. CASE FindStalled \/ \E slow \in BOOLEAN : RaiseStalled(slow)
    <3>1. con'.win = con.win
      BY <1>0, <2>5 DEF FindStalled, RaiseStalled, Handlers
    <3>2. UNCHANGED <<win, prepared, job>>
      BY <2>5 DEF FindStalled, RaiseStalled, fields
    <3>3. QED
      BY <1>0, <1>2, <3>1, <3>2
  <2>6. CASE RecordRecovery
    <3>1. Fits(con'.win)
      BY <1>0, <2>6, ReachKeepsWindow DEF RecordRecovery
    <3>2. QED
      BY <1>2, <2>6, <3>1 DEF RecordRecovery
  <2>7. CASE EventsEnd
    BY <1>2, <2>7 DEF EventsEnd, fields, Waiting, Fits
  <2>8. QED
    BY <1>5, <2>1, <2>2, <2>3, <2>4, <2>5, <2>6, <2>7 DEF PieceEvents
<1>6. CASE Cancel
  BY <1>0, <1>2, <1>6 DEF Cancel, fields
<1>7. CASE UNCHANGED vars
  BY <1>0, <1>2, <1>7 DEF vars
<1>8. QED
  BY <1>3, <1>4, <1>5, <1>6, <1>7 DEF Next

(***************************************************************************)
(* Whatever the requests, the events and their order, no window leaves the *)
(* file and no playback window is empty.                                   *)
(***************************************************************************)
THEOREM WindowsStayInFile == Spec => []WindowInFile
<1>1. Init => WindowInFile
  BY DEF Init, WindowInFile, NoJob, Waiting, None
<1>2. TypeOK /\ WindowInFile /\ [Next]_vars => WindowInFile'
  BY WindowStep
<1>3. QED
  BY <1>1, <1>2, TypeCorrect, PTL DEF Spec
-----------------------------------------------------------------------------
(* What a plan holds, and when a recovery is under way.                    *)

(* A request that is open carries out the plan for its own range. *)
HoldsRange(j, q) ==
  /\ j.at = "build" => q.at = "idle"
  /\ q.at = "open" /\ j.at \in InHand =>
       (FileOffset = 0 => PieceOf(q.range) \in Playback(j.plan.win))

PlansHoldRanges == \A r \in Requests : HoldsRange(job[r], req[r])

(* What the handler has seen pending is pending until it is done. *)
RecoveryUnderWay == con.at \in {"recovering", "recovered"} => recovery.pending

EventsNeverSeek == ~job[Events].plan.isSeek

FlowInv == PlansHoldRanges /\ RecoveryUnderWay /\ EventsNeverSeek

LEMMA ReachIsNoRecovery ==
  ASSUME NEW c \in Handlers, NEW i \in 1 .. 5
  PROVE  Reach(c, i).at \notin {"recovering", "recovered"}
<1> DEFINE made == {j \in i .. Len(Calls) : Made(c, Calls[j])}
           first == CHOOSE j \in made : \A k \in made : j <= k
<1>1. Len(Calls) = 4 /\ \A j \in 1 .. 4 : Calls[j] \notin {"recovering", "recovered"}
  BY DEF Calls
<1>2. CASE made = {}
  BY <1>2 DEF Reach, Waiting
<1>3. CASE made # {}
  <2>1. made \subseteq 1 .. 4
    BY <1>1
  <2>2. \E j \in made : \A k \in made : j <= k
    BY <1>3, <2>1
  <2>3. first \in made
    BY <2>2
  <2>4. Calls[first] \notin {"recovering", "recovered"}
    BY <1>1, <2>1, <2>3
  <2>5. Reach(c, i) = [c EXCEPT !.at = Calls[first]]
    BY <1>3 DEF Reach
  <2> HIDE DEF first
  <2>6. QED
    BY <2>4, <2>5 DEF Handlers
<1>4. QED
  BY <1>2, <1>3

LEMMA ReturnIsNoRecovery ==
  ASSUME TypeOK, Return, \E i \in DOMAIN Calls : con.at = Calls[i]
  PROVE  con'.at \notin {"recovering", "recovered"}
<1> DEFINE i == CHOOSE i \in DOMAIN Calls : Calls[i] = con.at
<1>1. i \in DOMAIN Calls
  OBVIOUS
<1>2. con' = Reach(con, 1 + i)
  BY DEF Return
<1> HIDE DEF i
<1>3. DOMAIN Calls = 1 .. 4
  BY DEF Calls
<1>4. con \in Handlers /\ 1 + i \in 1 .. 5
  BY <1>1, <1>3 DEF TypeOK, Handlers
<1>5. QED
  BY <1>2, <1>4, ReachIsNoRecovery

LEMMA FlowStep == ASSUME TypeOK, FlowInv, [Next]_vars PROVE FlowInv'
<1>0. /\ job \in [Actors -> Jobs] /\ req \in [Requests -> [at : {"idle", "open"}, range : Ranges]]
      /\ \A a \in Actors : job[a] \in Jobs /\ job[a].start \in Int /\ job[a].plan \in Plans
      /\ Requests \subseteq Actors /\ Events \in Actors /\ Events \notin Requests
      /\ con \in Handlers
      /\ \A r \in Requests : HoldsRange(job[r], req[r])
      /\ RecoveryUnderWay /\ EventsNeverSeek
  BY JobChanges, EventsIsNoRequest DEF TypeOK, Actors, Handlers, FlowInv, PlansHoldRanges
(* A request's step: it changes its own plan and its own range. *)
<1>1. ASSUME NEW r \in Requests, NEW v, NEW q,
             job' = [job EXCEPT ![r] = v], req' = [req EXCEPT ![r] = q], HoldsRange(v, q)
      PROVE  PlansHoldRanges' /\ EventsNeverSeek'
  <2>1. /\ job'[r] = v /\ req'[r] = q
        /\ \A s \in Requests \ {r} : job'[s] = job[s] /\ req'[s] = req[s]
        /\ job'[Events] = job[Events]
    BY <1>0, <1>1
  <2>2. ASSUME NEW s \in Requests PROVE HoldsRange(job'[s], req'[s])
    BY <1>0, <1>1, <2>1
  <2>3. QED
    BY <1>0, <2>1, <2>2 DEF PlansHoldRanges, EventsNeverSeek, HoldsRange, PieceOf
(* A step of the events: it changes their plan. *)
<1>2. ASSUME NEW v, job' = [job EXCEPT ![Events] = v], req' = req, ~v.plan.isSeek
      PROVE  PlansHoldRanges' /\ EventsNeverSeek'
  <2>1. job'[Events] = v /\ \A s \in Requests : job'[s] = job[s]
    BY <1>0, <1>2
  <2>2. QED
    BY <1>0, <1>2, <2>1 DEF PlansHoldRanges, EventsNeverSeek, HoldsRange, PieceOf
<1>3. ASSUME UNCHANGED <<job, req>> PROVE PlansHoldRanges' /\ EventsNeverSeek'
  BY <1>0, <1>3 DEF PlansHoldRanges, EventsNeverSeek, HoldsRange, PieceOf
<1>4. ASSUME UNCHANGED <<con, recovery>> PROVE RecoveryUnderWay'
  BY <1>0, <1>4 DEF RecoveryUnderWay
<1>5. ASSUME con'.at \notin {"recovering", "recovered"} PROVE RecoveryUnderWay'
  BY <1>5 DEF RecoveryUnderWay
<1>6. ASSUME NEW r \in Requests, req' = req, NEW v, job' = [job EXCEPT ![r] = v],
             HoldsRange(v, req[r])
      PROVE  PlansHoldRanges' /\ EventsNeverSeek'
  <2>1. req' = [req EXCEPT ![r] = req[r]]
    BY <1>0, <1>6
  <2>2. QED
    BY <1>1, <1>6, <2>1
<1>7. ASSUME NEW a \in Requests \cup {Events}, Planning(a) PROVE FlowInv'
  <2>0. a \in Actors
    BY DEF Actors
  <2>1. CASE Build(a)
    <3> DEFINE p == PlanFor(job[a].start)
               v == [at |-> "raise", start |-> 0,
                     plan |-> [p EXCEPT !.isSeek = @ /\ a # Events]]
    <3>1. p \in Plans
      BY <1>0, <2>0, Planned
    <3>2. job' = [job EXCEPT ![a] = v] /\ UNCHANGED <<req, con, recovery>>
      BY <2>1 DEF Build, fields
    <3> HIDE DEF p
    <3>3. a = Events => ~v.plan.isSeek
      BY <3>1 DEF Plans
    <3>4. a \in Requests => HoldsRange(v, req[a])
      BY <1>0, <2>1 DEF Build, HoldsRange
    <3> HIDE DEF v
    <3>5. QED
      BY <1>2, <1>4, <1>6, <3>2, <3>3, <3>4 DEF FlowInv
  <2>2. CASE Raise(a)
    <3> DEFINE v == [job[a] EXCEPT !.at = "record"]
    <3>1. job' = [job EXCEPT ![a] = v] /\ UNCHANGED <<req, con, recovery>>
      BY <2>2 DEF Raise, fields
    <3>2. v.plan = job[a].plan /\ v.at = "record"
      BY <1>0, <2>0 DEF Jobs
    <3> HIDE DEF v
    <3>3. a = Events => ~v.plan.isSeek
      BY <1>0, <3>2 DEF EventsNeverSeek
    <3>4. a \in Requests => HoldsRange(v, req[a])
      BY <1>0, <2>2, <3>2 DEF Raise, HoldsRange, InHand
    <3>5. QED
      BY <1>2, <1>4, <1>6, <3>1, <3>3, <3>4 DEF FlowInv
  <2>3. CASE Record(a)
    <3>1. job' = [job EXCEPT ![a] = NoJob] /\ UNCHANGED <<req, con>>
      BY <2>3 DEF Record
    <3>2. HoldsRange(NoJob, req[a]) /\ ~NoJob.plan.isSeek
      BY DEF HoldsRange, NoJob, NoPlan, InHand
    <3>3. recovery.pending => recovery'.pending
      BY <2>3 DEF Record
    <3>4. RecoveryUnderWay'
      BY <1>0, <3>1, <3>3 DEF RecoveryUnderWay
    <3>5. QED
      BY <1>2, <1>6, <3>1, <3>2, <3>4 DEF FlowInv
  <2>4. QED
    BY <1>7, <2>1, <2>2, <2>3 DEF Planning
<1>8. ASSUME NEW r \in Requests, Request(r) PROVE FlowInv'
  <2>0. r \in Actors /\ job[r] \in Jobs /\ req[r] \in [at : {"idle", "open"}, range : Ranges]
    BY <1>0
  <2>1. ASSUME NEW range \in Ranges, Prepare(r, range) PROVE FlowInv'
    <3> DEFINE v == IF range = None THEN job[r]
                    ELSE [at |-> "subscribe", start |-> 0, plan |-> PlanFor(range)]
               q == [at |-> "open", range |-> range]
    <3>1. job' = [job EXCEPT ![r] = v] /\ req' = [req EXCEPT ![r] = q]
      BY <1>0, <2>1 DEF Prepare
    <3>2. UNCHANGED <<con, recovery>>
      BY <2>1 DEF Prepare, fields
    <3>3. HoldsRange(v, q)
      <4>1. CASE range = None
        BY <2>1, <4>1 DEF Prepare, HoldsRange, InHand
      <4>2. CASE range # None
        <5>1. range \in 0 .. (FileLength - 1) /\ range \in Int
          BY <4>2, FileType DEF Ranges
        <5>2. FileOffset = 0 => PieceOf(range) \in Playback(PlanFor(range).win)
          BY <5>1, Planned
        <5>3. QED
          BY <4>2, <5>2 DEF HoldsRange
      <4>3. QED
        BY <4>1, <4>2
    <3> HIDE DEF v, q
    <3>4. QED
      BY <1>1, <1>4, <3>1, <3>2, <3>3 DEF FlowInv
  <2>2. CASE EnsureSubscription(r)
    <3> DEFINE v == [job[r] EXCEPT !.at = "raise"]
    <3>1. job' = [job EXCEPT ![r] = v] /\ UNCHANGED <<req, recovery>>
      BY <2>2 DEF EnsureSubscription, fields
    <3>2. v.plan = job[r].plan /\ v.at = "raise"
      BY <2>0 DEF Jobs
    <3> HIDE DEF v
    <3>3. HoldsRange(v, req[r])
      BY <1>0, <2>2, <3>2 DEF EnsureSubscription, HoldsRange, InHand
    <3>4. RecoveryUnderWay'
      BY <1>0, <2>2, <3>1 DEF EnsureSubscription, RecoveryUnderWay, Waiting
    <3>5. QED
      BY <1>6, <3>1, <3>3, <3>4 DEF FlowInv
  <2>3. ASSUME NEW speed, NEW timed, RecordRangeActivity(r, speed, timed) PROVE FlowInv'
    <3> DEFINE v == [at |-> "build", start |-> Larger(req[r].range, 0), plan |-> NoPlan]
    <3>1. job' = [job EXCEPT ![r] = v] /\ req' = [req EXCEPT ![r] = Idle]
          /\ UNCHANGED <<con, recovery>>
      BY <2>3 DEF RecordRangeActivity, fields
    <3>2. HoldsRange(v, Idle)
      BY DEF HoldsRange, Idle
    <3> HIDE DEF v
    <3>3. QED
      BY <1>1, <1>4, <3>1, <3>2 DEF FlowInv
  <2>4. CASE RecordNothing(r)
    <3>1. job' = [job EXCEPT ![r] = job[r]] /\ req' = [req EXCEPT ![r] = Idle]
          /\ UNCHANGED <<con, recovery>>
      BY <1>0, <2>4 DEF RecordNothing, fields
    <3>2. HoldsRange(job[r], Idle)
      BY DEF HoldsRange, Idle
    <3>3. QED
      BY <1>1, <1>4, <3>1, <3>2 DEF FlowInv
  <2>5. QED
    BY <1>8, <2>1, <2>2, <2>3, <2>4 DEF Request
<1>9. CASE PieceEvents
  <2>1. ASSUME NEW p \in Pieces, PieceCompletes(p) PROVE FlowInv'
    <3> DEFINE c == [at |-> "waiting", piece |-> p, gen |-> gen, win |-> win,
                     pending |-> recovery.pending]
    <3>1. p \in Int
      BY FileBounds DEF Pieces
    <3>2. c \in Handlers
      BY <3>1 DEF Handlers, EventStages, TypeOK
    <3>3. con' = Reach(c, 1) /\ UNCHANGED <<job, req>>
      BY <2>1 DEF PieceCompletes
    <3> HIDE DEF c
    <3>4. con'.at \notin {"recovering", "recovered"}
      BY <3>2, <3>3, ReachIsNoRecovery
    <3>5. QED
      BY <1>3, <1>5, <3>3, <3>4 DEF FlowInv
  <2>2. CASE ReturnEarly
    BY <1>3, <1>5, <2>2, ReturnIsNoRecovery DEF ReturnEarly, FlowInv
  <2>3. CASE MaybeAdvanceWindow
    <3> DEFINE v == [at |-> "build", start |-> AdvanceStart, plan |-> NoPlan]
    <3>1. job' = [job EXCEPT ![Events] = v] /\ req' = req
      BY <2>3 DEF MaybeAdvanceWindow
    <3>2. ~v.plan.isSeek
      BY DEF NoPlan
    <3> HIDE DEF v
    <3>3. con'.at \notin {"recovering", "recovered"}
      BY <2>3, ReturnIsNoRecovery DEF MaybeAdvanceWindow, Calls
    <3>4. QED
      BY <1>2, <1>5, <3>1, <3>2, <3>3 DEF FlowInv
  <2>4. CASE MarkSeekRecovery
    <3>1. con'.at \notin {"recovering", "recovered"}
      BY <2>4, ReturnIsNoRecovery DEF MarkSeekRecovery, Calls
    <3>2. QED
      BY <1>3, <1>5, <2>4, <3>1 DEF MarkSeekRecovery, FlowInv
  <2>5. CASE FindStalled
    <3>1. RecoveryUnderWay'
      BY <2>5 DEF FindStalled, fields, RecoveryUnderWay
    <3>2. QED
      BY <1>3, <2>5, <3>1 DEF FindStalled, FlowInv
  <2>6. ASSUME NEW slow, RaiseStalled(slow) PROVE FlowInv'
    <3>1. RecoveryUnderWay'
      BY <1>0, <2>6 DEF RaiseStalled, fields, RecoveryUnderWay
    <3>2. QED
      BY <1>3, <2>6, <3>1 DEF RaiseStalled, FlowInv
  <2>7. CASE RecordRecovery
    <3>1. con'.at \notin {"recovering", "recovered"}
      BY <1>0, <2>7, ReachIsNoRecovery DEF RecordRecovery
    <3>2. QED
      BY <1>3, <1>5, <2>7, <3>1 DEF RecordRecovery, FlowInv
  <2>8. CASE EventsEnd
    <3>1. con'.at \notin {"recovering", "recovered"}
      BY <2>8 DEF EventsEnd, Waiting
    <3>2. QED
      BY <1>3, <1>5, <2>8, <3>1 DEF EventsEnd, FlowInv
  <2>9. QED
    BY <1>9, <2>1, <2>2, <2>3, <2>4, <2>5, <2>6, <2>7, <2>8 DEF PieceEvents
<1>10. CASE Cancel
  BY <1>3, <1>4, <1>10 DEF Cancel, fields, FlowInv
<1>11. CASE UNCHANGED vars
  BY <1>3, <1>4, <1>11 DEF vars, FlowInv
<1>12. QED
  BY <1>7, <1>8, <1>9, <1>10, <1>11 DEF Next

LEMMA FlowInit == Init => FlowInv
  BY DEF Init, FlowInv, PlansHoldRanges, RecoveryUnderWay, EventsNeverSeek, HoldsRange,
         NoJob, NoPlan, Waiting, InHand
LEMMA FlowHolds == Spec => [](TypeOK /\ FlowInv)
<1>1. Init => TypeOK /\ FlowInv
  BY TypeInit, FlowInit
<1>2. TypeOK /\ FlowInv /\ [Next]_vars => TypeOK' /\ FlowInv'
  BY TypeStep, FlowStep
<1>3. QED
  BY <1>1, <1>2, PTL DEF Spec

(* The plan of a request changes by its own steps only. *)
LEMMA OwnPlan ==
  ASSUME TypeOK, [Next]_vars, NEW r \in Requests, job[r].at = "record", job'[r].at = "none"
  PROVE  Record(r)
<1>0. /\ job \in [Actors -> Jobs] /\ Requests \subseteq Actors /\ Events \in Actors
      /\ Events \notin Requests
  BY EventsIsNoRequest DEF TypeOK, Actors
<1>1. ASSUME NEW a \in Actors, Planning(a) PROVE Record(r)
  <2>1. CASE a = r
    BY <1>1, <2>1 DEF Planning, Build, Raise, Record
  <2>2. CASE a # r
    <3>1. job'[r] = job[r]
      BY <1>0, <1>1, <2>2 DEF Planning, Build, Raise, Record
    <3>2. QED
      BY <3>1
  <2>3. QED
    BY <2>1, <2>2
<1>2. ASSUME NEW q \in Requests, Request(q) PROVE Record(r)
  <2>1. CASE q = r
    BY <1>2, <2>1 DEF Request, Prepare, EnsureSubscription, RecordRangeActivity, RecordNothing
  <2>2. CASE q # r
    <3>1. job'[r] = job[r]
      BY <1>0, <1>2, <2>2
      DEF Request, Prepare, EnsureSubscription, RecordRangeActivity, RecordNothing
    <3>2. QED
      BY <3>1
  <2>3. QED
    BY <2>1, <2>2
<1>3. ASSUME PieceEvents \/ Cancel \/ UNCHANGED vars PROVE job'[r] = job[r]
  BY <1>0, <1>3 DEF PieceEvents, PieceCompletes, ReturnEarly, MaybeAdvanceWindow, MarkSeekRecovery,
     FindStalled, RaiseStalled, RecordRecovery, EventsEnd, Cancel, vars
<1>4. QED
  BY <1>1, <1>2, <1>3 DEF Next, Actors

(***************************************************************************)
(* When the file begins with the torrent, the window a request records is  *)
(* around the piece it asked for, whatever the others do meanwhile.        *)
(***************************************************************************)
THEOREM RequestsFindTheirPiece == FileOffset = 0 => (Spec => RequestedPieceReady)
<1> SUFFICES ASSUME FileOffset = 0 PROVE Spec => RequestedPieceReady
  OBVIOUS
<1> DEFINE Ready == \A r \in Requests :
             req[r].at = "open" /\ job[r].at = "record" /\ job'[r].at = "none" =>
               PieceOf(req[r].range) \in Playback(win')
<1>1. ASSUME TypeOK, FlowInv, [Next]_vars, NEW r \in Requests,
             req[r].at = "open", job[r].at = "record", job'[r].at = "none"
      PROVE  PieceOf(req[r].range) \in Playback(win')
  <2>1. Record(r)
    BY <1>1, OwnPlan
  <2>2. win' = job[r].plan.win
    BY <2>1 DEF Record
  <2>3. PieceOf(req[r].range) \in Playback(job[r].plan.win)
    BY <1>1 DEF FlowInv, PlansHoldRanges, HoldsRange, InHand
  <2>4. QED
    BY <2>2, <2>3
<1>2. TypeOK /\ FlowInv /\ [Next]_vars => [Ready]_vars
  BY <1>1
<1>3. QED
  BY <1>2, FlowHolds, PTL DEF Spec, RequestedPieceReady

(* Nothing but the end of a plan that seeks starts a seek recovery. *)
THEOREM OnlySeeksRecover == Spec => OnlySeeksStartRecovery
<1> DEFINE Starts == ~recovery.pending /\ recovery'.pending =>
                       \E r \in Requests : job[r].at = "record" /\ job[r].plan.isSeek
<1>1. ASSUME TypeOK, FlowInv, [Next]_vars, ~recovery.pending, recovery'.pending
      PROVE  \E r \in Requests : job[r].at = "record" /\ job[r].plan.isSeek
  <2>1. ASSUME NEW a \in Requests \cup {Events}, Planning(a)
        PROVE  \E r \in Requests : job[r].at = "record" /\ job[r].plan.isSeek
    <3>1. Record(a)
      BY <1>1, <2>1 DEF Planning, Build, Raise, fields
    <3>2. job[a].at = "record" /\ job[a].plan.isSeek
      BY <1>1, <3>1 DEF Record
    <3>3. a # Events
      BY <1>1, <3>2 DEF FlowInv, EventsNeverSeek
    <3>4. QED
      BY <3>2, <3>3
  <2>2. ASSUME NEW r \in Requests, Request(r) PROVE recovery' = recovery
    BY <2>2 DEF Request, Prepare, EnsureSubscription, RecordRangeActivity, RecordNothing, fields
  <2>3. CASE MarkSeekRecovery
    BY <1>1, <2>3 DEF MarkSeekRecovery, TypeOK
  <2>4. CASE RecordRecovery
    BY <1>1, <2>4 DEF RecordRecovery, FlowInv, RecoveryUnderWay
  <2>5. ASSUME PieceEvents \/ Cancel \/ UNCHANGED vars, ~MarkSeekRecovery, ~RecordRecovery
        PROVE  recovery' = recovery
    BY <2>5 DEF PieceEvents, PieceCompletes, ReturnEarly, MaybeAdvanceWindow, FindStalled,
       RaiseStalled, EventsEnd, Cancel, vars, fields
  <2>6. QED
    BY <1>1, <2>1, <2>2, <2>3, <2>4, <2>5 DEF Next
<1>2. TypeOK /\ FlowInv /\ [Next]_vars => [Starts]_vars
  BY <1>1
<1>3. QED
  BY <1>2, FlowHolds, PTL DEF Spec, OnlySeeksStartRecovery
-----------------------------------------------------------------------------
(***************************************************************************)
(* Overlapping plans: the priorities of the window raised last, and the    *)
(* generation, which only a plan that was overtaken takes back.            *)
(***************************************************************************)

LEMMA PlannedGeneration ==
  ASSUME TypeOK, NEW s
  PROVE  PlanFor(s).gen >= gen
<1>1. \A seek : Generation(seek) >= gen
  BY DEF Generation, Larger, TypeOK
<1>2. \E seek : PlanFor(s).gen = Generation(seek)
  BY DEF PlanFor
<1>3. QED
  BY <1>1, <1>2

(* The priorities of a window; lowest is the least its prefetch window has. *)
RaisedFor(w, lowest) ==
  /\ \A p \in Playback(w) : prio[p] >= High
  /\ \A p \in Prefetch(w) : prio[p] >= lowest

(* What applyPriorityWindowPlan leaves the pieces of the window it applies at. *)
LEMMA RaisedRaises ==
  ASSUME TypeOK, NEW plan \in Plans, InFile(plan.win), prio' = Raised(plan)
  PROVE  /\ \A p \in Playback(plan.win) : prio'[p] >= High
         /\ \A p \in Prefetch(plan.win) : prio'[p] >= Readahead
<1> DEFINE w == plan.win
<1>1. w \in Windows /\ FirstPiece \in Nat /\ EndPiece \in Nat
  BY FileBounds DEF Plans
<1>2. Playback(w) \subseteq Pieces /\ Prefetch(w) \subseteq Pieces
      /\ Playback(w) \cap Prefetch(w) = {} /\ Playback(w) \cap Retention(w) = {}
      /\ Prefetch(w) \cap Retention(w) = {}
  BY <1>1 DEF InFile, Windows, Playback, Prefetch, Retention, Span, Pieces
<1>3. ASSUME NEW p \in Playback(w) PROVE prio'[p] = High
  <2>1. p \in Pieces /\ p \notin Prefetch(w) /\ p \notin Retention(w)
    BY <1>2
  <2>2. Raised(plan)[p] = High
    BY <2>1 DEF Raised
  <2>3. QED
    BY <2>2
<1>4. ASSUME NEW p \in Prefetch(w) PROVE prio'[p] = Readahead
  <2>1. p \in Pieces /\ p \notin Playback(w) /\ p \notin Retention(w)
    BY <1>2
  <2>2. Raised(plan)[p] = Readahead
    BY <2>1 DEF Raised
  <2>3. QED
    BY <2>2
<1>5. QED
  BY <1>3, <1>4 DEF High, Readahead

(***************************************************************************)
(* A stall recovery, of whatever window, leaves the pieces of any other at *)
(* High or more, and where it finds the peers slow it lowers none.         *)
(***************************************************************************)
LEMMA StalledRaises ==
  ASSUME TypeOK, NEW slow \in BOOLEAN, RaiseStalled(slow), NEW w \in Windows,
         w = NoWindow \/ InFile(w), NEW lowest \in {High, Readahead},
         RaisedFor(w, lowest), slow \/ lowest = High
  PROVE  /\ \A p \in Playback(w) : prio'[p] >= High
         /\ \A p \in Prefetch(w) : prio'[p] >= lowest
<1>1. w = NoWindow => Playback(w) = {} /\ Prefetch(w) = {}
  BY DEF NoWindow, Playback, Prefetch, Span
<1>2. Playback(w) \subseteq Pieces /\ Prefetch(w) \subseteq Pieces
  BY <1>1, FileBounds DEF InFile, Windows, Playback, Prefetch, Span, Pieces
<1>3. \A p \in Pieces : prio'[p] \in {Now, IF slow THEN Now ELSE High, prio[p]}
  BY DEF RaiseStalled
<1>4. \A p \in Pieces : prio[p] \in Int
  BY DEF TypeOK, Priorities
<1>5. QED
  BY <1>2, <1>3, <1>4 DEF RaisedFor, High, Readahead, Now

(* An actor gets a plan, or goes on with it, without raising or recording it. *)
Prepares(a, v) ==
  /\ job' = [job EXCEPT ![a] = v]
  /\ job[a].at \notin {"raise", "record"} /\ v.at # "record"
  /\ v.at \in InHand =>
       IF job[a].at = "subscribe" THEN v.plan = job[a].plan ELSE v.plan.gen >= gen

LEMMA PlanSteps ==
  ASSUME TypeOK, [Next]_vars
  PROVE  \/ \E a \in Actors : Raise(a) \/ Record(a)
         \/ \E slow \in BOOLEAN : RaiseStalled(slow)
         \/ UNCHANGED <<gen, prio, job>>
         \/ UNCHANGED <<gen, prio>> /\ \E a \in Actors : \E v : Prepares(a, v)
<1>0. /\ job \in [Actors -> Jobs] /\ Requests \subseteq Actors /\ Events \in Actors
      /\ \A a \in Actors : job[a] \in Jobs /\ job[a].start \in Int
  BY JobChanges DEF TypeOK, Actors
<1>1. ASSUME NEW a \in Actors, Build(a)
      PROVE  UNCHANGED <<gen, prio>> /\ \E v : Prepares(a, v)
  <2> DEFINE p == PlanFor(job[a].start)
             v == [at |-> "raise", start |-> 0,
                   plan |-> [p EXCEPT !.isSeek = @ /\ a # Events]]
  <2>1. p \in Plans /\ p.gen >= gen
    BY <1>0, Planned, PlannedGeneration
  <2>2. job' = [job EXCEPT ![a] = v] /\ UNCHANGED <<gen, prio>> /\ job[a].at = "build"
    BY <1>1 DEF Build, fields
  <2> HIDE DEF p
  <2>3. v.plan.gen = p.gen /\ v.at = "raise"
    BY <2>1 DEF Plans
  <2> HIDE DEF v
  <2>4. QED
    BY <2>1, <2>2, <2>3 DEF Prepares
<1>2. ASSUME NEW r \in Requests, Request(r)
      PROVE  UNCHANGED <<gen, prio>> /\ (UNCHANGED job \/ \E v : Prepares(r, v))
  <2>1. ASSUME NEW range \in Ranges, Prepare(r, range)
        PROVE  UNCHANGED <<gen, prio>> /\ (UNCHANGED job \/ \E v : Prepares(r, v))
    <3> DEFINE v == [at |-> "subscribe", start |-> 0, plan |-> PlanFor(range)]
    <3>1. (UNCHANGED job \/ job' = [job EXCEPT ![r] = v]) /\ UNCHANGED <<gen, prio>>
          /\ job[r].at = "none"
      BY <2>1 DEF Prepare, fields
    <3>2. v.at = "subscribe" /\ v.plan.gen >= gen
      BY PlannedGeneration
    <3> HIDE DEF v
    <3>3. QED
      BY <3>1, <3>2 DEF Prepares
  <2>2. CASE EnsureSubscription(r)
    <3> DEFINE v == [job[r] EXCEPT !.at = "raise"]
    <3>1. job' = [job EXCEPT ![r] = v] /\ UNCHANGED <<gen, prio>> /\ job[r].at = "subscribe"
      BY <2>2 DEF EnsureSubscription, fields
    <3>2. v.plan = job[r].plan /\ v.at = "raise"
      BY <1>0 DEF Jobs
    <3> HIDE DEF v
    <3>3. QED
      BY <3>1, <3>2 DEF Prepares
  <2>3. ASSUME NEW speed, NEW timed, RecordRangeActivity(r, speed, timed)
        PROVE  UNCHANGED <<gen, prio>> /\ \E v : Prepares(r, v)
    <3> DEFINE v == [at |-> "build", start |-> Larger(req[r].range, 0), plan |-> NoPlan]
    <3>1. job' = [job EXCEPT ![r] = v] /\ UNCHANGED <<gen, prio>> /\ job[r].at = "none"
      BY <2>3 DEF RecordRangeActivity, fields
    <3>2. v.at = "build"
      OBVIOUS
    <3> HIDE DEF v
    <3>3. QED
      BY <3>1, <3>2 DEF Prepares, InHand
  <2>4. CASE RecordNothing(r)
    BY <2>4 DEF RecordNothing, fields
  <2>5. QED
    BY <1>2, <2>1, <2>2, <2>3, <2>4 DEF Request
<1>3. ASSUME MaybeAdvanceWindow
      PROVE  UNCHANGED <<gen, prio>> /\ \E v : Prepares(Events, v)
  <2> DEFINE v == [at |-> "build", start |-> AdvanceStart, plan |-> NoPlan]
  <2>1. job' = [job EXCEPT ![Events] = v] /\ UNCHANGED <<gen, prio>>
        /\ job[Events].at = "none"
    BY <1>3 DEF MaybeAdvanceWindow, fields
  <2>2. v.at = "build"
    OBVIOUS
  <2> HIDE DEF v
  <2>3. QED
    BY <2>1, <2>2 DEF Prepares, InHand
<1>4. ASSUME \/ \E p \in Pieces : PieceCompletes(p)
             \/ ReturnEarly \/ MarkSeekRecovery \/ FindStalled \/ RecordRecovery
             \/ EventsEnd \/ Cancel \/ UNCHANGED vars
      PROVE  UNCHANGED <<gen, prio, job>>
  BY <1>4 DEF PieceCompletes, ReturnEarly, MarkSeekRecovery, FindStalled, RecordRecovery,
              EventsEnd, Cancel, vars, fields
<1>5. QED
  BY <1>0, <1>1, <1>2, <1>3, <1>4 DEF Next, Planning, PieceEvents, Actors

(***************************************************************************)
(* Only the step that records a plan changes the generation, and whoever   *)
(* holds another plan then is overtaken; only raising and recovering       *)
(* change priorities.                                                      *)
(***************************************************************************)
LEMMA HistoryStep ==
  ASSUME TypeOK, WindowInFile, HistoryInv, [HistoryNext]_historyVars
  PROVE  /\ HistoryInv'
         /\ gen' < gen => \E a \in Actors : Records(a) /\ overtaken[a]
<1>0. /\ job \in [Actors -> Jobs]
      /\ \A a \in Actors : job[a] \in Jobs /\ job[a].plan \in Plans /\ job[a].plan.gen \in Nat
      /\ gen \in Nat
  BY JobChanges DEF TypeOK, Actors, Plans
<1> DEFINE lowest == IF raised.stalled THEN High ELSE Readahead
           Advance == \A a \in Actors :
                        job[a].at \in InHand /\ ~overtaken[a] => gen <= job[a].plan.gen
           Follow == /\ raised \in [win : Windows, stalled : BOOLEAN]
                     /\ raised.win = NoWindow \/ InFile(raised.win)
                     /\ RaisedFor(raised.win, lowest)
<1>1. HistoryInv <=> Advance /\ Follow
  BY DEF HistoryInv, PrioritiesFollowWindow, RaisedFor
<1>2. HistoryInv' <=> Advance' /\ Follow'
  BY DEF HistoryInv, PrioritiesFollowWindow, RaisedFor, Playback, Prefetch, Span
<1>3. CASE UNCHANGED historyVars
  BY <1>0, <1>3 DEF historyVars, vars, HistoryInv, PrioritiesFollowWindow, Playback, Prefetch,
                    Span, InHand
<1>4. CASE HistoryNext
  <2>1. overtaken' = [a \in Actors |->
                       /\ job'[a].at \in InHand
                       /\ overtaken[a] \/ \E b \in Actors \ {a} : Records(b)]
    BY <1>4 DEF HistoryNext
  <2>2. [Next]_vars
    BY <1>4 DEF HistoryNext
  <2>3. ASSUME ~\E a \in Actors : Raises(a)
        PROVE  raised' = [raised EXCEPT !.stalled = @ \/ RaiseStalled(FALSE)]
    BY <1>4, <2>3 DEF HistoryNext
  <2>4. ASSUME UNCHANGED prio, ~\E a \in Actors : Raises(a) PROVE Follow'
    <3>1. raised' = [raised EXCEPT !.stalled = raised.stalled \/ RaiseStalled(FALSE)]
      BY <2>3, <2>4
    <3>2. raised'.win = raised.win /\ raised' \in [win : Windows, stalled : BOOLEAN]
          /\ (raised.stalled => raised'.stalled)
      BY <1>1, <3>1
    <3>3. \A p \in Prefetch(raised.win) : p \in Pieces
      BY <1>1, FileBounds DEF InFile, NoWindow, Windows, Prefetch, Span, Pieces
    <3>4. \A p \in Pieces : prio[p] \in Int
      BY DEF TypeOK, Priorities
    <3>5. \A p \in Prefetch(raised.win) : prio[p] >= IF raised'.stalled THEN High ELSE Readahead
      BY <1>1, <3>2, <3>3, <3>4 DEF RaisedFor, High, Readahead
    <3>6. QED
      BY <1>1, <2>4, <3>2, <3>5 DEF RaisedFor, Playback, Prefetch, Span
  <2>5. CASE UNCHANGED <<gen, prio, job>>
    <3>1. \A a \in Actors : ~Raises(a) /\ ~Records(a)
      BY <2>5 DEF Raises, Records
    <3>2. Advance'
      BY <1>1, <2>1, <2>5, <3>1
    <3>3. QED
      BY <1>0, <1>2, <2>4, <2>5, <3>1, <3>2
  <2>6. ASSUME UNCHANGED <<gen, prio>>, NEW a \in Actors, NEW v, Prepares(a, v)
        PROVE  HistoryInv' /\ gen' = gen
    <3>1. job'[a] = v /\ \A b \in Actors \ {a} : job'[b] = job[b]
      BY <1>0, <2>6 DEF Prepares
    <3>2. \A b \in Actors : ~Raises(b) /\ ~Records(b)
      BY <2>6, <3>1 DEF Raises, Records, Prepares
    <3>3. ASSUME NEW b \in Actors, job'[b].at \in InHand, ~overtaken'[b]
          PROVE  gen' <= job'[b].plan.gen
      <4>1. ~overtaken[b]
        BY <2>1, <3>3
      <4>2. CASE b # a
        BY <1>1, <2>6, <3>1, <3>3, <4>1, <4>2
      <4>3. CASE b = a /\ job[a].at = "subscribe"
        BY <1>1, <2>6, <3>1, <3>3, <4>1, <4>3 DEF Prepares, InHand
      <4>4. CASE b = a /\ job[a].at # "subscribe"
        BY <1>0, <2>6, <3>1, <3>3, <4>4 DEF Prepares
      <4>5. QED
        BY <4>2, <4>3, <4>4
    <3>4. QED
      BY <1>2, <2>4, <2>6, <3>2, <3>3
  <2>7. ASSUME NEW slow \in BOOLEAN, RaiseStalled(slow) PROVE HistoryInv' /\ gen' = gen
    <3>1. UNCHANGED <<gen, job>>
      BY <2>7 DEF RaiseStalled, fields
    <3>2. \A a \in Actors : ~Raises(a) /\ ~Records(a)
      BY <3>1 DEF Raises, Records
    <3>3. Advance'
      BY <1>1, <2>1, <3>1, <3>2
    <3>4. raised' = [raised EXCEPT !.stalled = raised.stalled \/ RaiseStalled(FALSE)]
      BY <2>3, <3>2
    <3>5. raised'.win = raised.win /\ raised' \in [win : Windows, stalled : BOOLEAN]
          /\ (raised'.stalled <=> raised.stalled \/ RaiseStalled(FALSE))
      BY <1>1, <3>4
    <3> DEFINE l == IF raised'.stalled THEN High ELSE Readahead
    <3>6. l \in {High, Readahead} /\ (slow \/ l = High)
      BY <2>7, <3>5
    <3>7. RaisedFor(raised.win, l)
      <4>1. \A p \in Prefetch(raised.win) : p \in Pieces
        BY <1>1, FileBounds DEF InFile, NoWindow, Windows, Prefetch, Span, Pieces
      <4>2. \A p \in Pieces : prio[p] \in Int
        BY DEF TypeOK, Priorities
      <4>3. l <= lowest
        <5>1. CASE raised.stalled
          <6>1. raised'.stalled
            BY <3>5, <5>1
          <6>2. l = High /\ lowest = High
            BY <5>1, <6>1
          <6> HIDE DEF l, lowest
          <6>3. QED
            BY <6>2 DEF High
        <5>2. CASE ~raised.stalled
          <6>1. lowest = Readahead /\ l \in {High, Readahead}
            BY <5>2
          <6> HIDE DEF l, lowest
          <6>2. QED
            BY <6>1 DEF High, Readahead
        <5>3. QED
          BY <5>1, <5>2
      <4>4. RaisedFor(raised.win, lowest) /\ lowest \in Int /\ l \in Int
        BY <1>1 DEF High, Readahead
      <4> HIDE DEF l, lowest
      <4>5. QED
        BY <4>1, <4>2, <4>3, <4>4 DEF RaisedFor
    <3> HIDE DEF l
    <3>8. /\ \A p \in Playback(raised.win) : prio'[p] >= High
          /\ \A p \in Prefetch(raised.win) : prio'[p] >= l
      <4>1. raised.win \in Windows /\ (raised.win = NoWindow \/ InFile(raised.win))
        BY <1>1
      <4>2. QED
        BY <2>7, <3>6, <3>7, <4>1, StalledRaises
    <3>9. Follow'
      BY <1>1, <3>5, <3>8 DEF l, RaisedFor, Playback, Prefetch, Span
    <3>10. QED
      BY <1>2, <3>1, <3>3, <3>9
  <2>8. ASSUME NEW a \in Actors, Raise(a) PROVE HistoryInv' /\ gen' = gen
    <3> DEFINE v == [job[a] EXCEPT !.at = "record"]
    <3>1. job' = [job EXCEPT ![a] = v] /\ prio' = Raised(job[a].plan) /\ UNCHANGED gen
          /\ job[a].at = "raise"
      BY <2>8 DEF Raise, fields
    <3>2. v.plan = job[a].plan /\ v.at = "record"
      BY <1>0 DEF Jobs
    <3> HIDE DEF v
    <3>3. job'[a] = v /\ \A b \in Actors \ {a} : job'[b] = job[b]
      BY <1>0, <3>1
    <3>4. Raises(a) /\ \A b \in Actors : (Raises(b) => b = a) /\ ~Records(b)
      BY <3>1, <3>2, <3>3 DEF Raises, Records
    <3>5. Advance'
      BY <1>1, <2>1, <3>1, <3>2, <3>3, <3>4 DEF InHand
    <3>6. raised' = [win |-> job[a].plan.win, stalled |-> FALSE]
      BY <1>4, <3>4 DEF HistoryNext
    <3>7. job[a].plan \in Plans /\ job[a].plan.win \in Windows /\ InFile(job[a].plan.win)
      BY <1>0, <3>1 DEF WindowInFile, Actors, Plans
    <3>8. ASSUME NEW plan \in Plans, plan = job[a].plan
          PROVE  /\ \A p \in Playback(plan.win) : prio'[p] >= High
                 /\ \A p \in Prefetch(plan.win) : prio'[p] >= Readahead
      BY <3>1, <3>7, <3>8, RaisedRaises
    <3>9. Follow'
      BY <3>6, <3>7, <3>8 DEF RaisedFor, Playback, Prefetch, Span
    <3>10. QED
      BY <1>2, <3>1, <3>5, <3>9
  <2>9. ASSUME NEW a \in Actors, Record(a)
        PROVE  HistoryInv' /\ Records(a) /\ (gen' < gen => overtaken[a])
    <3>1. job' = [job EXCEPT ![a] = NoJob] /\ prio' = prio /\ gen' = job[a].plan.gen
          /\ job[a].at = "record"
      BY <2>9 DEF Record
    <3>2. job'[a].at = "none" /\ \A b \in Actors \ {a} : job'[b] = job[b]
      BY <1>0, <3>1 DEF NoJob
    <3>3. Records(a) /\ \A b \in Actors : ~Raises(b)
      BY <3>1, <3>2 DEF Records, Raises
    <3>4. Advance'
      BY <2>1, <3>2, <3>3 DEF InHand
    <3>5. ~overtaken[a] => gen <= job[a].plan.gen
      BY <1>1, <3>1 DEF InHand
    <3>6. gen' < gen => overtaken[a]
      BY <1>0, <3>1, <3>5
    <3>7. QED
      BY <1>2, <2>4, <3>1, <3>3, <3>4, <3>6
  <2>10. QED
    BY <1>0, <2>2, <2>5, <2>6, <2>7, <2>8, <2>9, PlanSteps
<1>5. QED
  BY <1>3, <1>4

LEMMA HistoryHolds == HistorySpec => [](TypeOK /\ WindowInFile /\ HistoryInv)
<1>1. HistoryInit => TypeOK /\ WindowInFile /\ HistoryInv
  <2>1. Init => WindowInFile
    BY DEF Init, WindowInFile, NoJob, Waiting, None
  <2>2. HistoryInit => HistoryInv
    BY NoJobType DEF HistoryInit, Init, HistoryInv, NothingRaised, PrioritiesFollowWindow,
       NoWindow, Playback, Prefetch, Span, NoJob, InHand, Actors
  <2>3. QED
    BY <2>1, <2>2, TypeInit DEF HistoryInit
<1>2. [HistoryNext]_historyVars => [Next]_vars
  BY DEF HistoryNext, historyVars
<1>3. TypeOK /\ WindowInFile /\ HistoryInv /\ [HistoryNext]_historyVars =>
        TypeOK' /\ WindowInFile' /\ HistoryInv'
  BY <1>2, TypeStep, WindowStep, HistoryStep
<1>4. QED
  BY <1>1, <1>3, PTL DEF HistorySpec

(***************************************************************************)
(* Whatever plans, events and recoveries overlap: the pieces of the window *)
(* raised last keep at least High, and those of its prefetch window keep   *)
(* Readahead until a stall recovery takes them down.                       *)
(***************************************************************************)
THEOREM PrioritiesAreRaised == HistorySpec => []PrioritiesFollowWindow
<1>1. HistoryInv => PrioritiesFollowWindow
  BY DEF HistoryInv
<1>2. QED
  BY <1>1, HistoryHolds, PTL

(***************************************************************************)
(* With any number of requests: the generation goes back only when a plan  *)
(* is recorded that another one was recorded after its building, so that   *)
(* a lock held from the building to the record would keep it growing.      *)
(***************************************************************************)
THEOREM OnlyOvertakenPlansTurnBack == HistorySpec => OnlyOvertakenTurnBack
<1>1. TypeOK /\ WindowInFile /\ HistoryInv /\ [HistoryNext]_historyVars =>
        [gen' < gen => \E a \in Actors : Records(a) /\ overtaken[a]]_historyVars
  BY HistoryStep
<1>2. QED
  BY <1>1, HistoryHolds, PTL DEF HistorySpec, OnlyOvertakenTurnBack

=============================================================================
