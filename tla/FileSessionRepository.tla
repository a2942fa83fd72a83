------------------------- MODULE FileSessionRepository -------------------------
(***************************************************************************)
(* internal/repository/impl/file_session_repository.go: the session map,   *)
(* its dirty flag, the background flush loop, Close, and the file that     *)
(* survives the process.                                                   *)
(*                                                                         *)
(* Every method runs under one mutex.  A method that only touches memory   *)
(* is one action; a method that reaches persistLocked holds the mutex over *)
(* several steps, because os.WriteFile first truncates the file and then   *)
(* writes it, and the process may die or the disk may refuse in between.   *)
(***************************************************************************)
CONSTANTS Ids, Values, Absent

ASSUME AbsentNotValue == Absent \notin Values

VARIABLES
  sessions,   \* the map in memory
  dirty,      \* memory holds changes the file does not
  closed,     \* Close was called: stopCh is closed
  signal,     \* the buffered flushSignal channel (capacity 1) is full
  file,       \* "blank" (missing or empty), "intact" or "torn"
  saved,      \* the sessions in the file, when it is intact
  writer,     \* who is inside persistLocked, holding the mutex
  stage,      \* where the writer is: before or after the truncation
  undo,       \* sessions and dirty to restore when the write fails
  loop,       \* program counter of flushLoop
  closer,     \* the caller of Close
  proc        \* the process: "up", "down", or "failed" to start

vars == <<sessions, dirty, closed, signal, file, saved, writer, stage, undo,
          loop, closer, proc>>

Contents == [Ids -> Values \cup {Absent}]
NoSessions == [id \in Ids |-> Absent]
Clean == [sessions |-> NoSessions, dirty |-> FALSE]

TypeOK ==
  /\ sessions \in Contents
  /\ dirty \in BOOLEAN
  /\ closed \in BOOLEAN
  /\ signal \in BOOLEAN
  /\ file \in {"blank", "intact", "torn"}
  /\ saved \in Contents
  /\ writer \in {"none", "caller", "loop"}
  /\ stage \in {"open", "write"}
  /\ undo \in [sessions : Contents, dirty : BOOLEAN]
  /\ loop \in {"select", "flush", "lastFlush", "done"}
  /\ closer \in {"idle", "waiting", "returned"}
  /\ proc \in {"up", "down", "failed"}

(***************************************************************************)
(* A fresh process: nothing dirty, nobody writing, the loop at its select. *)
(***************************************************************************)
FreshProcess ==
  /\ dirty' = FALSE
  /\ closed' = FALSE
  /\ signal' = FALSE
  /\ writer' = "none"
  /\ stage' = "open"
  /\ undo' = Clean
  /\ loop' = "select"
  /\ closer' = "idle"

Init ==
  /\ sessions = NoSessions
  /\ dirty = FALSE
  /\ closed = FALSE
  /\ signal = FALSE
  /\ file = "blank"
  /\ saved = NoSessions
  /\ writer = "none"
  /\ stage = "open"
  /\ undo = Clean
  /\ loop = "select"
  /\ closer = "idle"
  /\ proc = "up"

(* Mutant: Close waits for the loop without releasing the mutex. *)
MutexFreeUnlessClosing == proc = "up" /\ writer = "none" /\ closer # "waiting"

MutexFree == proc = "up" /\ writer = "none"

(***************************************************************************)
(* Entering persistLocked: the mutex stays held until the write ends.      *)
(***************************************************************************)
BeginPersist(who) ==
  /\ writer' = who
  /\ stage' = "open"
  /\ undo' = [sessions |-> sessions, dirty |-> dirty]

Save(id, v) ==
  /\ MutexFree
  /\ sessions' = [sessions EXCEPT ![id] = v]
  /\ dirty' = TRUE
  /\ BeginPersist("caller")
  /\ UNCHANGED <<closed, signal, file, saved, loop, closer, proc>>

(* Mutant: the deleted key leaves the map's domain. *)
DeleteByIDShrinks(id) ==
  /\ MutexFree
  /\ sessions[id] # Absent
  /\ sessions' = [i \in Ids \ {id} |-> sessions[i]]
  /\ dirty' = TRUE
  /\ BeginPersist("caller")
  /\ UNCHANGED <<closed, signal, file, saved, loop, closer, proc>>

DeleteByID(id) ==
  /\ MutexFree
  /\ sessions[id] # Absent
  /\ sessions' = [sessions EXCEPT ![id] = Absent]
  /\ dirty' = TRUE
  /\ BeginPersist("caller")
  /\ UNCHANGED <<closed, signal, file, saved, loop, closer, proc>>

(* Flush on a clean repository writes nothing. *)
Flush ==
  /\ MutexFree
  /\ dirty
  /\ BeginPersist("caller")
  /\ UNCHANGED <<sessions, dirty, closed, signal, file, saved, loop, closer, proc>>

(***************************************************************************)
(* updateLocked: an absent session is an error, an update that changes     *)
(* nothing leaves no trace, any other one is dirty memory.                 *)
(***************************************************************************)
Updated(id, v) ==
  /\ MutexFree
  /\ sessions[id] \notin {Absent, v}
  /\ sessions' = [sessions EXCEPT ![id] = v]
  /\ dirty' = TRUE
  /\ UNCHANGED <<closed, file, saved, writer, stage, undo, loop, closer, proc>>

(* A send that never blocks: the channel is full now, if it was not before. *)
RequestFlush == signal' = TRUE

UpdateByID(id, v) == Updated(id, v) /\ RequestFlush

UpdateByIDTransient(id, v) == Updated(id, v) /\ UNCHANGED signal

(***************************************************************************)
(* persistLocked.  It can fail before the file is touched (directory,      *)
(* encoding, open), leaving the file as it was; or after the truncation,   *)
(* leaving nothing or a proper prefix of the JSON array.                   *)
(***************************************************************************)
Truncate ==
  /\ writer # "none"
  /\ stage = "open"
  /\ stage' = "write"
  /\ file' = "blank"
  /\ saved' = NoSessions
  /\ UNCHANGED <<sessions, dirty, closed, signal, writer, undo, loop, closer, proc>>

(* The mutex is released; the loop leaves for good after its last flush. *)
EndPersist ==
  /\ writer' = "none"
  /\ stage' = "open"
  /\ undo' = Clean
  /\ loop' = CASE writer = "caller"                       -> loop
               [] writer = "loop" /\ loop = "lastFlush"   -> "done"
               [] OTHER                                   -> "select"
  /\ UNCHANGED <<closed, signal, closer, proc>>

WriteDone ==
  /\ stage = "write"
  /\ file' = "intact"
  /\ saved' = sessions
  /\ dirty' = FALSE
  /\ EndPersist
  /\ UNCHANGED sessions

(* Mutant: a failed write puts back the flag and forgets the map. *)
RollbackFlagOnly ==
  /\ dirty' = undo.dirty
  /\ UNCHANGED sessions

(* Mutant: a failed write clears the flag whatever it was before the call. *)
RollbackForgetsDirty ==
  /\ sessions' = undo.sessions
  /\ dirty' = FALSE

(* Save and DeleteByID restore the map and the flag; for a flush both are *)
(* what they were.                                                        *)
Rollback ==
  /\ sessions' = undo.sessions
  /\ dirty' = undo.dirty

OpenFails ==
  /\ writer # "none"
  /\ stage = "open"
  /\ Rollback
  /\ EndPersist
  /\ UNCHANGED <<file, saved>>

WriteFails ==
  /\ stage = "write"
  /\ file' \in {"blank", "torn"}
  /\ Rollback
  /\ EndPersist
  /\ UNCHANGED saved

(***************************************************************************)
(* flushLoop: the goroutine leaves its select (consuming the signal when   *)
(* that is the branch taken) BEFORE it takes the mutex.                    *)
(***************************************************************************)
LeaveSelect(next) ==
  /\ proc = "up"
  /\ loop = "select"
  /\ loop' = next
  /\ UNCHANGED <<sessions, dirty, closed, file, saved, writer, stage, undo, closer, proc>>

(* Mutant: no ticker, the loop is only woken by a flush request. *)
TickNever == signal /\ LeaveSelect("flush") /\ UNCHANGED signal

Tick == LeaveSelect("flush") /\ UNCHANGED signal

FlushSignalled == signal /\ LeaveSelect("flush") /\ signal' = FALSE

StopRequested == closed /\ LeaveSelect("lastFlush") /\ UNCHANGED signal

(* flushIfDirtyAsync, with and without something to write. *)
LoopFlush ==
  /\ MutexFree
  /\ loop \in {"flush", "lastFlush"}
  /\ dirty
  /\ BeginPersist("loop")
  /\ UNCHANGED <<sessions, dirty, closed, signal, file, saved, loop, closer, proc>>

LoopNothingToFlush ==
  /\ MutexFree
  /\ loop \in {"flush", "lastFlush"}
  /\ ~dirty
  /\ loop' = IF loop = "lastFlush" THEN "done" ELSE "select"
  /\ UNCHANGED <<sessions, dirty, closed, signal, file, saved, writer, stage, undo,
                 closer, proc>>

(***************************************************************************)
(* Close: flag and stop channel under the mutex, then a wait without it.   *)
(* A second Close returns at once and changes nothing.                     *)
(***************************************************************************)
Close ==
  /\ MutexFree
  /\ ~closed
  /\ closed' = TRUE
  /\ closer' = "waiting"
  /\ UNCHANGED <<sessions, dirty, signal, file, saved, writer, stage, undo, loop, proc>>

CloseReturns ==
  /\ proc = "up"
  /\ closer = "waiting"
  /\ loop = "done"
  /\ closer' = "returned"
  /\ UNCHANGED <<sessions, dirty, closed, signal, file, saved, writer, stage, undo,
                 loop, proc>>

(***************************************************************************)
(* The process dies: by a crash at any step, or in good order once Close   *)
(* has returned to Shutdown.  Memory is gone, the file stays.              *)
(***************************************************************************)
Die ==
  /\ proc = "up"
  /\ proc' = "down"
  /\ sessions' = NoSessions
  /\ FreshProcess
  /\ UNCHANGED <<file, saved>>

Crash == closer # "returned" /\ Die

Exit == closer = "returned" /\ Die

(***************************************************************************)
(* NewFileSessionRepository: load, then the loop.  A missing or an empty   *)
(* file is an empty map; a torn one is an error and the program panics.    *)
(***************************************************************************)
Load ==
  /\ proc # "up"
  /\ file # "torn"
  /\ proc' = "up"
  /\ sessions' = IF file = "blank" THEN NoSessions ELSE saved
  /\ FreshProcess
  /\ UNCHANGED <<file, saved>>

(* The file cannot be parsed, or not even read. *)
LoadFails ==
  /\ proc # "up"
  /\ proc' = "failed"
  /\ UNCHANGED <<sessions, dirty, closed, signal, file, saved, writer, stage, undo,
                 loop, closer>>

Persist == Truncate \/ WriteDone \/ OpenFails \/ WriteFails

FlushLoop == Tick \/ FlushSignalled \/ StopRequested \/ LoopFlush \/ LoopNothingToFlush

Next ==
  \/ \E id \in Ids, v \in Values : Save(id, v)
  \/ \E id \in Ids : DeleteByID(id)
  \/ \E id \in Ids, v \in Values : UpdateByID(id, v)
  \/ \E id \in Ids, v \in Values : UpdateByIDTransient(id, v)
  \/ Flush
  \/ Persist
  \/ FlushLoop
  \/ Close
  \/ CloseReturns
  \/ Crash
  \/ Exit
  \/ Load
  \/ LoadFails

Spec == Init /\ [][Next]_vars

(***************************************************************************)
(* Fairness.  The ticker fires again and again; Go's select picks among    *)
(* the ready branches at random, so stopCh is not passed over for ever;    *)
(* sync.RWMutex does not starve a waiter, so the loop gets the mutex; a    *)
(* write that was begun ends.  The disk is assumed not to refuse every     *)
(* write for ever (strong fairness of Truncate and WriteDone).             *)
(***************************************************************************)
Fairness ==
  /\ WF_vars(Tick)
  /\ SF_vars(StopRequested)
  /\ SF_vars(LoopFlush \/ LoopNothingToFlush)
  /\ WF_vars(Persist)
  /\ SF_vars(Truncate)
  /\ SF_vars(WriteDone)
  /\ WF_vars(CloseReturns)

FairSpec == Spec /\ Fairness

-----------------------------------------------------------------------------
(***************************************************************************)
(* The dirty flag is the only thing that triggers a flush, so it must not  *)
(* be down while memory is ahead of an intact file: not after an update,   *)
(* not after a failed Save or DeleteByID has put map and flag back         *)
(* (lines 54-61, 110-114), not after a restart.                            *)
(***************************************************************************)
CleanMeansOnDisk ==
  MutexFree /\ ~dirty /\ file = "intact" => saved = sessions

(***************************************************************************)
(* Write-behind: an update that only dirtied memory (lines 231-235) is     *)
(* written by somebody, unless the process dies first or the loop has      *)
(* already made its last flush; no request is lost because the signal      *)
(* channel was full or the loop was between select and mutex.              *)
(***************************************************************************)
EveryUpdateReachesDisk ==
  (proc = "up" /\ dirty) ~> (~dirty \/ proc # "up" \/ loop = "done")

(***************************************************************************)
(* Close (lines 124-135) waits for the loop, and the loop needs the mutex  *)
(* Close has taken and released: the wait ends.                            *)
(***************************************************************************)
CloseEnds == (closer = "waiting") ~> (closer # "waiting")

(***************************************************************************)
(* What a process started now would load.                                  *)
(***************************************************************************)
Recovered == IF file = "intact" THEN saved ELSE NoSessions

(***************************************************************************)
(* Refinement: a reader waits for the mutex, so until a write has ended    *)
(* the store still shows what it showed before the call.                   *)
(***************************************************************************)
Visible == IF writer = "none" THEN sessions ELSE undo.sessions

Store == INSTANCE SessionStore
           WITH content <- Visible, durable <- Recovered, readable <- (file # "torn")

(* Every method, complete or failed half way, is one the interface allows. *)
Implements == Store!Spec

(***************************************************************************)
(* The inductive invariant behind CleanMeansOnDisk and Implements: a write *)
(* in progress belongs to a live process and is about dirty memory, only a *)
(* loop that left its select writes as the loop, what the write would put  *)
(* back is what an untouched file holds, and the change it carries is that *)
(* of one session at most (lines 50-53, 106-109, 198-216).                 *)
(***************************************************************************)
OneChange ==
  \/ sessions = undo.sessions
  \/ \E id \in Ids, v \in Values \cup {Absent} :
       sessions = [undo.sessions EXCEPT ![id] = v]

WriterInv ==
  writer # "none" =>
    /\ proc = "up"
    /\ dirty
    /\ writer = "loop" => loop \in {"flush", "lastFlush"}
    /\ ~undo.dirty /\ file = "intact" => undo.sessions = saved
    /\ OneChange

Inv ==
  /\ CleanMeansOnDisk
  /\ WriterInv
  /\ stage = "write" => writer # "none" /\ file = "blank"

(***************************************************************************)
(* "session recovery does not regress" (roadmap): when nothing is dirty,   *)
(* and so nothing will ever be written by itself, a restart finds the      *)
(* sessions the program is showing.                                        *)
(***************************************************************************)
CleanMeansRecoverable ==
  MutexFree /\ ~dirty => file # "torn" /\ Recovered = sessions
=============================================================================
