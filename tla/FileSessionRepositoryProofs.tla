---------------------- MODULE FileSessionRepositoryProofs ----------------------
(***************************************************************************)
(* What holds of FileSessionRepository for every set of sessions and every *)
(* set of records.                                                         *)
(***************************************************************************)
EXTENDS FileSessionRepository, TLAPS

Undos == [sessions : Contents, dirty : BOOLEAN]

(* The empty map is a content, and so is a map with one entry replaced. *)
LEMMA ContentsFacts ==
  /\ NoSessions \in Contents
  /\ Clean \in Undos
  /\ \A s \in Contents, d \in BOOLEAN : [sessions |-> s, dirty |-> d] \in Undos
  /\ \A u \in Undos : u.sessions \in Contents /\ u.dirty \in BOOLEAN
  /\ \A s \in Contents, id \in Ids, v \in Values \cup {Absent} :
       [s EXCEPT ![id] = v] \in Contents
  BY DEF Contents, NoSessions, Clean, Undos

(***************************************************************************)
(* The values of the variables keep their types: the next-state relation   *)
(* never leaves the state space the module describes.                      *)
(***************************************************************************)
LEMMA TypeStep == ASSUME TypeOK, [Next]_vars PROVE TypeOK'
<1> USE ContentsFacts DEF TypeOK, Undos
<1>1. ASSUME NEW id \in Ids, NEW v \in Values, Save(id, v) PROVE TypeOK'
  BY <1>1 DEF Save, MutexFree, BeginPersist
<1>2. ASSUME NEW id \in Ids, DeleteByID(id) PROVE TypeOK'
  BY <1>2 DEF DeleteByID, MutexFree, BeginPersist
<1>3. ASSUME NEW id \in Ids, NEW v \in Values, UpdateByID(id, v) PROVE TypeOK'
  BY <1>3 DEF UpdateByID, RequestFlush, Updated, MutexFree
<1>4. ASSUME NEW id \in Ids, NEW v \in Values, UpdateByIDTransient(id, v) PROVE TypeOK'
  BY <1>4 DEF UpdateByIDTransient, Updated, MutexFree
<1>5. CASE Flush
  BY <1>5 DEF Flush, MutexFree, BeginPersist
<1>6. CASE Truncate
  BY <1>6 DEF Truncate
<1>7. CASE WriteDone
  BY <1>7 DEF WriteDone, EndPersist
<1>8. CASE OpenFails
  BY <1>8 DEF OpenFails, Rollback, EndPersist
<1>9. CASE WriteFails
  BY <1>9 DEF WriteFails, Rollback, EndPersist
<1>10. CASE FlushLoop
  <2>1. CASE Tick \/ FlushSignalled \/ StopRequested
    BY <2>1 DEF Tick, FlushSignalled, StopRequested, LeaveSelect
  <2>2. CASE LoopFlush \/ LoopNothingToFlush
    BY <2>2 DEF LoopFlush, LoopNothingToFlush, BeginPersist
  <2>3. QED
    BY <1>10, <2>1, <2>2 DEF FlushLoop
<1>11. CASE Close \/ CloseReturns
  BY <1>11 DEF Close, CloseReturns, MutexFree
<1>12. CASE Crash \/ Exit
  BY <1>12 DEF Crash, Exit, Die, FreshProcess
<1>13. CASE Load \/ LoadFails
  BY <1>13 DEF Load, LoadFails, FreshProcess
<1>14. CASE UNCHANGED vars
  BY <1>14 DEF vars
<1>15. QED
  BY <1>1, <1>2, <1>3, <1>4, <1>5, <1>6, <1>7, <1>8, <1>9, <1>10, <1>11, <1>12,
     <1>13, <1>14 DEF Next, Persist

(* Type correctness of the repository and its file. *)
THEOREM TypeCorrect == Spec => []TypeOK
<1>1. Init => TypeOK
  BY ContentsFacts DEF Init, TypeOK, Undos
<1>2. QED
  BY <1>1, TypeStep, PTL DEF Spec

-----------------------------------------------------------------------------
(***************************************************************************)
(* Inv is inductive.  Three kinds of step matter: entering persistLocked   *)
(* (undo records a state in which CleanMeansOnDisk held), the steps inside *)
(* it, and leaving it by success or by a rollback.                         *)
(***************************************************************************)
LEMMA InvStep == ASSUME TypeOK, Inv, [Next]_vars PROVE Inv'
<1> USE DEF TypeOK, Inv, CleanMeansOnDisk, WriterInv, OneChange, MutexFree
<1>1. ASSUME NEW id \in Ids, NEW v \in Values, Save(id, v) PROVE Inv'
  BY <1>1 DEF Save, BeginPersist
<1>2. ASSUME NEW id \in Ids, DeleteByID(id) PROVE Inv'
  BY <1>2 DEF DeleteByID, BeginPersist
<1>3. ASSUME NEW id \in Ids, NEW v \in Values, Updated(id, v) PROVE Inv'
  BY <1>3 DEF Updated
<1>4. CASE Flush
  BY <1>4 DEF Flush, BeginPersist
<1>5. CASE Truncate
  BY <1>5 DEF Truncate
<1>6. CASE WriteDone
  BY <1>6 DEF WriteDone, EndPersist
<1>7. CASE OpenFails
  BY <1>7 DEF OpenFails, Rollback, EndPersist
<1>8. CASE WriteFails
  BY <1>8 DEF WriteFails, Rollback, EndPersist
<1>9. CASE Tick \/ FlushSignalled \/ StopRequested
  BY <1>9 DEF Tick, FlushSignalled, StopRequested, LeaveSelect
<1>10. CASE LoopFlush
  BY <1>10 DEF LoopFlush, BeginPersist
<1>11. CASE LoopNothingToFlush
  BY <1>11 DEF LoopNothingToFlush
<1>12. CASE Close \/ CloseReturns
  BY <1>12 DEF Close, CloseReturns
<1>13. CASE Crash \/ Exit
  BY <1>13 DEF Crash, Exit, Die, FreshProcess
<1>14. CASE Load
  BY <1>14 DEF Load, FreshProcess
<1>15. CASE LoadFails
  BY <1>15 DEF LoadFails
<1>16. CASE UNCHANGED vars
  BY <1>16 DEF vars
<1>17. QED
  BY <1>1, <1>2, <1>3, <1>4, <1>5, <1>6, <1>7, <1>8, <1>9, <1>10, <1>11, <1>12,
     <1>13, <1>14, <1>15, <1>16
  DEF Next, Persist, FlushLoop, UpdateByID, UpdateByIDTransient

(* The inductive invariant holds in every reachable state. *)
THEOREM Invariant == Spec => []Inv
<1>1. Init => Inv
  BY DEF Init, Inv, CleanMeansOnDisk, WriterInv, OneChange, MutexFree
<1>2. QED
  BY <1>1, InvStep, TypeCorrect, PTL DEF Spec

(***************************************************************************)
(* Memory is never ahead of an intact file with the dirty flag down, so    *)
(* every change the file lacks is one the flush loop will look at.         *)
(***************************************************************************)
THEOREM CleanOnDisk == Spec => []CleanMeansOnDisk
<1>1. Inv => CleanMeansOnDisk
  BY DEF Inv
<1>2. QED
  BY <1>1, Invariant, PTL

-----------------------------------------------------------------------------
(***************************************************************************)
(* Refinement, step by step: persistLocked takes effect in the interface   *)
(* when it ends well, the truncation and a failed write only damage what   *)
(* is durable, everything else shows at once or not at all.                *)
(***************************************************************************)
LEMMA StoreStep ==
  ASSUME TypeOK, Inv, [Next]_vars PROVE [Store!Next]_(Store!vars)
<1> USE DEF Visible, Recovered, Store!vars
<1>1. ASSUME NEW id \in Ids, NEW v \in Values, Save(id, v) PROVE UNCHANGED Store!vars
  BY <1>1 DEF Save, BeginPersist, MutexFree
<1>2. ASSUME NEW id \in Ids, DeleteByID(id) PROVE UNCHANGED Store!vars
  BY <1>2 DEF DeleteByID, BeginPersist, MutexFree
<1>3. CASE Flush \/ LoopFlush
  BY <1>3 DEF Flush, LoopFlush, BeginPersist, MutexFree
<1>4. ASSUME NEW id \in Ids, NEW v \in Values, Updated(id, v) PROVE Store!Update(id, v)
  BY <1>4 DEF Updated, MutexFree, Store!Update
<1>5. CASE Truncate
  BY <1>5 DEF Truncate, Inv, WriterInv, Store!Next, Store!Damage, NoSessions,
                Store!NoSessions
<1>6. CASE WriteDone
  <2>1. Visible' = sessions /\ Recovered' = sessions /\ (file # "torn")' /\ proc' = proc
    BY <1>6 DEF WriteDone, EndPersist
  <2>2. writer # "none" /\ proc = "up" /\ OneChange
    BY <1>6 DEF WriteDone, Inv, WriterInv
  <2>3. CASE sessions = undo.sessions
    BY <2>1, <2>2, <2>3 DEF Store!Sync, Store!Next
  <2>4. CASE \E id \in Ids, v \in Values \cup {Absent} :
               sessions = [undo.sessions EXCEPT ![id] = v]
    BY <2>1, <2>2, <2>4 DEF Store!Write, Store!Next
  <2>5. QED
    BY <2>2, <2>3, <2>4 DEF OneChange
<1>7. CASE OpenFails
  BY <1>7 DEF OpenFails, Rollback, EndPersist
<1>8. CASE WriteFails
  BY <1>8 DEF WriteFails, Rollback, EndPersist, Inv, WriterInv, Store!Next, Store!Damage,
              NoSessions, Store!NoSessions
<1>9. CASE Tick \/ FlushSignalled \/ StopRequested
  BY <1>9 DEF Tick, FlushSignalled, StopRequested, LeaveSelect
<1>10. CASE LoopNothingToFlush \/ Close \/ CloseReturns
  BY <1>10 DEF LoopNothingToFlush, Close, CloseReturns
<1>11. CASE Crash \/ Exit
  BY <1>11 DEF Crash, Exit, Die, FreshProcess, Store!Next, Store!Stop, NoSessions,
               Store!NoSessions
<1>12. CASE Load
  BY <1>12 DEF Load, FreshProcess, TypeOK, Store!Next, Store!Start
<1>13. CASE LoadFails
  BY <1>13 DEF LoadFails, Store!Next, Store!StartFails
<1>14. CASE UNCHANGED vars
  BY <1>14 DEF vars
<1>15. QED
  BY <1>1, <1>2, <1>3, <1>4, <1>5, <1>6, <1>7, <1>8, <1>9, <1>10, <1>11, <1>12,
     <1>13, <1>14
  DEF Next, Persist, FlushLoop, UpdateByID, UpdateByIDTransient, Store!Next

(***************************************************************************)
(* The file-backed repository implements the SessionRepository interface:  *)
(* whatever fails or crashes, callers and restarts see only what           *)
(* SessionStore allows.                                                    *)
(***************************************************************************)
THEOREM Refinement == Spec => Implements
<1>1. Init => Store!Init
  BY DEF Init, Store!Init, Visible, Recovered, NoSessions, Store!NoSessions
<1>2. QED
  BY <1>1, StoreStep, TypeCorrect, Invariant, PTL DEF Spec, Implements, Store!Spec
=============================================================================
