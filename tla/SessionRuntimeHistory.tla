------------------------- MODULE SessionRuntimeHistory -------------------------
(***************************************************************************)
(* SessionRuntime with a note of whether what makes runtimes leak has      *)
(* happened yet.  No guard reads it.                                       *)
(***************************************************************************)
EXTENDS SessionRuntime

VARIABLE disturbed   \* history: see Disturbs

historyVars == <<vars, disturbed>>

(***************************************************************************)
(* A call begins before another call or a bootstrap has ended, or the new  *)
(* session could not be saved.                                             *)
(***************************************************************************)
Disturbs ==
  \/ ~NothingPending /\ \E c \in Callers : NewCall(c)
  \/ ~created /\ created' /\ ~present'

HistoryInit == Init /\ disturbed = FALSE

HistoryNext == Next /\ disturbed' = (disturbed \/ Disturbs)

HistorySpec == HistoryInit /\ [][HistoryNext]_historyVars

(***************************************************************************)
(* The other half of the leak's diagnosis: as long as calls wait for each  *)
(* other and for bootstraps, and sessions are saved, every runtime left    *)
(* running can be reached, through any number of resumes, stops, deletes,  *)
(* failed bootstraps and restarts (lines 216-265, 716-778).                *)
(***************************************************************************)
NoLeakUndisturbed == ~disturbed => NoLeak

-----------------------------------------------------------------------------
(***************************************************************************)
(* What makes NoLeakUndisturbed inductive.  While nothing has disturbed    *)
(* the session, one call or one bootstrap is in progress at a time         *)
(* (OneAtATime); the runtimes whose goroutines are alive are in the map,   *)
(* of a session that is in the repository (LiveIsRegistered); a bootstrap  *)
(* only begins when the map is empty (SpawnedIntoEmptyMap); and past       *)
(* Unregister a call finds the map empty (StopsEmptyMap).                  *)
(***************************************************************************)
Bootstrapping(r) == rt[r].life \in {"spawned", "registered"}

Live(r) == rt[r].life \in {"registered", "running"} /\ ~rt[r].cancelled

OneAtATime ==
  /\ \A q, r \in Runtimes : Bootstrapping(q) /\ Bootstrapping(r) => q = r
  /\ \A c, d \in Callers : call[c].at # "idle" /\ call[d].at # "idle" => c = d
  /\ \A r \in Runtimes, c \in Callers : Bootstrapping(r) => call[c].at = "idle"

LiveIsRegistered == \A r \in Runtimes : Live(r) => reg = r /\ present

SpawnedIntoEmptyMap ==
  \A r \in Runtimes : rt[r].life = "spawned" => reg = NoRuntime /\ present

StopsEmptyMap ==
  \A c \in Callers :
    /\ call[c].at = "unregister" => \A r \in Runtimes : ~Live(r)
    /\ call[c].at \in {"stopping", "deleting"} => reg = NoRuntime

NothingYet ==
  ~created =>
    /\ ~present /\ reg = NoRuntime
    /\ \A r \in Runtimes : rt[r].life = "free"
    /\ \A c \in Callers : call[c].at = "idle"

UndisturbedInv ==
  ~disturbed =>
    OneAtATime /\ LiveIsRegistered /\ SpawnedIntoEmptyMap /\ StopsEmptyMap /\ NothingYet
=============================================================================
