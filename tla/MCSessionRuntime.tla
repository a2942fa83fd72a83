---------------------------- MODULE MCSessionRuntime ----------------------------
(***************************************************************************)
(* Instances of SessionRuntime with its history for TLC.  What a question  *)
(* needs many of differs from question to question, so a behaviour belongs *)
(* to one of several parts, each with bounds of its own:                   *)
(*                                                                         *)
(*   "map"        calls without number that overlap each other, no         *)
(*                streams;                                                 *)
(*   "record"     an old and a new runtime, and a stream counted on one of *)
(*                them: one call at a time, MaxCalls of them, one request; *)
(*   "streams"    one runtime and two requests, no calls;                  *)
(*   "cancelled"  one runtime, MaxCalls calls, one request;                *)
(*   "resumed"    an old and a new runtime, MaxCalls calls, no streams.    *)
(*                                                                         *)
(* What the goroutines, the calls and the requests already made do is not  *)
(* bounded in any of them.                                                 *)
(***************************************************************************)
EXTENDS SessionRuntimeHistory, TLC

CONSTANTS Parts,     \* which of them an instance has
          MaxCalls   \* bound: API calls and restarts of the process

VARIABLES part,
          calls, requests   \* how many of each there have been, where bounded

mcVars == <<historyVars, part, calls, requests>>

CallsOf == CASE part = "streams" -> 0 [] OTHER -> MaxCalls
RequestsOf ==
  CASE part = "streams" -> 2 [] part \in {"record", "cancelled"} -> 1 [] OTHER -> 0

Called == (\E c \in Callers : NewCall(c)) \/ (\E r \in Runtimes : Restart(r))

Requested == \E s \in Streams : stream[s].at = "idle" /\ stream'[s].at # "idle"

OneCall == \A c, d \in Callers : call'[c].at # "idle" /\ call'[d].at # "idle" => c = d

(***************************************************************************)
(* Where symmetry is not declared: when all runtimes are free, or all      *)
(* streams idle, the one that is taken is always the same.                 *)
(***************************************************************************)
First(objects) == CHOOSE o \in objects : TRUE

StartsWithFirst ==
  /\ (\A r \in Runtimes : rt[r].life = "free") \/ (\E r \in Runtimes : Restart(r))
       => \A r \in Runtimes \ {First(Runtimes)} : rt'[r].life = "free"
  /\ (\A s \in Streams : stream[s].at = "idle")
       => \A s \in Streams \ {First(Streams)} : stream'[s].at = "idle"

(* Only the behaviours of "map" are asked what disturbs them. *)
MCInit ==
  /\ Init
  /\ part \in Parts
  /\ calls = 0 /\ requests = 0
  /\ disturbed = (part # "map")

MCNext ==
  /\ HistoryNext
  /\ UNCHANGED part
  /\ calls' = IF part # "map" /\ Called THEN calls + 1 ELSE calls
  /\ requests' = requests + IF Requested THEN 1 ELSE 0
  /\ calls' <= CallsOf
  /\ requests' <= RequestsOf
  /\ part # "map" => OneCall
  /\ part \in {"streams", "cancelled", "resumed"} => StartsWithFirst
  /\ part \in {"streams", "cancelled"} =>
       \A r \in Runtimes \ {First(Runtimes)} : rt'[r].life = "free"

MCSpec == MCInit /\ [][MCNext]_mcVars

MCFairSpec == MCSpec /\ Fairness

(* Runtimes, callers and streams are interchangeable. *)
Interchangeable ==
  Permutations(Runtimes) \cup Permutations(Callers) \cup Permutations(Streams)

(***************************************************************************)
(* What the invariants can tell apart.  In "map" the state without the     *)
(* record and without what was captured to write it: no guard reads        *)
(* either.  In the other parts without the flag of a runtime that is out   *)
(* of the map and the record of a deleted session, which nobody reads any  *)
(* more; with no more of the record than whether a state is the error's or *)
(* metadata's (RecordCoherent); and so without the counts and flags that   *)
(* are captured to write the rest of it.                                   *)
(***************************************************************************)
RecordRead ==
  IF present
  THEN <<rec.err, IF rec.meta \in {"ready", "error"} THEN rec.meta ELSE "waiting",
         rec.dl = "error", rec.stream = "error",
         IF rec.status \in {"waiting", "error"} THEN rec.status ELSE "settled">>
  ELSE <<>>

RuntimeRead(r) == IF reg = r THEN rt[r] ELSE [rt[r] EXCEPT !.paused = FALSE]

ToldApart ==
  IF part = "map"
  THEN <<created, present, reg, rt, waiter, metrics, events, call, disturbed>>
  ELSE <<created, present, RecordRead, reg, [r \in Runtimes |-> RuntimeRead(r)],
         waiter, metrics, events, [r \in Runtimes |-> snap[r].file], call,
         [s \in Streams |-> [stream[s] EXCEPT !.n = 0]], calls, requests>>
=============================================================================
