---------------------------- MODULE MCStreamWindow ----------------------------
(***************************************************************************)
(* Instances of StreamWindow with its history for TLC, in which a bounded  *)
(* number of stream requests is answered.  Only opening them is bounded:   *)
(* what follows from one that is open, the events and the stall recoveries *)
(* go on without bound.                                                    *)
(***************************************************************************)
EXTENDS StreamWindowHistory, TLC

CONSTANT MaxRequests   \* bound: stream requests that are answered

VARIABLE requests      \* how many there have been

Opened == \E r \in Requests : req[r].at = "idle" /\ req'[r].at = "open"

MCInit == HistoryInit /\ requests = 0

MCNext ==
  /\ HistoryNext
  /\ requests' = IF Opened THEN requests + 1 ELSE requests
  /\ requests' <= MaxRequests

MCSpec == MCInit /\ [][MCNext]_<<historyVars, requests>>

(***************************************************************************)
(* What the properties can tell apart: the state without the priorities of *)
(* pieces outside the window raised last, which the next window to hold    *)
(* them sets anew, and without the old windows of plans whose loops have   *)
(* passed them or pass them by.                                            *)
(***************************************************************************)
Lowers(a) ==
  job[a].at \in {"subscribe", "raise"} /\ (job[a].plan.isSeek \/ job[a].plan.forward)

ToldApart ==
  <<win, gen, forward, prepared, lastRange, readahead, framed, recovery, req, con, cancelled,
    raised, overtaken, requests,
    [p \in Playback(raised.win) \cup Prefetch(raised.win) |-> prio[p]],
    [a \in Actors |-> IF Lowers(a) THEN job[a] ELSE [job[a] EXCEPT !.plan.old = <<>>]]>>
=============================================================================
