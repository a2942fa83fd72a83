-------------------------- MODULE StreamWindowHistory --------------------------
(***************************************************************************)
(* StreamWindow with notes of which plan was raised last, and of the plans *)
(* that were overtaken by others.  No guard reads them.                    *)
(***************************************************************************)
EXTENDS StreamWindow

VARIABLES
  raised,      \* the window raised last, and whether a stall recovery that did
               \*   not find the peers slow has come since
  overtaken    \* whether another plan was recorded since the actor's was built

historyVars == <<vars, raised, overtaken>>

Actors == Requests \cup {Events}

InHand == {"subscribe", "raise", "record"}   \* where a job has its plan

Records(a) == job[a].at = "record" /\ job'[a].at = "none"

Raises(a) == job[a].at = "raise" /\ job'[a].at = "record"

NothingRaised == [win |-> NoWindow, stalled |-> FALSE]

HistoryInit ==
  /\ Init
  /\ raised = NothingRaised
  /\ overtaken = [a \in Actors |-> FALSE]

HistoryNext ==
  /\ Next
  /\ IF \E a \in Actors : Raises(a)
     THEN \E a \in Actors :
            Raises(a) /\ raised' = [win |-> job[a].plan.win, stalled |-> FALSE]
     ELSE raised' = [raised EXCEPT !.stalled = @ \/ RaiseStalled(FALSE)]
  /\ overtaken' = [a \in Actors |->
                     job'[a].at \in InHand
                     /\ (overtaken[a] \/ \E b \in Actors \ {a} : Records(b))]

HistorySpec == HistoryInit /\ [][HistoryNext]_historyVars

-----------------------------------------------------------------------------
(* Properties.                                                             *)

(***************************************************************************)
(* The loops of a plan lower the window before it and raise its own (lines *)
(* 1312-1331), and a recovery raises pieces of the window it captured,     *)
(* which others may have replaced since (lines 1565-1590).  In any order,  *)
(* the pieces of the playback window raised last keep at least High, those *)
(* of its prefetch window at least Readahead, which only a stall recovery  *)
(* can have taken down, and then no lower than High.                       *)
(***************************************************************************)
PrioritiesFollowWindow ==
  /\ \A p \in Playback(raised.win) : prio[p] >= High
  /\ \A p \in Prefetch(raised.win) :
       prio[p] >= IF raised.stalled THEN High ELSE Readahead

(***************************************************************************)
(* The generation tells a handler whether a seek has replaced the window   *)
(* it read (lines 1455, 1518, 1554, 1594).  A plan captures it when it is  *)
(* built and writes it when it is recorded (lines 1217, 1347), so it can   *)
(* go back; but only in the record of a plan that another one overtook.    *)
(***************************************************************************)
OnlyOvertakenTurnBack ==
  [][gen' < gen => \E a \in Actors : Records(a) /\ overtaken[a]]_historyVars

(***************************************************************************)
(* What makes both inductive: the window raised last is in the file, and a *)
(* plan that was not overtaken is for no generation before the current one.*)
(***************************************************************************)
HistoryInv ==
  /\ raised \in [win : Windows, stalled : BOOLEAN]
  /\ PrioritiesFollowWindow
  /\ raised.win = NoWindow \/ InFile(raised.win)
  /\ \A a \in Actors :
       job[a].at \in InHand /\ ~overtaken[a] => gen <= job[a].plan.gen
=============================================================================
