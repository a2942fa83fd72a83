----------------------------- MODULE MCObservation -----------------------------
(***************************************************************************)
(* An instance for TLC of what observes sessions: the page, the log and    *)
(* the totals of the overview, and the diagnosis.  They take nothing from  *)
(* each other but values that any of them may have at any time, so that    *)
(* their interleavings would only multiply states: in a behaviour one of   *)
(* them moves, and the others stay in their initial states.                *)
(***************************************************************************)
EXTENDS Dashboard, StreamAccess, SessionHealth, TLC

VARIABLE part     \* which one moves

(* Which session is the first of the list, and which request of the user   *)
(* the first of those at the same time, makes no difference: an instance   *)
(* has the behaviours in which it is always the same one.                  *)
First(objects) == CHOOSE o \in objects : TRUE

FirstRequestIsFirst ==
  (\A o \in Ops : op[o].at = "idle") => \A o \in Ops \ {First(Ops)} : op'[o].at = "idle"

MCInit ==
  /\ part \in {"page", "log", "totals", "health"}
  /\ Init /\ AccessInit /\ HealthInit
  /\ server.list = {} \/ (part = "page" /\ server.list = {First(Sessions)})
  /\ part # "health" => age = 1 /\ range = "never"

MCNext ==
  /\ UNCHANGED part
  /\ \/ part = "page" /\ Next /\ FirstRequestIsFirst /\ UNCHANGED <<accessVars, healthVars>>
     \/ part = "log" /\ LogNext /\ UNCHANGED <<vars, healthVars>>
     \/ part = "totals" /\ MeasuresNext /\ UNCHANGED <<vars, healthVars>>
     \/ part = "health" /\ HealthNext /\ UNCHANGED <<vars, accessVars>>

(***************************************************************************)
(* The fairness of the page, which alone has a liveness property: it holds *)
(* of no behaviour in which the page stands still, and of those only the   *)
(* invariants and action properties are checked.                           *)
(***************************************************************************)
MCSpec ==
  /\ MCInit
  /\ [][MCNext]_<<vars, accessVars, healthVars, part>>
  /\ Fairness
=============================================================================
