------------------------------- MODULE Dashboard -------------------------------
(***************************************************************************)
(* The hook behind the pages with sessions (useSessionDashboard.ts) and    *)
(* the program it asks: a page that reloads every five seconds and after   *)
(* each thing the user does, with requests that take their time and may    *)
(* fail.  A step of the page is what runs between two awaits.              *)
(***************************************************************************)
EXTENDS Integers

CONSTANTS Sessions,   \* bound: the sessions there may be
          Loads,      \* 1, 2, ...: calls of loadDashboardData in progress
          Ops,        \* bound: things the user does at the same time
          MaxChanges, \* bound: changes of the sessions
          MaxFailures,\* bound: requests of loads that fail
          None        \* no session; no load

VARIABLES
  server,     \* the sessions, and how often they have changed
  shown,      \* sessions and overview, and the change each is from
  selected,   \* selectedSessionId
  page,       \* loading, errorMessage, loadingRef
  load,       \* each call of loadDashboardData
  op,         \* each request of the user, and the reload that follows it
  failures    \* requests of loads that have failed

vars == <<server, shown, selected, page, load, op, failures>>

(* An answer to GET /sessions or GET /observability/overview: "at" is the  *)
(* change it shows, -1 before there is one.                                *)
NoAnswer == -1
Ages == NoAnswer .. MaxChanges

ServerStates == [list : SUBSET Sessions, changes : 0 .. MaxChanges]
ShownStates == [list : SUBSET Sessions, at : 0 .. MaxChanges, overview : 0 .. MaxChanges]
LoadStates == [at : {"idle", "asking", "failed"}, silent : BOOLEAN,
               list : SUBSET Sessions, listAt : Ages, overview : Ages]
OpStates == [at : {"idle", "asking", "done", "reloading"},
             on : Sessions \union {None},      \* None: submitSession
             by : Loads \union {None}]         \* the reload it waits for

ASSUME ConstantsType ==
  /\ MaxChanges \in Nat /\ MaxFailures \in Nat
  /\ Loads \subseteq Nat \ {0} /\ 1 \in Loads /\ None \notin Sessions \union Loads

TypeOK ==
  /\ server \in ServerStates
  /\ shown \in ShownStates
  /\ selected \in Sessions \union {None}
  /\ page \in [loading : BOOLEAN, error : BOOLEAN, loadingRef : BOOLEAN]
  /\ load \in [Loads -> LoadStates]
  /\ op \in [Ops -> OpStates]
  /\ \A o \in Ops : op[o].by # None => op[o].at = "reloading" /\ load[op[o].by].at # "idle"
  /\ failures \in 0 .. MaxFailures

NotLoading == [at |-> "idle", silent |-> FALSE, list |-> {},
               listAt |-> NoAnswer, overview |-> NoAnswer]
NoOp == [at |-> "idle", on |-> None, by |-> None]

Asking(silent) == [at |-> "asking", silent |-> silent, list |-> {},
                   listAt |-> NoAnswer, overview |-> NoAnswer]

(* useState, useRef, and the first load of useEffect. *)
Init ==
  /\ \E list \in SUBSET Sessions : server = [list |-> list, changes |-> 0]
  /\ shown = [list |-> {}, at |-> 0, overview |-> 0]
  /\ selected = None
  /\ load = [l \in Loads |-> IF l = 1 THEN Asking(FALSE) ELSE NotLoading]
  /\ page = [loading |-> TRUE, error |-> FALSE, loadingRef |-> TRUE]
  /\ op = [o \in Ops |-> NoOp]
  /\ failures = 0

-----------------------------------------------------------------------------
(* The program, as the page sees it: what the user asks for takes effect,  *)
(* sessions change by themselves, and a request sees the moment it is      *)
(* served at.  The list comes from FindAll, which has no order.            *)

Changed(list) == server' = [list |-> list, changes |-> server.changes + 1]

SessionsChange ==
  /\ server.changes < MaxChanges
  /\ Changed(server.list)
  /\ UNCHANGED <<shown, selected, page, load, op, failures>>

Takes(o) ==
  /\ op[o].at = "asking"
  /\ server.changes < MaxChanges
  /\ \/ op[o].on = None /\ \E s \in Sessions \ server.list : Changed(server.list \union {s})
     \/ op[o].on \in server.list /\ \E gone \in {{}, {op[o].on}} : Changed(server.list \ gone)
  /\ op' = [op EXCEPT ![o].at = "done"]
  /\ UNCHANGED <<shown, selected, page, load, failures>>

ListServed(l) ==
  /\ load[l].at = "asking" /\ load[l].listAt = NoAnswer
  /\ load' = [load EXCEPT ![l].list = server.list, ![l].listAt = server.changes]
  /\ UNCHANGED <<server, shown, selected, page, op, failures>>

OverviewServed(l) ==
  /\ load[l].at = "asking" /\ load[l].overview = NoAnswer
  /\ load' = [load EXCEPT ![l].overview = server.changes]
  /\ UNCHANGED <<server, shown, selected, page, op, failures>>

(* Promise.all is rejected when either request fails. *)
RequestFails(l) ==
  /\ load[l].at = "asking"
  /\ load[l].listAt = NoAnswer \/ load[l].overview = NoAnswer
  /\ failures < MaxFailures
  /\ failures' = failures + 1
  /\ load' = [load EXCEPT ![l].at = "failed"]
  /\ UNCHANGED <<server, shown, selected, page, op>>

-----------------------------------------------------------------------------
(* loadDashboardData.                                                      *)

(* Lines 50-56. *)
BeginLoad(l, silent) ==
  /\ load[l].at = "idle" /\ \A k \in Loads : k < l => load[k].at # "idle"
  /\ load' = [load EXCEPT ![l] = Asking(silent)]
  /\ page' = IF silent
             THEN [page EXCEPT !.loadingRef = TRUE]
             ELSE [loading |-> TRUE, error |-> FALSE, loadingRef |-> TRUE]

StartLoad(l, silent) == ~page.loadingRef /\ BeginLoad(l, silent)

(* The timer of useEffect; a tick during a load has no effect. *)
Poll ==
  /\ \E l \in Loads : StartLoad(l, TRUE)
  /\ UNCHANGED <<server, shown, selected, op, failures>>

(* A plausible slip: the selection stays on a session that is gone.        *)
SelectSame(list) ==
  IF selected = None /\ list # {} THEN selected' \in list ELSE selected' = selected

(* The update of setSelectedSessionId. *)
SelectAfter(list) ==
  IF list = {} THEN selected' = None
  ELSE IF selected \in list THEN selected' = selected
  ELSE selected' \in list

(* "finally", and with it the return to the request that waits for it.     *)
(* Plausible slips: a failure leaves loadingRef set; the request waits on. *)
EndLoadForgets(l, failed) ==
  /\ page' = [loading |-> page.loading /\ load[l].silent,
              error |-> page.error \/ (failed /\ ~load[l].silent),
              loadingRef |-> failed]
  /\ load' = [load EXCEPT ![l] = NotLoading]
  /\ op' = [o \in Ops |-> IF op[o].by = l THEN NoOp ELSE op[o]]

EndLoadAlone(l, failed) ==
  /\ page' = [loading |-> page.loading /\ load[l].silent,
              error |-> page.error \/ (failed /\ ~load[l].silent),
              loadingRef |-> FALSE]
  /\ load' = [load EXCEPT ![l] = NotLoading]
  /\ UNCHANGED op

EndLoad(l, failed) ==
  /\ page' = [loading |-> page.loading /\ load[l].silent,
              error |-> page.error \/ (failed /\ ~load[l].silent),
              loadingRef |-> FALSE]
  /\ load' = [load EXCEPT ![l] = NotLoading]
  /\ op' = [o \in Ops |-> IF op[o].by = l THEN NoOp ELSE op[o]]

LoadDone(l) ==
  /\ load[l].at = "asking" /\ load[l].listAt # NoAnswer /\ load[l].overview # NoAnswer
  /\ shown' = [list |-> load[l].list, at |-> load[l].listAt, overview |-> load[l].overview]
  /\ SelectAfter(load[l].list)
  /\ EndLoad(l, FALSE)
  /\ UNCHANGED <<server, failures>>

LoadFails(l) ==
  /\ load[l].at = "failed"
  /\ EndLoad(l, TRUE)
  /\ UNCHANGED <<server, shown, selected, failures>>

-----------------------------------------------------------------------------
(* What the user does.                                                     *)

SelectSession ==
  /\ selected' \in shown.list
  /\ UNCHANGED <<server, shown, page, load, op, failures>>

(* submitSession, or one of the four buttons for the selected session. *)
Click(o) ==
  /\ op[o].at = "idle"
  /\ \E on \in {None, selected} : op' = [op EXCEPT ![o] = [NoOp EXCEPT !.at = "asking", !.on = on]]
  /\ page' = [page EXCEPT !.error = FALSE]
  /\ UNCHANGED <<server, shown, selected, load, failures>>

(* The request, or only the answer to it, is lost or refused. *)
OpFails(o) ==
  /\ op[o].at \in {"asking", "done"}
  /\ op' = [op EXCEPT ![o] = NoOp]
  /\ page' = [page EXCEPT !.error = TRUE]
  /\ UNCHANGED <<server, shown, selected, load, failures>>

OpReloads(o) ==
  /\ op[o].at = "done"
  /\ \E l \in Loads :
       /\ StartLoad(l, FALSE)
       /\ op' = [op EXCEPT ![o].at = "reloading", ![o].by = l]
  /\ UNCHANGED <<server, shown, selected, failures>>

(* Another load is in progress: this one returns at once. *)
OpReloadSkipped(o) ==
  /\ op[o].at = "done"
  /\ page.loadingRef
  /\ op' = [op EXCEPT ![o] = NoOp]
  /\ UNCHANGED <<server, shown, selected, page, load, failures>>

-----------------------------------------------------------------------------
Next ==
  \/ SessionsChange
  \/ Poll
  \/ SelectSession
  \/ \E l \in Loads :
       ListServed(l) \/ OverviewServed(l) \/ RequestFails(l) \/ LoadDone(l) \/ LoadFails(l)
  \/ \E o \in Ops : Takes(o) \/ Click(o) \/ OpFails(o) \/ OpReloads(o) \/ OpReloadSkipped(o)

Spec == Init /\ [][Next]_vars

(***************************************************************************)
(* The timer ticks, requests are answered, and the page goes on with what  *)
(* it gets.  Requests do not fail for ever (MaxFailures), and nothing is   *)
(* assumed of the user.                                                    *)
(***************************************************************************)
Fairness ==
  /\ WF_vars(Poll)
  /\ \A l \in Loads :
       WF_vars(ListServed(l) \/ OverviewServed(l) \/ LoadDone(l) \/ LoadFails(l))

FairSpec == Spec /\ Fairness

-----------------------------------------------------------------------------
(***************************************************************************)
(* Loads start on a timer and after each request of the user, and answers  *)
(* arrive in any order; still the page never replaces what it shows by     *)
(* something older (loadingRef, lines 46-48 and 77).                       *)
(***************************************************************************)
NeverGoesBack ==
  [][shown'.at >= shown.at /\ shown'.overview >= shown.overview]_vars

(***************************************************************************)
(* The page says that it loads exactly while a load that was not silent    *)
(* is in progress, whichever loads end in between (lines 53-56, 78-80).    *)
(***************************************************************************)
LoadingIsShown ==
  page.loading <=> \E l \in Loads : load[l].at # "idle" /\ ~load[l].silent

(***************************************************************************)
(* The buttons act on the selected session (lines 97-147), and the list of *)
(* the page changes under the user's hand: when sessions are listed one of *)
(* them is selected, and never one that is gone.                           *)
(***************************************************************************)
SelectionListed ==
  IF shown.list = {} THEN selected = None ELSE selected \in shown.list

(***************************************************************************)
(* The reload after a request of the user is skipped when a load that was  *)
(* answered before the request took effect is in progress (lines 46-48).   *)
(* The timer makes up for it: every change comes to be shown, in the list  *)
(* and in the overview.                                                    *)
(***************************************************************************)
ChangesAreShown ==
  \A n \in 1 .. MaxChanges :
    server.changes >= n ~> (shown.at >= n /\ shown.overview >= n)
=============================================================================
