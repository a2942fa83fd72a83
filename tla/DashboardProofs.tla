---------------------------- MODULE DashboardProofs ----------------------------
(***************************************************************************)
(* Proofs about Dashboard, for any sessions, any number of things the user *)
(* does at the same time, of changes and of failed requests.               *)
(***************************************************************************)
EXTENDS Dashboard, TLAPS

(* loadingRef is exact, and lets one load in. *)
OneLoad ==
  /\ page.loadingRef <=> \E l \in Loads : load[l].at # "idle"
  /\ \A k, l \in Loads : load[k].at # "idle" /\ load[l].at # "idle" => k = l

(* What is shown is older than the answers of a load in progress, and      *)
(* those are no newer than the program.                                    *)
Between(answer, now) == answer = NoAnswer \/ (now <= answer /\ answer <= server.changes)

AnswersInOrder ==
  /\ shown.at <= server.changes /\ shown.overview <= server.changes
  /\ \A l \in Loads : load[l].at = "asking" =>
       Between(load[l].listAt, shown.at) /\ Between(load[l].overview, shown.overview)

PageInv == TypeOK /\ OneLoad /\ LoadingIsShown /\ AnswersInOrder /\ SelectionListed

LEMMA LoadTypes ==
  /\ NotLoading \in LoadStates /\ NotLoading.at = "idle" /\ NotLoading.silent = FALSE
  /\ \A silent \in BOOLEAN : /\ Asking(silent) \in LoadStates
                             /\ Asking(silent).at = "asking"
                             /\ Asking(silent).silent = silent
                             /\ Asking(silent).listAt = NoAnswer
                             /\ Asking(silent).overview = NoAnswer
  /\ NoOp \in OpStates /\ NoOp.by = None
<1>1. NotLoading = [at |-> "idle", silent |-> FALSE, list |-> {}, listAt |-> -1, overview |-> -1]
  BY DEF NotLoading, NoAnswer
<1>2. -1 \in Ages
  BY ConstantsType DEF Ages, NoAnswer
<1>3. NotLoading \in LoadStates /\ NotLoading.at = "idle" /\ NotLoading.silent = FALSE
  BY <1>1, <1>2 DEF LoadStates
<1>4. ASSUME NEW silent \in BOOLEAN
      PROVE  Asking(silent) = [at |-> "asking", silent |-> silent, list |-> {},
                               listAt |-> -1, overview |-> -1]
  BY DEF Asking, NoAnswer
<1>5. ASSUME NEW silent \in BOOLEAN
      PROVE  /\ Asking(silent) \in LoadStates /\ Asking(silent).at = "asking"
             /\ Asking(silent).silent = silent
             /\ Asking(silent).listAt = NoAnswer /\ Asking(silent).overview = NoAnswer
  BY <1>2, <1>4 DEF LoadStates, NoAnswer
<1>6. NoOp \in OpStates /\ NoOp.by = None
  BY DEF NoOp, OpStates
<1> QED
  BY <1>3, <1>5, <1>6

LEMMA InitPage == Init => PageInv
<1> SUFFICES ASSUME Init PROVE PageInv
  OBVIOUS
<1>0. /\ Asking(FALSE) \in LoadStates /\ Asking(FALSE).at = "asking"
      /\ Asking(FALSE).silent = FALSE
      /\ Asking(FALSE).listAt = NoAnswer /\ Asking(FALSE).overview = NoAnswer
  <2>1. FALSE \in BOOLEAN
    OBVIOUS
  <2> QED
    BY <2>1, LoadTypes, Zenon
<1>1. /\ load \in [Loads -> LoadStates]
      /\ load[1] = Asking(FALSE)
      /\ \A l \in Loads \ {1} : load[l] = NotLoading
  <2> DEFINE first == Asking(FALSE)
             other == NotLoading
  <2>1. load = [l \in Loads |-> IF l = 1 THEN first ELSE other]
    BY DEF Init
  <2>2. first \in LoadStates /\ other \in LoadStates
    BY <1>0, LoadTypes
  <2> HIDE DEF first, other
  <2>3. /\ load \in [Loads -> LoadStates] /\ load[1] = first
        /\ \A l \in Loads \ {1} : load[l] = other
    BY <2>1, <2>2, ConstantsType
  <2> QED
    BY <2>3 DEF first, other
<1>2. /\ load[1].at = "asking" /\ load[1].silent = FALSE
      /\ load[1].listAt = NoAnswer /\ load[1].overview = NoAnswer
      /\ \A l \in Loads \ {1} : load[l].at = "idle"
  BY <1>0, <1>1, LoadTypes, ConstantsType
<1>3. TypeOK
  <2>1. op \in [Ops -> OpStates] /\ \A o \in Ops : op[o].by = None
    BY LoadTypes DEF Init
  <2>2. server \in ServerStates /\ shown \in ShownStates
    <3>1. 0 \in 0 .. MaxChanges
      BY ConstantsType
    <3> QED
      BY <3>1 DEF Init, ServerStates, ShownStates
  <2>3. page \in [loading : BOOLEAN, error : BOOLEAN, loadingRef : BOOLEAN]
    BY DEF Init
  <2> QED
    <3>1. selected \in Sessions \union {None} /\ failures \in 0 .. MaxFailures
      BY ConstantsType DEF Init
    <3> QED
      BY <1>1, <2>1, <2>2, <2>3, <3>1 DEF TypeOK
<1>4. OneLoad /\ LoadingIsShown
  BY <1>2, ConstantsType DEF Init, OneLoad, LoadingIsShown
<1>5. AnswersInOrder
  <2>1. shown.at = 0 /\ shown.overview = 0 /\ server.changes = 0
    BY DEF Init
  <2>2. \A l \in Loads : load[l].at = "asking" =>
          load[l].listAt = NoAnswer /\ load[l].overview = NoAnswer
    BY <1>2
  <2> QED
    BY <2>1, <2>2 DEF AnswersInOrder, Between
<1>6. SelectionListed
  BY DEF Init, SelectionListed
<1> QED
  BY <1>4, <1>5, <1>6, <1>3 DEF PageInv

(* Where a load begins there was none. *)
LEMMA StartLoadPage ==
  ASSUME PageInv, NEW l \in Loads, NEW silent \in BOOLEAN, StartLoad(l, silent),
         UNCHANGED <<server, shown>>
  PROVE  /\ load' \in [Loads -> LoadStates]
         /\ page' \in [loading : BOOLEAN, error : BOOLEAN, loadingRef : BOOLEAN]
         /\ \A k \in Loads : load[k].at # "idle" => load'[k].at # "idle"
         /\ load'[l].at # "idle"
         /\ OneLoad' /\ LoadingIsShown' /\ AnswersInOrder'
<1>1. \A k \in Loads : load[k].at = "idle"
  BY DEF PageInv, OneLoad, StartLoad
<1>2. load' = [load EXCEPT ![l] = Asking(silent)]
  BY DEF StartLoad, BeginLoad
<1>3. load' \in [Loads -> LoadStates]
  BY <1>2, LoadTypes DEF PageInv, TypeOK
<1>4. /\ load'[l].at = "asking" /\ load'[l].silent = silent
      /\ load'[l].listAt = NoAnswer /\ load'[l].overview = NoAnswer
      /\ \A k \in Loads \ {l} : load'[k].at = "idle"
  BY <1>1, <1>2, LoadTypes DEF PageInv, TypeOK
<1>5. /\ page' \in [loading : BOOLEAN, error : BOOLEAN, loadingRef : BOOLEAN]
      /\ page'.loadingRef /\ (silent => page'.loading = page.loading) /\ (~silent => page'.loading)
  BY DEF StartLoad, BeginLoad, PageInv, TypeOK
<1>6. ~page.loading
  BY <1>1 DEF PageInv, LoadingIsShown
<1>7. OneLoad'
  BY <1>4, <1>5 DEF OneLoad
<1>8. LoadingIsShown'
  BY <1>4, <1>5, <1>6 DEF LoadingIsShown
<1>9. AnswersInOrder'
  BY <1>4 DEF PageInv, AnswersInOrder, Between
<1> QED
  BY <1>1, <1>3, <1>4, <1>5, <1>7, <1>8, <1>9

(* Where a load ends none is left, and no request waits for one. *)
LEMMA EndLoadPage ==
  ASSUME PageInv, NEW l \in Loads, NEW failed \in BOOLEAN, EndLoad(l, failed),
         load[l].at # "idle"
  PROVE  /\ load' \in [Loads -> LoadStates] /\ op' \in [Ops -> OpStates]
         /\ page' \in [loading : BOOLEAN, error : BOOLEAN, loadingRef : BOOLEAN]
         /\ \A o \in Ops : op'[o].by # None =>
              op'[o].at = "reloading" /\ load'[op'[o].by].at # "idle"
         /\ \A k \in Loads : load'[k].at = "idle"
         /\ OneLoad' /\ LoadingIsShown'
<1>1. load' = [load EXCEPT ![l] = NotLoading]
  BY DEF EndLoad
<1>2. \A k \in Loads \ {l} : load[k].at = "idle"
  BY DEF PageInv, OneLoad
<1>3. load' \in [Loads -> LoadStates] /\ \A k \in Loads : load'[k].at = "idle"
  BY <1>1, <1>2, LoadTypes DEF PageInv, TypeOK
<1>4. op' = [o \in Ops |-> IF op[o].by = l THEN NoOp ELSE op[o]]
  BY DEF EndLoad
<1>5. op' \in [Ops -> OpStates]
  BY <1>4, LoadTypes DEF PageInv, TypeOK
<1>6. ASSUME NEW o \in Ops, op'[o].by # None
      PROVE  FALSE
  <2>1. op[o].by # l /\ op'[o] = op[o]
    BY <1>4, <1>6, LoadTypes
  <2>2. op[o].by \in Loads /\ load[op[o].by].at # "idle"
    BY <1>6, <2>1 DEF PageInv, TypeOK, OpStates
  <2> QED
    BY <1>2, <2>1, <2>2
<1>7. /\ page' \in [loading : BOOLEAN, error : BOOLEAN, loadingRef : BOOLEAN]
      /\ page'.loadingRef = FALSE /\ page'.loading = (page.loading /\ load[l].silent)
  BY DEF EndLoad, PageInv, TypeOK, LoadStates
<1>8. OneLoad'
  BY <1>3, <1>7 DEF OneLoad
<1>9. page'.loading = FALSE
  BY <1>2, <1>7 DEF PageInv, LoadingIsShown, TypeOK, LoadStates
<1>10. LoadingIsShown'
  BY <1>3, <1>9 DEF LoadingIsShown
<1> QED
  BY <1>3, <1>5, <1>6, <1>7, <1>8, <1>10

(* A step that leaves loads and loadingRef alone keeps what depends on them. *)
LEMMA LoadsKept ==
  ASSUME PageInv, UNCHANGED <<load, shown, selected>>,
         page'.loading = page.loading, page'.loadingRef = page.loadingRef,
         server.changes \in Int, server'.changes \in Int, server.changes <= server'.changes
  PROVE  OneLoad' /\ LoadingIsShown' /\ AnswersInOrder' /\ SelectionListed'
<1>1. OneLoad' /\ LoadingIsShown' /\ SelectionListed'
  BY DEF PageInv, OneLoad, LoadingIsShown, SelectionListed
<1>2. AnswersInOrder'
  <2>1. \A l \in Loads : load[l].listAt \in Int /\ load[l].overview \in Int
    BY DEF PageInv, TypeOK, LoadStates, Ages, NoAnswer
  <2>2. shown.at \in Int /\ shown.overview \in Int
    BY DEF PageInv, TypeOK, ShownStates
  <2> QED
    BY <2>1, <2>2 DEF PageInv, AnswersInOrder, Between
<1> QED
  BY <1>1, <1>2

(* Only the server moves. *)
LEMMA ServerSteps ==
  ASSUME PageInv, SessionsChange \/ \E o \in Ops : Takes(o)
  PROVE  PageInv'
<1>1. /\ server' \in ServerStates /\ server'.changes = server.changes + 1
      /\ UNCHANGED <<shown, selected, page, load, failures>>
  <2>1. ASSUME SessionsChange
        PROVE  /\ server' \in ServerStates /\ server'.changes = server.changes + 1
               /\ UNCHANGED <<shown, selected, page, load, failures>>
    BY <2>1, ConstantsType DEF SessionsChange, Changed, PageInv, TypeOK, ServerStates
  <2>2. ASSUME NEW o \in Ops, Takes(o)
        PROVE  /\ server' \in ServerStates /\ server'.changes = server.changes + 1
               /\ UNCHANGED <<shown, selected, page, load, failures>>
    BY <2>2, ConstantsType DEF Takes, Changed, PageInv, TypeOK, ServerStates
  <2> QED
    BY <2>1, <2>2
<1>2. /\ op' \in [Ops -> OpStates]
      /\ \A o \in Ops : op'[o].by # None => op'[o].at = "reloading" /\ load[op'[o].by].at # "idle"
  <2>1. CASE SessionsChange
    BY <2>1 DEF SessionsChange, PageInv, TypeOK
  <2>2. ASSUME NEW o \in Ops, Takes(o)
        PROVE  /\ op' \in [Ops -> OpStates]
               /\ \A p \in Ops : op'[p].by # None =>
                    op'[p].at = "reloading" /\ load[op'[p].by].at # "idle"
    BY <2>2 DEF Takes, PageInv, TypeOK, OpStates
  <2> QED
    BY <2>1, <2>2
<1>3. TypeOK'
  BY <1>1, <1>2 DEF PageInv, TypeOK
<1>4. server.changes \in Int /\ server'.changes \in Int
  BY <1>1, ConstantsType DEF PageInv, TypeOK, ServerStates
<1> QED
  BY <1>1, <1>3, <1>4, LoadsKept DEF PageInv

(* A request of a load is served or fails. *)
LEMMA LoadAnswered ==
  ASSUME PageInv, NEW l \in Loads, ListServed(l) \/ OverviewServed(l) \/ RequestFails(l)
  PROVE  PageInv'
<1>1. UNCHANGED <<server, shown, selected, page, op>>
  BY DEF ListServed, OverviewServed, RequestFails
<1>2. /\ load' \in [Loads -> LoadStates]
      /\ load[l].at = "asking" /\ load'[l].at # "idle" /\ load'[l].silent = load[l].silent
      /\ \A k \in Loads \ {l} : load'[k] = load[k]
      /\ load'[l].at = "asking" =>
           /\ load'[l].listAt = load[l].listAt \/ load'[l].listAt = server.changes
           /\ load'[l].overview = load[l].overview \/ load'[l].overview = server.changes
  <2>1. server.list \in SUBSET Sessions /\ server.changes \in Ages
    BY ConstantsType DEF PageInv, TypeOK, ServerStates, Ages, NoAnswer
  <2>2. CASE ListServed(l)
    BY <2>1, <2>2 DEF ListServed, PageInv, TypeOK, LoadStates
  <2>3. CASE OverviewServed(l)
    BY <2>1, <2>3 DEF OverviewServed, PageInv, TypeOK, LoadStates
  <2>4. CASE RequestFails(l)
    BY <2>1, <2>4 DEF RequestFails, PageInv, TypeOK, LoadStates
  <2> QED
    BY <2>2, <2>3, <2>4
<1>3. failures' \in 0 .. MaxFailures
  BY ConstantsType DEF ListServed, OverviewServed, RequestFails, PageInv, TypeOK
<1>4. \A o \in Ops : op'[o].by # None => op'[o].at = "reloading" /\ load'[op'[o].by].at # "idle"
  <2>1. ASSUME NEW o \in Ops, op[o].by # None
        PROVE  op[o].at = "reloading" /\ load'[op[o].by].at # "idle"
    <3>1. op[o].by \in Loads /\ op[o].at = "reloading" /\ load[op[o].by].at # "idle"
      BY <2>1 DEF PageInv, TypeOK, OpStates
    <3> QED
      BY <1>2, <3>1
  <2> QED
    BY <1>1, <2>1
<1>5. TypeOK'
  BY <1>1, <1>2, <1>3, <1>4 DEF PageInv, TypeOK
<1>6. OneLoad' /\ LoadingIsShown' /\ SelectionListed'
  BY <1>1, <1>2 DEF PageInv, OneLoad, LoadingIsShown, SelectionListed
<1>7. AnswersInOrder'
  <2>1. server.changes \in Int /\ shown.at \in Int /\ shown.overview \in Int
    BY DEF PageInv, TypeOK, ServerStates, ShownStates
  <2> QED
    BY <1>1, <1>2, <2>1 DEF PageInv, AnswersInOrder, Between
<1> QED
  BY <1>5, <1>6, <1>7 DEF PageInv

(* A load ends, with what it brings or with nothing. *)
LEMMA LoadEnds ==
  ASSUME PageInv, NEW l \in Loads, LoadDone(l) \/ LoadFails(l)
  PROVE  PageInv' /\ shown'.at >= shown.at /\ shown'.overview >= shown.overview
<1>1. load[l].at # "idle" /\ UNCHANGED <<server, failures>>
  BY DEF LoadDone, LoadFails
<1>2. \E failed \in BOOLEAN : EndLoad(l, failed)
  BY DEF LoadDone, LoadFails
<1>3. /\ load' \in [Loads -> LoadStates] /\ op' \in [Ops -> OpStates]
      /\ page' \in [loading : BOOLEAN, error : BOOLEAN, loadingRef : BOOLEAN]
      /\ \A o \in Ops : op'[o].by # None =>
           op'[o].at = "reloading" /\ load'[op'[o].by].at # "idle"
      /\ \A k \in Loads : load'[k].at = "idle"
      /\ OneLoad' /\ LoadingIsShown'
  BY <1>1, <1>2, EndLoadPage
<1>4. /\ shown' \in ShownStates /\ shown'.at >= shown.at /\ shown'.overview >= shown.overview
      /\ shown'.at <= server.changes /\ shown'.overview <= server.changes
      /\ selected' \in Sessions \union {None} /\ SelectionListed'
  <2>1. CASE LoadDone(l)
    <3>1. /\ load[l] \in LoadStates /\ load[l].at = "asking"
          /\ load[l].listAt # NoAnswer /\ load[l].overview # NoAnswer
      BY <2>1 DEF LoadDone, PageInv, TypeOK
    <3>2. /\ shown.at <= load[l].listAt /\ load[l].listAt <= server.changes
          /\ shown.overview <= load[l].overview /\ load[l].overview <= server.changes
      BY <3>1 DEF PageInv, AnswersInOrder, Between
    <3>3. /\ shown'.list = load[l].list /\ shown'.at = load[l].listAt
          /\ shown'.overview = load[l].overview
          /\ shown' = [list |-> load[l].list, at |-> load[l].listAt, overview |-> load[l].overview]
      BY <2>1 DEF LoadDone
    <3>4. load[l].listAt \in 0 .. MaxChanges /\ load[l].overview \in 0 .. MaxChanges
          /\ load[l].list \in SUBSET Sessions
      BY <3>1, ConstantsType DEF LoadStates, Ages, NoAnswer
    <3>5. selected' \in Sessions \union {None} /\ SelectionListed'
      BY <2>1, <3>3, <3>4 DEF LoadDone, SelectAfter, SelectionListed
    <3>6. shown' \in ShownStates
      BY <3>3, <3>4 DEF ShownStates
    <3> QED
      BY <3>2, <3>3, <3>4, <3>5, <3>6 DEF PageInv, TypeOK, ShownStates
  <2>2. CASE LoadFails(l)
    BY <2>2 DEF LoadFails, PageInv, TypeOK, ShownStates, AnswersInOrder, SelectionListed
  <2> QED
    BY <2>1, <2>2
<1>5. TypeOK'
  BY <1>1, <1>3, <1>4 DEF PageInv, TypeOK
<1>6. AnswersInOrder'
  BY <1>1, <1>3, <1>4 DEF AnswersInOrder
<1> QED
  BY <1>3, <1>4, <1>5, <1>6 DEF PageInv
(* The timer, or a request of the user, starts a load. *)
LEMMA LoadStarts ==
  ASSUME PageInv, Poll \/ \E o \in Ops : OpReloads(o)
  PROVE  PageInv'
<1>1. ASSUME NEW l \in Loads, NEW silent \in BOOLEAN, StartLoad(l, silent),
             UNCHANGED <<server, shown, selected, failures>>,
             op' = op \/ \E o \in Ops : op' = [op EXCEPT ![o].at = "reloading", ![o].by = l]
      PROVE  PageInv'
  <2>1. /\ load' \in [Loads -> LoadStates]
        /\ page' \in [loading : BOOLEAN, error : BOOLEAN, loadingRef : BOOLEAN]
        /\ \A k \in Loads : load[k].at # "idle" => load'[k].at # "idle"
        /\ load'[l].at # "idle"
        /\ OneLoad' /\ LoadingIsShown' /\ AnswersInOrder'
    BY <1>1, StartLoadPage
  <2>2. /\ op' \in [Ops -> OpStates]
        /\ \A o \in Ops : op'[o] = op[o] \/ (op'[o].at = "reloading" /\ op'[o].by = l)
    <3>1. op \in [Ops -> OpStates]
      BY DEF PageInv, TypeOK
    <3>2. ASSUME NEW o \in Ops, op' = [op EXCEPT ![o].at = "reloading", ![o].by = l]
          PROVE  /\ op' \in [Ops -> OpStates]
                 /\ \A p \in Ops : op'[p] = op[p] \/ (op'[p].at = "reloading" /\ op'[p].by = l)
      <4> DEFINE new == [[op[o] EXCEPT !.at = "reloading"] EXCEPT !.by = l]
      <4>1. op' = [op EXCEPT ![o] = new]
        BY <3>1, <3>2
      <4>2. new \in OpStates /\ new.at = "reloading" /\ new.by = l
        BY <3>1 DEF OpStates
      <4> HIDE DEF new
      <4> QED
        BY <3>1, <4>1, <4>2
    <3> QED
      BY <1>1, <3>1, <3>2
  <2>3. ASSUME NEW o \in Ops, op'[o].by # None
        PROVE  op'[o].at = "reloading" /\ load'[op'[o].by].at # "idle"
    <3>1. op'[o] = op[o] \/ (op'[o].at = "reloading" /\ op'[o].by = l)
      BY <2>2
    <3>2. CASE op'[o] = op[o]
      <4>1. op[o].by \in Loads /\ op[o].at = "reloading" /\ load[op[o].by].at # "idle"
        BY <2>3, <3>2 DEF PageInv, TypeOK, OpStates
      <4> QED
        BY <2>1, <3>2, <4>1
    <3> QED
      BY <2>1, <3>1, <3>2
  <2>4. TypeOK'
    BY <1>1, <2>1, <2>2, <2>3 DEF PageInv, TypeOK
  <2>5. SelectionListed'
    BY <1>1 DEF PageInv, SelectionListed
  <2> QED
    BY <2>1, <2>4, <2>5 DEF PageInv
<1>2. CASE Poll
  <2>1. PICK l \in Loads : StartLoad(l, TRUE)
    BY <1>2 DEF Poll
  <2>2. TRUE \in BOOLEAN
    OBVIOUS
  <2> QED
    BY <1>1, <1>2, <2>1, <2>2, Zenon DEF Poll
<1>3. ASSUME NEW o \in Ops, OpReloads(o)
      PROVE  PageInv'
  <2>1. PICK l \in Loads : /\ StartLoad(l, FALSE)
                           /\ op' = [op EXCEPT ![o].at = "reloading", ![o].by = l]
    BY <1>3 DEF OpReloads
  <2>2. FALSE \in BOOLEAN
    OBVIOUS
  <2> QED
    BY <1>1, <1>3, <2>1, <2>2, Zenon DEF OpReloads
<1> QED
  BY <1>2, <1>3

(* What the user does, but for the reload that follows. *)
LEMMA UserSteps ==
  ASSUME PageInv,
         SelectSession \/ \E o \in Ops : Click(o) \/ OpFails(o) \/ OpReloadSkipped(o)
  PROVE  PageInv'
<1>1. CASE SelectSession
  <2>1. selected' \in shown.list /\ UNCHANGED <<server, shown, page, load, op, failures>>
    BY <1>1 DEF SelectSession
  <2>2. TypeOK' /\ SelectionListed'
    BY <2>1 DEF PageInv, TypeOK, ShownStates, SelectionListed
  <2>3. OneLoad' /\ LoadingIsShown' /\ AnswersInOrder'
    BY <2>1 DEF PageInv, OneLoad, LoadingIsShown, AnswersInOrder, Between
  <2> QED
    BY <2>2, <2>3 DEF PageInv
<1>2. ASSUME NEW o \in Ops, Click(o) \/ OpFails(o) \/ OpReloadSkipped(o)
      PROVE  PageInv'
  <2>1. /\ UNCHANGED <<server, shown, selected, load, failures>>
        /\ page' \in [loading : BOOLEAN, error : BOOLEAN, loadingRef : BOOLEAN]
        /\ page'.loading = page.loading /\ page'.loadingRef = page.loadingRef
    BY <1>2 DEF Click, OpFails, OpReloadSkipped, PageInv, TypeOK
  <2>2. \E new \in OpStates : new.by = None /\ op' = [op EXCEPT ![o] = new]
    <3>1. \A on \in Sessions \union {None} :
            /\ [NoOp EXCEPT !.at = "asking", !.on = on] \in OpStates
            /\ [NoOp EXCEPT !.at = "asking", !.on = on].by = None
      BY DEF NoOp, OpStates
    <3>2. selected \in Sessions \union {None}
      BY DEF PageInv, TypeOK
    <3>3. CASE Click(o)
      BY <3>1, <3>2, <3>3, Zenon DEF Click
    <3>4. CASE OpFails(o) \/ OpReloadSkipped(o)
      BY <3>4, LoadTypes DEF OpFails, OpReloadSkipped
    <3> QED
      BY <1>2, <3>3, <3>4
  <2>3. TypeOK'
    BY <2>1, <2>2 DEF PageInv, TypeOK, OpStates
  <2>4. server.changes \in Int
    BY DEF PageInv, TypeOK, ServerStates
  <2> QED
    BY <2>1, <2>3, <2>4, LoadsKept DEF PageInv
<1> QED
  BY <1>1, <1>2

LEMMA StutterPage ==
  ASSUME PageInv, UNCHANGED vars
  PROVE  PageInv'
BY DEF vars, PageInv, TypeOK, OneLoad, LoadingIsShown, AnswersInOrder, Between, SelectionListed

LEMMA StepPage ==
  ASSUME PageInv, [Next]_vars
  PROVE  PageInv'
<1>1. CASE Next
  BY <1>1, ServerSteps, LoadAnswered, LoadEnds, LoadStarts, UserSteps DEF Next
<1> QED
  BY <1>1, StutterPage

(***************************************************************************)
(* Every reachable state of the page has the types of its parts, and a     *)
(* request of the user waits only for a reload that is in progress.        *)
(***************************************************************************)
THEOREM PageTypes == Spec => []TypeOK
<1>1. PageInv => TypeOK
  BY DEF PageInv
<1> QED
  BY <1>1, InitPage, StepPage, PTL DEF Spec

(***************************************************************************)
(* The page says that it loads exactly while a load that was not silent is *)
(* in progress: loadingRef lets one in at a time, and its end resets both. *)
(***************************************************************************)
THEOREM LoadingShown == Spec => []LoadingIsShown
<1>1. PageInv => LoadingIsShown
  BY DEF PageInv
<1> QED
  BY <1>1, InitPage, StepPage, PTL DEF Spec

(***************************************************************************)
(* Whatever list comes, the selected session is a listed one.              *)
(***************************************************************************)
THEOREM SelectedIsListed == Spec => []SelectionListed
<1>1. PageInv => SelectionListed
  BY DEF PageInv
<1> QED
  BY <1>1, InitPage, StepPage, PTL DEF Spec

(* Only the end of a load changes what is shown. *)
LEMMA ShownChanges ==
  ASSUME [Next]_vars, shown' # shown
  PROVE  \E l \in Loads : LoadDone(l)
BY DEF Next, vars, SessionsChange, Poll, SelectSession, ListServed, OverviewServed,
       RequestFails, LoadFails, Takes, Click, OpFails, OpReloads, OpReloadSkipped

(***************************************************************************)
(* The page never replaces what it shows by something older: a load is     *)
(* answered after the one before has ended, so that its answers are newer  *)
(* than what is shown.                                                     *)
(***************************************************************************)
THEOREM PageNeverGoesBack == Spec => NeverGoesBack
<1>1. ASSUME PageInv, [Next]_vars
      PROVE  [shown'.at >= shown.at /\ shown'.overview >= shown.overview]_vars
  <2>1. CASE shown' = shown
    BY <1>1, <2>1 DEF PageInv, TypeOK, ShownStates
  <2>2. CASE shown' # shown
    BY <1>1, <2>2, ShownChanges, LoadEnds
  <2> QED
    BY <2>1, <2>2
<1> QED
  BY <1>1, InitPage, StepPage, PTL DEF Spec, NeverGoesBack
=============================================================================
