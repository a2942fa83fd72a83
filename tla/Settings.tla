-------------------------------- MODULE Settings --------------------------------
(***************************************************************************)
(* The settings of the program and their three copies: the file and the    *)
(* memory of SettingsService (settings_service.go), and the settings the   *)
(* runtime manager works with, whose rate limits must also reach the       *)
(* limiters the torrent client was built with (torrent_runtime_manager.go, *)
(* NewTorrentRuntimeManager and ApplySettings).  PUT /settings and the     *)
(* desktop binding each run UpdateSettings and then ApplySettings, in a    *)
(* goroutine of their own.  A step is one system call on the file or one   *)
(* section under one lock.                                                 *)
(***************************************************************************)
EXTENDS Integers

CONSTANTS Requests,       \* bound: the settings users send
          Defaults,       \* what the environment gives, LoadApplicationConfig
          Updaters,       \* bound: updates in progress at the same time
          MinUpload,      \* minimumUploadRateLimitKiBps
          DefaultMin, DefaultMax, DefaultPieces,
          FallbackTrackers,
          TrackerURLs     \* the trackers whose text begins as a URL of a tracker

VARIABLES
  file,       \* settings.json
  memory,     \* SettingsService.settings
  job,        \* each update: how far it is and with what
  manager,    \* torrentRuntimeManager.settings
  limiter,    \* the limiters the manager holds: none, the client's, another one
  inForce     \* the limit of the client's own limiters, 0 for no limit

vars == <<file, memory, job, manager, limiter, inForce>>

(***************************************************************************)
(* The fields that are looked at.  "dirs": both directories are given;     *)
(* "proxy": metadataProxyEnabled and the form of its URL; "pieces" stands  *)
(* for the four sizes of the priority window, which are treated alike.     *)
(***************************************************************************)
RawSettings ==
  [dirs : BOOLEAN, proxy : {"off", "on", "invalid"}, dl : Int, ul : Int,
   min : Int, max : Int, pieces : Int, trackers : SUBSET STRING, append : BOOLEAN]

Positive(n, default) == IF n <= 0 THEN default ELSE n

(* normalizeSettings: the bounds are made positive before they are compared. *)
Normalize(s) ==
  LET min == Positive(s.min, DefaultMin)
      max == Positive(s.max, DefaultMax)
      usable == s.trackers \cap TrackerURLs
  IN  [s EXCEPT !.ul = Positive(@, MinUpload),
                !.min = min,
                !.max = IF max < min THEN min ELSE max,
                !.pieces = Positive(@, DefaultPieces),
                !.trackers = IF usable = {} THEN FallbackTrackers ELSE usable]

Valid(s) ==
  /\ s.dirs
  /\ s.proxy # "invalid"
  /\ s.dl >= 0
  /\ s.ul >= MinUpload
  /\ s.min > 0 /\ s.max >= s.min
  /\ s.pieces > 0

ASSUME RequestsType == Requests \subseteq RawSettings /\ Defaults \in RawSettings
ASSUME DefaultsValid == Valid(Normalize(Defaults))
ASSUME SizesType ==
  /\ MinUpload \in Nat \ {0} /\ DefaultPieces \in Nat \ {0}
  /\ DefaultMin \in Nat \ {0} /\ DefaultMax \in Nat \ {0}
ASSUME TrackersType ==
  FallbackTrackers # {} /\ FallbackTrackers \subseteq TrackerURLs /\ TrackerURLs \subseteq STRING

(* Everything the program may come to work with. *)
Usable == {s \in RawSettings : Valid(s) /\ Normalize(s) = s}

Files == [is : {"missing", "blank", "torn", "whole"}, has : Usable]

Jobs == [at : {"idle", "open", "write", "store", "apply"}, new : Usable,
         alone : BOOLEAN]      \* history: no other update since it began

TypeOK ==
  /\ file \in Files
  /\ memory \in Usable
  /\ job \in [Updaters -> Jobs]
  /\ manager \in Usable
  /\ limiter \in [{"dl", "ul"} -> {"none", "client", "other"}]
  /\ inForce \in [{"dl", "ul"} -> Nat]

-----------------------------------------------------------------------------
(* Start.                                                                  *)

Unreadable(kind) == [is |-> kind, has |-> Normalize(Defaults)]

(* load: what cannot be read, parsed or accepted leaves the defaults. *)
Loaded(f) ==
  IF f.is = "whole" /\ Valid(Normalize(f.has)) THEN Normalize(f.has)
  ELSE Normalize(Defaults)

NoJob == [at |-> "idle", new |-> Normalize(Defaults), alone |-> FALSE]

LimitOf(s, way) == IF way = "dl" THEN s.dl ELSE s.ul

(* buildRateLimiter: the client is given no limiter for a limit of 0. *)
BuiltLimiter(n) == IF n <= 0 THEN "none" ELSE "client"

(* NewApplication, as far as the settings go. *)
Start(f) ==
  /\ memory' = Loaded(f)
  /\ manager' = Loaded(f)
  /\ limiter' = [w \in {"dl", "ul"} |-> BuiltLimiter(LimitOf(Loaded(f), w))]
  /\ inForce' = [w \in {"dl", "ul"} |-> LimitOf(Loaded(f), w)]
  /\ job' = [u \in Updaters |-> NoJob]

Init ==
  /\ file = Unreadable("missing")
  /\ memory = Normalize(Defaults)
  /\ manager = Normalize(Defaults)
  /\ limiter = [w \in {"dl", "ul"} |-> BuiltLimiter(LimitOf(Normalize(Defaults), w))]
  /\ inForce = [w \in {"dl", "ul"} |-> LimitOf(Normalize(Defaults), w)]
  /\ job = [u \in Updaters |-> NoJob]

(* The process ends, at any moment, and is started again. *)
Restart == Start(file) /\ UNCHANGED file

-----------------------------------------------------------------------------
(* An update.                                                              *)

Busy(u) == job[u].at # "idle"

Goto(u, at) == job' = [job EXCEPT ![u].at = at]

Return(u) == job' = [job EXCEPT ![u] = NoJob]

Begun(u, s) ==
  job' = [v \in Updaters |->
            IF v = u THEN [at |-> "open", new |-> s,
                           alone |-> \A w \in Updaters \ {u} : ~Busy(w)]
            ELSE [job[v] EXCEPT !.alone = FALSE]]

(* Mutant: the settings are checked as normalized, and kept as sent. *)
UpdateSettingsAsSent(u, r) ==
  /\ ~Busy(u)
  /\ Valid(Normalize(r))
  /\ Begun(u, r)
  /\ UNCHANGED <<file, memory, manager, limiter, inForce>>

(* UpdateSettings: settings that are not accepted change nothing. *)
UpdateSettings(u, r) ==
  /\ ~Busy(u)
  /\ Valid(Normalize(r))
  /\ Begun(u, Normalize(r))
  /\ UNCHANGED <<file, memory, manager, limiter, inForce>>

(* os.WriteFile opens the file and empties it. *)
Truncate(u) ==
  /\ job[u].at = "open"
  /\ file' = Unreadable("blank")
  /\ Goto(u, "write")
  /\ UNCHANGED <<memory, manager, limiter, inForce>>

(***************************************************************************)
(* The text is written at the beginning of the file.  Where another update *)
(* has written since, the end of a longer text stays behind it.            *)
(***************************************************************************)
WriteDone(u) ==
  /\ job[u].at = "write"
  /\ LET mine == [is |-> "whole", has |-> job[u].new]
     IN  \/ file' = mine
         \/ /\ file.is # "blank" /\ file # mine
            /\ file' = Unreadable("torn")
  /\ Goto(u, "store")
  /\ UNCHANGED <<memory, manager, limiter, inForce>>

OpenFails(u) ==
  /\ job[u].at = "open"
  /\ Return(u)
  /\ UNCHANGED <<file, memory, manager, limiter, inForce>>

(* Mutant: the error of the write is only logged. *)
WriteFailsUnnoticed(u) ==
  /\ job[u].at = "write"
  /\ file' \in {file, Unreadable("torn")}
  /\ Goto(u, "store")
  /\ UNCHANGED <<memory, manager, limiter, inForce>>

WriteFails(u) ==
  /\ job[u].at = "write"
  /\ file' \in {file, Unreadable("torn")}
  /\ Return(u)
  /\ UNCHANGED <<memory, manager, limiter, inForce>>

StoreMemory(u) ==
  /\ job[u].at = "store"
  /\ memory' = job[u].new
  /\ Goto(u, "apply")
  /\ UNCHANGED <<file, manager, limiter, inForce>>

(* Mutant: a limit that changes gets a limiter with a full bucket. *)
ResetLimiterRebuilt(way, n) == IF n <= 0 THEN "none" ELSE "other"

(* resetRateLimiter: a new limiter is one the client does not know. *)
ResetLimiter(way, n) ==
  CASE n <= 0                           -> "none"
    [] n > 0 /\ limiter[way] = "none"   -> "other"
    [] n > 0 /\ limiter[way] # "none"   -> limiter[way]

(* ApplySettings: one section under the manager's mutex. *)
ApplySettings(u) ==
  /\ job[u].at = "apply"
  /\ manager' = job[u].new
  /\ limiter' = [w \in {"dl", "ul"} |-> ResetLimiter(w, LimitOf(job[u].new, w))]
  /\ inForce' = [w \in {"dl", "ul"} |->
                   IF limiter'[w] = "client" THEN LimitOf(job[u].new, w)
                   ELSE inForce[w]]
  /\ Return(u)
  /\ UNCHANGED <<file, memory>>

Next ==
  \/ \E u \in Updaters, r \in Requests : UpdateSettings(u, r)
  \/ \E u \in Updaters :
       \/ Truncate(u)
       \/ WriteDone(u)
       \/ OpenFails(u)
       \/ WriteFails(u)
       \/ StoreMemory(u)
       \/ ApplySettings(u)
  \/ Restart

Spec == Init /\ [][Next]_vars

-----------------------------------------------------------------------------
(* Properties.                                                             *)

(***************************************************************************)
(* Three copies are written by three steps and, after a failed, torn or    *)
(* overlapping update, may all be different (lines 48-61 of the service,   *)
(* ApplySettings).  One update that nothing overlaps repairs them all: when*)
(* it returns, the settings page, the manager and what a restart would     *)
(* load are the settings it answered with.                                 *)
(***************************************************************************)
LoneUpdateAgrees ==
  [][\A u \in Updaters :
       ApplySettings(u) /\ job[u].alone =>
         memory' = manager' /\ Loaded(file') = manager']_vars

(***************************************************************************)
(* What makes it so: an update that is still alone finds the file as it    *)
(* left it, and nobody else at work.                                       *)
(***************************************************************************)
LoneInv ==
  \A u \in Updaters :
    /\ job[u].at = "idle" => ~job[u].alone
    /\ job[u].alone =>
         /\ \A v \in Updaters \ {u} : ~Busy(v)
         /\ job[u].at = "write" => file.is = "blank"
         /\ job[u].at \in {"store", "apply"} => Loaded(file) = job[u].new
         /\ job[u].at = "apply" => memory = job[u].new

(***************************************************************************)
(* "settings take effect, never changed without knowing whether" (roadmap  *)
(* 334): the limiter given to the client at start is the only one it asks. *)
(* Because an upload limit is never 0 once normalized, every applied       *)
(* upload limit is in force; a download limit is so only while no limit of *)
(* 0 was applied since the start, which the default of 0 itself is (lines  *)
(* 155-158, 186-187, 1193-1204).                                           *)
(***************************************************************************)
LimitsInForce ==
  /\ limiter["ul"] = "client" /\ inForce["ul"] = manager.ul
  /\ limiter["dl"] = "client" => inForce["dl"] = manager.dl
=============================================================================
