----------------------------- MODULE MetadataSearch -----------------------------
(***************************************************************************)
(* The trackers of one session (torrent_runtime_manager.go): those of its  *)
(* magnet, and those the program gives its torrent while it waits for the  *)
(* metadata - at the bootstrap, at each retry, with a .torrent file found  *)
(* elsewhere, and when the metadata is there.  Which trackers, and whether,*)
(* depends on the manager's settings, which change meanwhile: the module   *)
(* composes one runtime with Settings.                                     *)
(***************************************************************************)
EXTENDS Settings, FiniteSets

CONSTANTS Magnets,       \* bound: the magnets tried, see MagnetsType
          AnnounceURLs,  \* the trackers normalizeTrackerURLs keeps
          FoundTrackers  \* bound: the trackers of the .torrent files found

(* A magnet names a torrent, private or not, and may bring trackers. *)
ASSUME MagnetsType ==
  Magnets \subseteq [private : BOOLEAN, own : SUBSET STRING]
ASSUME FoundType == FoundTrackers \subseteq SUBSET STRING
ASSUME TrackersFinite == IsFiniteSet(AnnounceURLs)

VARIABLES
  magnet,    \* the magnet of the session
  torrent,   \* of the client's torrent: whether Info() is there, its trackers
  search     \* the runtime's fields and the program counter of its goroutine

searchVars == <<magnet, torrent, search>>

Searches ==
  [at : {"start", "append", "look", "wait", "retry", "fallback", "merged",
         "select", "end"},
   cancelled : BOOLEAN,
   seen : SUBSET AnnounceURLs,     \* appendedTrackerSet
   count : Nat,                    \* appendedTrackerCount
   publicity : {"unknown", "private", "public"},
   trackers : SUBSET STRING, append : BOOLEAN,   \* of the settings captured
   retries : 0..3]                 \* retryCount, 0 or its remainder by 3 from 1 to 3

SearchTypeOK ==
  /\ magnet \in Magnets
  /\ torrent \in [info : BOOLEAN, trackers : SUBSET STRING]
  /\ search \in Searches

NoSearch == [at |-> "start", cancelled |-> FALSE, seen |-> {}, count |-> 0,
             publicity |-> "unknown", trackers |-> {}, append |-> FALSE, retries |-> 0]

NoTorrent == [info |-> FALSE, trackers |-> {}]

SearchInit ==
  /\ magnet \in Magnets
  /\ torrent = NoTorrent
  /\ search = NoSearch

(* currentSettings, under the manager's mutex, for the section that follows. *)
Capture(at) ==
  search' = [search EXCEPT !.at = at, !.trackers = manager.trackers, !.append = manager.append]

(* Mutant: the trackers are given without a look at their host. *)
MissingUnparsed(trackers) == trackers \ search.seen

(***************************************************************************)
(* appendMissingPublicTrackers: what the runtime has not been given yet,   *)
(* whether or not the torrent has it already.                              *)
(***************************************************************************)
Missing(trackers) == (trackers \cap AnnounceURLs) \ search.seen

Given(trackers) == [torrent EXCEPT !.trackers = @ \cup Missing(trackers)]

Counted(trackers) ==
  [search EXCEPT !.seen = @ \cup Missing(trackers),
                 !.count = @ + Cardinality(Missing(trackers)),
                 !.trackers = {}, !.append = FALSE]

(* AddMagnet, and the fields of the runtime. *)
Bootstrap ==
  /\ search.at = "start"
  /\ torrent' = [torrent EXCEPT !.trackers = magnet.own]
  /\ Capture("append")
  /\ UNCHANGED magnet

(* Mutant: trackers are given at once, whatever the magnet brings. *)
BootstrapAppendsAlways ==
  /\ search.at = "append"
  /\ torrent' = Given(search.trackers)
  /\ search' = [Counted(search.trackers) EXCEPT !.at = "look"]
  /\ UNCHANGED magnet

(* Nothing is known of the torrent yet: it goes by its own trackers. *)
BootstrapAppends ==
  /\ search.at = "append"
  /\ LET new == IF magnet.own = {} THEN search.trackers ELSE {}
     IN  torrent' = Given(new) /\ search' = [Counted(new) EXCEPT !.at = "look"]
  /\ UNCHANGED magnet

-----------------------------------------------------------------------------
(* waitForMetadata.                                                        *)

(* Peers provide the metadata, at any time. *)
MetadataArrives ==
  /\ search.at # "start"
  /\ ~torrent.info
  /\ torrent' = [torrent EXCEPT !.info = TRUE]
  /\ UNCHANGED <<magnet, search>>

LookInVain ==
  /\ search.at = "look" /\ ~torrent.info
  /\ search' = [search EXCEPT !.at = "wait"]
  /\ UNCHANGED <<magnet, torrent>>

Cancelled ==
  /\ search.at = "wait" /\ search.cancelled
  /\ search' = [search EXCEPT !.at = "end"]
  /\ UNCHANGED <<magnet, torrent>>

(* The ticker. *)
Retry ==
  /\ search.at = "wait"
  /\ Capture("retry")
  /\ UNCHANGED <<magnet, torrent>>

(* Mutant: a runtime that was given trackers is not given others. *)
RetryAppendsOnce ==
  /\ search.at = "retry"
  /\ LET n == IF search.retries = 3 THEN 1 ELSE search.retries + 1
         new == IF search.count = 0 THEN search.trackers ELSE {}
     IN  /\ search' = [Counted(new) EXCEPT
                         !.retries = n, !.at = IF n = 3 THEN "fallback" ELSE "look"]
         /\ torrent' = Given(new)
  /\ UNCHANGED magnet

(* Every third retry also looks for a .torrent file. *)
RetryAppends ==
  /\ search.at = "retry"
  /\ LET n == IF search.retries = 3 THEN 1 ELSE search.retries + 1
     IN  search' = [Counted(search.trackers) EXCEPT
                      !.retries = n, !.at = IF n = 3 THEN "fallback" ELSE "look"]
  /\ torrent' = Given(search.trackers)
  /\ UNCHANGED magnet

(* No session, no hash, or no source that answers before it is cancelled. *)
FallbackFails ==
  /\ search.at = "fallback"
  /\ search' = [search EXCEPT !.at = "look"]
  /\ UNCHANGED <<magnet, torrent>>

(* MergeSpec brings the trackers of the file and, if it likes it, its info. *)
FallbackMerges(found) ==
  /\ search.at = "fallback"
  /\ search' = [search EXCEPT !.at = "merged", !.trackers = found]
  /\ \E info \in {torrent.info, TRUE} :
       torrent' = [info |-> info, trackers |-> torrent.trackers \cup found]
  /\ UNCHANGED magnet

FallbackAppends ==
  /\ search.at = "merged"
  /\ torrent' = Given(search.trackers)
  /\ search' = [Counted(search.trackers) EXCEPT !.at = "look"]
  /\ UNCHANGED magnet

(* The context is not looked at once the metadata is there. *)
MetadataReady ==
  /\ search.at = "look" /\ torrent.info
  /\ \/ Capture("select")
     \/ search' = [search EXCEPT !.at = "end"]     \* no playable file: failSession
  /\ UNCHANGED <<magnet, torrent>>

Publicity == IF magnet.private THEN "private" ELSE "public"

(* Mutant: what was given before is not looked at. *)
MayAppendAgain == magnet.own = {} \/ (search.append /\ Publicity = "public")

MayAppend ==
  /\ search.count = 0
  /\ magnet.own = {} \/ (search.append /\ Publicity = "public")

(* The count is set here, where the other places add to it. *)
SelectAppends ==
  /\ search.at = "select"
  /\ LET new == IF MayAppend THEN search.trackers ELSE {}
         n == IF MayAppend THEN Cardinality(Missing(new)) ELSE search.count
     IN  /\ torrent' = Given(new)
         /\ search' = [Counted(new) EXCEPT !.at = "end", !.publicity = Publicity,
                                           !.count = n]
  /\ UNCHANGED magnet

(* stopSession. *)
CancelSearch ==
  /\ search.at \notin {"start", "append"} /\ ~search.cancelled
  /\ search' = [search EXCEPT !.cancelled = TRUE]
  /\ UNCHANGED <<magnet, torrent>>

SearchProceeds ==
  \/ Bootstrap \/ BootstrapAppends
  \/ LookInVain
  \/ Retry \/ RetryAppends
  \/ FallbackFails \/ (\E found \in FoundTrackers : FallbackMerges(found))
  \/ FallbackAppends
  \/ MetadataReady \/ SelectAppends

SearchStep == SearchProceeds \/ MetadataArrives \/ Cancelled \/ CancelSearch

(* The program is started again and bootstraps the session again. *)
SearchRestart == torrent' = NoTorrent /\ search' = NoSearch /\ UNCHANGED magnet

SystemInit == Init /\ SearchInit

SystemNext ==
  \/ \E u \in Updaters, r \in Requests : UpdateSettings(u, r) /\ UNCHANGED searchVars
  \/ \E u \in Updaters :
       /\ \/ Truncate(u) \/ WriteDone(u) \/ OpenFails(u) \/ WriteFails(u)
          \/ StoreMemory(u) \/ ApplySettings(u)
       /\ UNCHANGED searchVars
  \/ Restart /\ SearchRestart
  \/ SearchStep /\ UNCHANGED vars

SystemSpec == SystemInit /\ [][SystemNext]_<<vars, searchVars>>

(***************************************************************************)
(* The goroutine runs, its ticker ticks and its fetches have timeouts.     *)
(* Nobody has to change the settings, and no metadata has to arrive.       *)
(***************************************************************************)
FairSystemSpec == SystemSpec /\ WF_<<vars, searchVars>>(SearchProceeds /\ UNCHANGED vars)

-----------------------------------------------------------------------------
(* Properties.                                                             *)

(***************************************************************************)
(* Four places give trackers and keep the count the session shows; three   *)
(* add to it and the last sets it (lines 258, 338, 397, 1729).  The count  *)
(* is the number of trackers the program gave, whatever the settings were  *)
(* at each, because the last only acts when nothing was given.             *)
(***************************************************************************)
CountsGiven == search.count = Cardinality(search.seen)

(***************************************************************************)
(* A private torrent whose magnet brings trackers keeps to them when its   *)
(* metadata comes before the first retry, whatever the settings are and    *)
(* become (lines 257, 396).                                                *)
(***************************************************************************)
PromptPrivateKeepsOwn ==
  magnet.private /\ magnet.own # {} /\ search.retries = 0 =>
    torrent.trackers \subseteq magnet.own

(***************************************************************************)
(* "only appended for public magnets / torrents that are not private" (the *)
(* settings page, lines 104 and 114): a private torrent whose magnet brings*)
(* trackers is not given those of the settings.                            *)
(***************************************************************************)
SettingsTrackers == UNION {Normalize(r).trackers : r \in Requests \cup {Defaults}}

OnlyPublicTorrents ==
  magnet.private /\ magnet.own # {} =>
    search.seen \cap SettingsTrackers \subseteq magnet.own

(***************************************************************************)
(* A tracker added to the settings, and left there, is given to a session  *)
(* that already waits for its metadata (lines 335-337): no restart and no  *)
(* resume is needed.                                                       *)
(***************************************************************************)
Searching(t) ==
  /\ search.at \in {"look", "wait", "retry", "fallback", "merged"}
  /\ ~torrent.info
  /\ ~search.cancelled
  /\ t \in manager.trackers

SettingsReachSearch ==
  \A t \in AnnounceURLs : <>[]Searching(t) => <>(t \in torrent.trackers)
=============================================================================
