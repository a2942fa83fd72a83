---------------------------- MODULE MCMetadataSearch ----------------------------
(***************************************************************************)
(* Instances of MetadataSearch, and so of Settings, for TLC.               *)
(***************************************************************************)
EXTENDS MetadataSearch, TLC

(***************************************************************************)
(* Bounds: the default, with no tracker that can be used; one request that *)
(* limits the download and leaves every other size to normalizeSettings,   *)
(* one that goes back to the default, and one that is refused.             *)
(***************************************************************************)
MCDefaults ==
  [dirs |-> TRUE, proxy |-> "off", dl |-> 0, ul |-> 2, min |-> 2, max |-> 4,
   pieces |-> 1, trackers |-> {"junk"}, append |-> TRUE]

Limited ==
  [dirs |-> TRUE, proxy |-> "on", dl |-> 3, ul |-> 0, min |-> 6, max |-> 3,
   pieces |-> 0, trackers |-> {"added", "junk"}, append |-> FALSE]

MCRequests == {MCDefaults, Limited, [Limited EXCEPT !.ul = 1]}

(***************************************************************************)
(* Bound: updates overlap only while no session is started.  What they do  *)
(* to the copies is checked there and stays; for a session, only the order *)
(* of ApplySettings matters, which one updater gives as well as two.       *)
(***************************************************************************)
First == CHOOSE u \in Updaters : TRUE

OverlapsBefore ==
  search.at = "start" \/ \A u \in Updaters \ {First} : ~Busy(u)

MCNext == SystemNext /\ OverlapsBefore'

MCSpec ==
  /\ SystemInit /\ [][MCNext]_<<vars, searchVars>>
  /\ WF_<<vars, searchVars>>(SearchProceeds /\ UNCHANGED vars)

MCMagnets ==
  { [private |-> TRUE, own |-> {"own"}], [private |-> FALSE, own |-> {"own"}],
    [private |-> FALSE, own |-> {}] }

(* A .torrent file with the magnet's tracker, one that lists no others. *)
MCFound == { {"own", "found"} }

MCFallback == {"public", "nohost"}
MCTrackerURLs == {"public", "added", "own", "found", "nohost"}
MCAnnounceURLs == {"public", "added", "own", "found"}
=============================================================================
