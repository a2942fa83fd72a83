-------------------------- MODULE MetadataSearchProofs --------------------------
(***************************************************************************)
(* Proofs about MetadataSearch: for every magnet, every list of trackers   *)
(* and all settings, whenever they are applied.                            *)
(***************************************************************************)
EXTENDS MetadataSearch, SettingsProofs, FiniteSetTheorems

sysVars == <<vars, searchVars>>

(* What is not given yet is finite and can be counted. *)
LEMMA MissingFinite ==
  ASSUME SearchTypeOK, NEW S
  PROVE  /\ Missing(S) \subseteq AnnounceURLs
         /\ IsFiniteSet(Missing(S)) /\ Cardinality(Missing(S)) \in Nat
         /\ IsFiniteSet(search.seen) /\ Cardinality(search.seen) \in Nat
         /\ Missing(S) \cap search.seen = {}
<1>1. Missing(S) \subseteq AnnounceURLs /\ search.seen \subseteq AnnounceURLs
      /\ Missing(S) \cap search.seen = {}
  BY DEF Missing, SearchTypeOK, Searches
<1>2. IsFiniteSet(Missing(S)) /\ IsFiniteSet(search.seen)
  BY <1>1, TrackersFinite, FS_Subset
<1> QED
  BY <1>1, <1>2, FS_CardinalityType

(* Each place adds to the set what it adds to the count. *)
LEMMA SeenGrows ==
  ASSUME SearchTypeOK, NEW S
  PROVE  Cardinality(search.seen \cup Missing(S))
           = Cardinality(search.seen) + Cardinality(Missing(S))
<1> DEFINE A == search.seen
           B == Missing(S)
<1>1. IsFiniteSet(A) /\ IsFiniteSet(B) /\ A \cap B = {}
      /\ Cardinality(A) \in Nat /\ Cardinality(B) \in Nat
  BY MissingFinite
<1> HIDE DEF A, B
<1>2. Cardinality(A \cup B) = Cardinality(A) + Cardinality(B) - Cardinality(A \cap B)
  BY <1>1, FS_Union
<1>3. Cardinality(A \cap B) = 0
  BY <1>1, FS_EmptySet
<1>4. Cardinality(A \cup B) = Cardinality(A) + Cardinality(B)
  BY <1>1, <1>2, <1>3
<1> QED
  BY <1>4 DEF A, B

LEMMA CountedFields ==
  ASSUME SearchTypeOK, NEW S
  PROVE  /\ Counted(S) \in Searches
         /\ Counted(S).at = search.at /\ Counted(S).retries = search.retries
         /\ Counted(S).seen = search.seen \cup Missing(S)
         /\ Counted(S).count = search.count + Cardinality(Missing(S))
<1> DEFINE grown == search.seen \cup Missing(S)
           n == search.count + Cardinality(Missing(S))
<1>1. search \in Searches
  BY DEF SearchTypeOK
<1>2. grown \in SUBSET AnnounceURLs /\ n \in Nat
  BY <1>1, MissingFinite DEF Searches
<1>3. Counted(S) = [search EXCEPT !.seen = grown, !.count = n, !.trackers = {},
                                  !.append = FALSE]
  BY DEF Counted
<1> HIDE DEF grown, n
<1>4. /\ Counted(S) \in Searches
      /\ Counted(S).at = search.at /\ Counted(S).retries = search.retries
      /\ Counted(S).seen = grown /\ Counted(S).count = n
  BY <1>1, <1>2, <1>3 DEF Searches
<1> QED
  BY <1>4 DEF grown, n

-----------------------------------------------------------------------------
(* Types.                                                                  *)

LEMMA SettingsGoOn == [SystemNext]_sysVars => [Next]_vars
BY DEF SystemNext, Next, sysVars, SearchRestart

LEMMA CaptureType ==
  ASSUME TypeOK, SearchTypeOK, NEW at \in {"append", "retry", "select"}, Capture(at)
  PROVE  search' \in Searches
BY DEF Capture, TypeOK, SearchTypeOK, Searches, Usable, RawSettings

LEMMA GivenType ==
  ASSUME SearchTypeOK, NEW S \in SUBSET STRING
  PROVE  Given(S) \in [info : BOOLEAN, trackers : SUBSET STRING]
BY DEF Given, Missing, SearchTypeOK

LEMMA SearchInitType == SearchInit => SearchTypeOK
BY FS_EmptySet DEF SearchInit, SearchTypeOK, NoTorrent, NoSearch, Searches

LEMMA SearchNextType ==
  TypeOK /\ SearchTypeOK /\ [SystemNext]_sysVars => SearchTypeOK'
<1> SUFFICES ASSUME TypeOK, SearchTypeOK, [SystemNext]_sysVars PROVE SearchTypeOK'
  OBVIOUS
<1>0. search.trackers \in SUBSET STRING /\ magnet.own \in SUBSET STRING
  BY MagnetsType DEF SearchTypeOK, Searches
<1>1. CASE UNCHANGED searchVars
  BY <1>1 DEF searchVars, SearchTypeOK
<1>2. CASE SearchRestart
  BY <1>2 DEF SearchRestart, SearchTypeOK, NoTorrent, NoSearch, Searches
<1>3. CASE Bootstrap
  BY <1>0, <1>3, CaptureType DEF Bootstrap, SearchTypeOK
<1>4. CASE BootstrapAppends
  BY <1>0, <1>4, GivenType, CountedFields DEF BootstrapAppends, SearchTypeOK, Searches
<1>5. CASE LookInVain \/ Cancelled \/ FallbackFails \/ CancelSearch \/ MetadataArrives
  <2>1. CASE MetadataArrives
    BY <2>1 DEF MetadataArrives, SearchTypeOK
  <2>2. CASE LookInVain \/ Cancelled \/ FallbackFails \/ CancelSearch
    BY <2>2 DEF LookInVain, Cancelled, FallbackFails, CancelSearch, SearchTypeOK, Searches
  <2> QED
    BY <1>5, <2>1, <2>2
<1>6. CASE Retry
  BY <1>6, CaptureType DEF Retry, SearchTypeOK
<1>7. CASE RetryAppends
  <2> DEFINE n == IF search.retries = 3 THEN 1 ELSE search.retries + 1
  <2>1. n \in 0..3
    BY DEF SearchTypeOK, Searches
  <2>2. search' \in Searches
    BY <1>7, <2>1, CountedFields DEF RetryAppends, Searches
  <2> QED
    BY <1>0, <1>7, <2>2, GivenType DEF RetryAppends, SearchTypeOK
<1>8. ASSUME NEW found \in FoundTrackers, FallbackMerges(found)
      PROVE  SearchTypeOK'
  <2>1. found \in SUBSET STRING
    BY FoundType
  <2>2. search' \in Searches
    BY <1>8, <2>1 DEF FallbackMerges, SearchTypeOK, Searches
  <2>3. torrent' \in [info : BOOLEAN, trackers : SUBSET STRING]
    <3>1. PICK info \in {torrent.info, TRUE} :
            torrent' = [info |-> info, trackers |-> torrent.trackers \cup found]
      BY <1>8 DEF FallbackMerges
    <3>2. torrent.info \in BOOLEAN /\ torrent.trackers \cup found \in SUBSET STRING
      BY <2>1 DEF SearchTypeOK
    <3>3. info \in BOOLEAN
      BY <3>2
    <3> QED
      BY <3>1, <3>2, <3>3
  <2> QED
    BY <1>8, <2>2, <2>3 DEF FallbackMerges, SearchTypeOK
<1>9. CASE FallbackAppends
  BY <1>0, <1>9, GivenType, CountedFields DEF FallbackAppends, SearchTypeOK, Searches
<1>10. CASE MetadataReady
  <2>1. CASE Capture("select")
    BY <1>10, <2>1, CaptureType DEF MetadataReady, SearchTypeOK
  <2>2. CASE search' = [search EXCEPT !.at = "end"]
    BY <1>10, <2>2 DEF MetadataReady, SearchTypeOK, Searches
  <2> QED
    BY <1>10, <2>1, <2>2 DEF MetadataReady
<1>11. CASE SelectAppends
  <2> DEFINE new == IF MayAppend THEN search.trackers ELSE {}
             n == IF MayAppend THEN Cardinality(Missing(new)) ELSE search.count
  <2>1. new \in SUBSET STRING /\ n \in Nat
    BY <1>0, MissingFinite DEF SearchTypeOK, Searches
  <2>2. torrent' = Given(new)
        /\ search' = [Counted(new) EXCEPT !.at = "end", !.publicity = Publicity, !.count = n]
    BY <1>11 DEF SelectAppends
  <2> HIDE DEF new, n
  <2>3. search' \in Searches
    BY <2>1, <2>2, CountedFields DEF Searches, Publicity
  <2> QED
    BY <1>11, <2>1, <2>2, <2>3, GivenType DEF SelectAppends, SearchTypeOK
<1> QED
  BY <1>1, <1>2, <1>3, <1>4, <1>5, <1>6, <1>7, <1>8, <1>9, <1>10, <1>11
     DEF SystemNext, SearchStep, SearchProceeds, sysVars

(***************************************************************************)
(* Type correctness of one session's search together with the settings.    *)
(***************************************************************************)
THEOREM SearchTypeCorrect == SystemSpec => [](TypeOK /\ SearchTypeOK)
<1>1. SystemInit => TypeOK /\ SearchTypeOK
  BY InitTypeOK, SearchInitType DEF SystemInit
<1>2. TypeOK /\ SearchTypeOK /\ [SystemNext]_sysVars => TypeOK' /\ SearchTypeOK'
  BY SettingsGoOn, NextTypeOK, SearchNextType
<1> QED
  BY <1>1, <1>2, PTL DEF SystemSpec, sysVars

-----------------------------------------------------------------------------
(* The count.                                                              *)

LEMMA CountsInit == SystemInit => CountsGiven
BY FS_EmptySet DEF SystemInit, SearchInit, NoSearch, CountsGiven

LEMMA CountsNext ==
  SearchTypeOK /\ CountsGiven /\ [SystemNext]_sysVars => CountsGiven'
<1> SUFFICES ASSUME SearchTypeOK, CountsGiven, [SystemNext]_sysVars PROVE CountsGiven'
  OBVIOUS
<1> USE DEF CountsGiven
<1>1. CASE search'.seen = search.seen /\ search'.count = search.count
  BY <1>1
<1>2. CASE SearchRestart
  BY <1>2, FS_EmptySet DEF SearchRestart, NoSearch
<1>3. ASSUME NEW S,
             search'.seen = Counted(S).seen, search'.count = Counted(S).count
      PROVE  CountsGiven'
  BY <1>3, CountedFields, SeenGrows
<1>4. CASE SelectAppends
  <2> DEFINE new == IF MayAppend THEN search.trackers ELSE {}
             n == IF MayAppend THEN Cardinality(Missing(new)) ELSE search.count
  <2>1. search' = [Counted(new) EXCEPT !.at = "end", !.publicity = Publicity, !.count = n]
    BY <1>4 DEF SelectAppends
  <2>2. Counted(new) \in Searches
    BY CountedFields
  <2> HIDE DEF new, n
  <2>3. search'.seen = Counted(new).seen /\ search'.count = n
    BY <2>1, <2>2 DEF Searches
  <2>4. CASE MayAppend
    <3>1. search.seen = {}
      BY <2>4, MissingFinite, FS_EmptySet DEF MayAppend
    <3>2. search'.seen = Missing(new) /\ n = Cardinality(Missing(new))
      BY <2>3, <2>4, <3>1, CountedFields DEF n
    <3> QED
      BY <2>3, <3>2
  <2>5. CASE ~MayAppend
    <3>1. Missing(new) = {} /\ n = search.count
      BY <2>5 DEF new, n, Missing
    <3>2. search'.seen = search.seen
      BY <2>3, <3>1, CountedFields
    <3> QED
      BY <2>3, <3>1, <3>2
  <2> QED
    BY <2>4, <2>5
<1>5. CASE UNCHANGED searchVars
  BY <1>1, <1>5 DEF searchVars
<1>6. CASE Bootstrap \/ Retry \/ MetadataReady
  BY <1>1, <1>6 DEF Bootstrap, Retry, MetadataReady, Capture, SearchTypeOK, Searches
<1>7. CASE LookInVain \/ Cancelled \/ FallbackFails \/ CancelSearch \/ MetadataArrives
  BY <1>1, <1>7 DEF LookInVain, Cancelled, FallbackFails, CancelSearch, MetadataArrives,
                    SearchTypeOK, Searches
<1>8. ASSUME NEW found \in FoundTrackers, FallbackMerges(found)
      PROVE  CountsGiven'
  BY <1>1, <1>8 DEF FallbackMerges, SearchTypeOK, Searches
<1>9. CASE BootstrapAppends
  <2> DEFINE new == IF magnet.own = {} THEN search.trackers ELSE {}
  <2>1. search' = [Counted(new) EXCEPT !.at = "look"]
    BY <1>9 DEF BootstrapAppends
  <2> HIDE DEF new
  <2> QED
    BY <1>3, <2>1, CountedFields DEF Searches
<1>10. CASE RetryAppends
  <2>1. PICK n, at : search' = [Counted(search.trackers) EXCEPT !.retries = n, !.at = at]
    BY <1>10 DEF RetryAppends
  <2> QED
    BY <1>3, <2>1, CountedFields DEF Searches
<1>11. CASE FallbackAppends
  BY <1>3, <1>11, CountedFields DEF FallbackAppends, Searches
<1> QED
  BY <1>2, <1>4, <1>5, <1>6, <1>7, <1>8, <1>9, <1>10, <1>11
     DEF SystemNext, SearchStep, SearchProceeds, sysVars

(***************************************************************************)
(* The count a session shows is the number of trackers it was given.       *)
(***************************************************************************)
THEOREM CountIsOfGiven == SystemSpec => []CountsGiven
<1>1. SearchTypeOK /\ TypeOK /\ CountsGiven /\ [SystemNext]_sysVars => CountsGiven'
  BY CountsNext
<1> QED
  BY <1>1, CountsInit, SearchTypeCorrect, PTL DEF SystemSpec, sysVars

-----------------------------------------------------------------------------
(* Private torrents.                                                       *)

(* Before the first retry no .torrent file is looked for. *)
KeepsOwn ==
  /\ PromptPrivateKeepsOwn
  /\ search.retries = 0 => search.at \notin {"fallback", "merged"}

LEMMA KeepsOwnInit == SystemInit => KeepsOwn
BY DEF SystemInit, SearchInit, NoSearch, NoTorrent, KeepsOwn, PromptPrivateKeepsOwn

LEMMA GivenNothing ==
  ASSUME SearchTypeOK
  PROVE  Given({}) = torrent
BY DEF Given, Missing, SearchTypeOK

LEMMA KeepsOwnNext ==
  SearchTypeOK /\ KeepsOwn /\ [SystemNext]_sysVars => KeepsOwn'
<1> SUFFICES ASSUME SearchTypeOK, KeepsOwn, [SystemNext]_sysVars PROVE KeepsOwn'
  OBVIOUS
<1> USE DEF KeepsOwn, PromptPrivateKeepsOwn
<1>1. CASE UNCHANGED searchVars
  BY <1>1 DEF searchVars
<1>2. CASE SearchRestart
  BY <1>2 DEF SearchRestart, NoTorrent, NoSearch
<1>3. CASE Bootstrap
  BY <1>3 DEF Bootstrap, Capture, SearchTypeOK, Searches
<1>4. CASE BootstrapAppends
  <2> DEFINE new == IF magnet.own = {} THEN search.trackers ELSE {}
  <2>1. /\ search' = [Counted(new) EXCEPT !.at = "look"]
        /\ torrent' = Given(new) /\ magnet' = magnet
    BY <1>4 DEF BootstrapAppends
  <2>2. search'.at = "look" /\ search'.retries = search.retries
    BY <2>1, CountedFields DEF Searches
  <2>3. magnet.own # {} => torrent' = torrent
    BY <2>1, GivenNothing
  <2> QED
    BY <2>1, <2>2, <2>3
<1>5. CASE LookInVain \/ Cancelled \/ CancelSearch \/ MetadataArrives
  BY <1>5 DEF LookInVain, Cancelled, CancelSearch, MetadataArrives, SearchTypeOK, Searches
<1>6. CASE Retry \/ MetadataReady
  BY <1>6 DEF Retry, MetadataReady, Capture, SearchTypeOK, Searches
<1>7. CASE RetryAppends
  <2> DEFINE n == IF search.retries = 3 THEN 1 ELSE search.retries + 1
             at == IF n = 3 THEN "fallback" ELSE "look"
  <2>1. n # 0
    BY DEF SearchTypeOK, Searches
  <2>2. search' = [Counted(search.trackers) EXCEPT !.retries = n, !.at = at]
    BY <1>7 DEF RetryAppends
  <2> HIDE DEF n, at
  <2>3. search'.retries = n
    BY <2>2, CountedFields DEF Searches
  <2> QED
    BY <2>1, <2>3
<1>8. ASSUME NEW found \in FoundTrackers, FallbackMerges(found)
      PROVE  KeepsOwn'
  BY <1>8 DEF FallbackMerges, SearchTypeOK, Searches
<1>9. CASE FallbackAppends
  <2>1. search'.retries = search.retries /\ search.retries # 0
    BY <1>9, CountedFields DEF FallbackAppends, Searches
  <2> QED
    BY <2>1
<1>10. CASE FallbackFails
  BY <1>10 DEF FallbackFails, SearchTypeOK, Searches
<1>11. CASE SelectAppends
  <2> DEFINE new == IF MayAppend THEN search.trackers ELSE {}
             n == IF MayAppend THEN Cardinality(Missing(new)) ELSE search.count
  <2>1. /\ search' = [Counted(new) EXCEPT !.at = "end", !.publicity = Publicity, !.count = n]
        /\ torrent' = Given(new) /\ magnet' = magnet
    BY <1>11 DEF SelectAppends
  <2>2. magnet.private /\ magnet.own # {} => torrent' = torrent
    BY <2>1, GivenNothing DEF MayAppend, Publicity
  <2> HIDE DEF new, n
  <2>3. search'.at = "end" /\ search'.retries = search.retries
    BY <2>1, CountedFields DEF Searches
  <2> QED
    BY <2>1, <2>2, <2>3
<1> QED
  BY <1>1, <1>2, <1>3, <1>4, <1>5, <1>6, <1>7, <1>8, <1>9, <1>10, <1>11
     DEF SystemNext, SearchStep, SearchProceeds, sysVars

(***************************************************************************)
(* A private torrent with trackers of its own keeps to them as long as no  *)
(* retry was needed, whatever is applied to the settings meanwhile.        *)
(***************************************************************************)
THEOREM PromptPrivate == SystemSpec => []PromptPrivateKeepsOwn
<1>1. SearchTypeOK /\ TypeOK /\ KeepsOwn /\ [SystemNext]_sysVars => KeepsOwn'
  BY KeepsOwnNext
<1>2. KeepsOwn => PromptPrivateKeepsOwn
  BY DEF KeepsOwn
<1> QED
  BY <1>1, <1>2, KeepsOwnInit, SearchTypeCorrect, PTL DEF SystemSpec, sysVars
=============================================================================
