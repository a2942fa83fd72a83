SPECIFICATION SystemSpec
CONSTANTS
  Requests <- MCRequests
  Defaults <- MCDefaults
  Updaters = {u1}
  MinUpload = 2
  DefaultMin = 2
  DefaultMax = 4
  DefaultPieces = 1
  FallbackTrackers <- MCFallback
  TrackerURLs <- MCTrackerURLs
  Magnets <- MCMagnets
  AnnounceURLs <- MCAnnounceURLs
  FoundTrackers <- MCFound
INVARIANT OnlyPublicTorrents
