SPECIFICATION Spec
CONSTANTS
  Requests = {q1}
  Events = Events
  PieceLength = 2
  FileOffset = 3
  FileLength = 5
  PreheatHead = 1
  PreheatTail = 1
  DefaultPlayback = 1
  DefaultPrefetch = 1
  DefaultRetention = 1
  BoostWindow = 2
  MinReadahead = 1
  MaxReadahead = 2
  ReadaheadStep = 1
  DefaultReadahead = 1
  SeekGapFactor = 2
  DeprioritizeOld = TRUE
  MaxGeneration = 2
PROPERTY RequestedPieceReady
