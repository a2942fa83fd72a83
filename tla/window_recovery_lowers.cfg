SPECIFICATION SerialSpec
CONSTANTS
  Requests = {q1}
  Events = Events
  PieceLength = 1
  FileOffset = 0
  FileLength = 6
  PreheatHead = 1
  PreheatTail = 1
  DefaultPlayback = 1
  DefaultPrefetch = 1
  DefaultRetention = 1
  BoostWindow = 2
  MinReadahead = 1
  MaxReadahead = 1
  ReadaheadStep = 1
  DefaultReadahead = 1
  SeekGapFactor = 1
  DeprioritizeOld = TRUE
  MaxGeneration = 2

PROPERTY RecoveryNeverLowers
