SPECIFICATION MCFairSpec
CONSTANTS
  Parts = {"streams", "cancelled", "resumed"}
  MaxCalls = 2
  Runtimes = {r1, r2}
  NoRuntime = NoRuntime
  Callers = {c1}
  Streams = {s1, s2}
  SaveMayFail = FALSE
PROPERTIES RecordSettles GoroutinesEnd
CHECK_DEADLOCK FALSE
