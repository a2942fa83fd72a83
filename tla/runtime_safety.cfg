SPECIFICATION MCSpec
CONSTANTS
  Parts = {"map", "record"}
  MaxCalls = 2
  Runtimes = {r1, r2}
  NoRuntime = NoRuntime
  Callers = {c1, c2}
  Streams = {s1}
  SaveMayFail = TRUE
SYMMETRY Interchangeable
VIEW ToldApart
INVARIANTS TypeOK RecordCoherent RegisteredIsLive NeverOvercounts NoLeakUndisturbed
CHECK_DEADLOCK FALSE
