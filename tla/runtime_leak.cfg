SPECIFICATION Spec
CONSTANTS
  Runtimes = {r1, r2}
  NoRuntime = NoRuntime
  Callers = {c1}
  Streams = {}
  SaveMayFail = FALSE
INVARIANT NoLeak
