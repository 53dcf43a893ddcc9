\* --debug-guest-stderr with a broken stderr: eprintln! panics in the worker.
SPECIFICATION Spec
CONSTANTS
  Calls = {c1}
  None = None
  Timeouts = {100}
  OutputMaxKb = 4
  WriteSizes = {4096}
  Steps = {50}
  Late = 0
  SetupMax = 50
  MaxThreads = 1
  DebugGuestStderr = TRUE
PROPERTIES
  TimeoutNotEarly
