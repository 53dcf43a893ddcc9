\* Guests that block for ever, come back late or end; setup and the echo of
\* the guest's stderr may block too, and the OS grants one worker thread. They
\* write in pieces of 4 KiB: up to output_max_kb, to the pipe's capacity, beyond.
SPECIFICATION FairSpec
CONSTANTS
  Calls = {c1, c2}
  None = None
  Timeouts = {100}
  OutputMaxKb = 4
  WriteSizes = {4096}
  Steps = {100}
  Late = 0
  SetupMax = 3000
  MaxThreads = 1
  DebugGuestStderr = TRUE
PROPERTIES
  NoTruncatedCompletion
  EveryCallAnswered
  ReturningGuestsEnd
  CrashNeedsAbandonedWorkers
  ImplementsFairToolCall
