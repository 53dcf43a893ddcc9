\* The three clocks: every phase of the ticker in steps of 50 ms, late ticks and
\* late wake-ups, a guest that spins, blocks, comes back or ends at any time.
\* 100 is a timeout of one tick. 3700 is on the tick grid and not punctual: 39
\* late ticks and the set-up use up the grace. 3750 is off the grid and just
\* punctual. What a guest writes is Sandbox_live's.
SPECIFICATION Spec
CONSTANTS
  Calls = {c1, c2}
  None = None
  Timeouts = {100, 3700, 3750}
  OutputMaxKb = 4
  WriteSizes = {}
  Steps = {50}
  Late = 50
  SetupMax = 50
  MaxThreads = 2
  DebugGuestStderr = FALSE
SYMMETRY Symmetry
INVARIANTS
  TypeOK
  DeadlineBeforeBudget
  OnlyTimeoutsLeaveAWorker
  NoForeignAnswer
PROPERTIES
  TimeoutNotEarly
