\* The process is killed while a guest runs: its call event is never written.
SPECIFICATION Spec
CONSTANTS
  shown = shown
  denied = denied
  unknown = unknown
  Probed = {shown, denied}
  Names = {shown, denied, unknown}
  Decision <- DecisionMC
  Outcomes = {"completed", "timeout", "guest_trap"}
  None = None
  MaxLines = 2
  MaxFaults = 0
INVARIANTS
  RunsAreAudited
