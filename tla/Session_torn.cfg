\* A write to the audit file stops half way, the next one succeeds.
SPECIFICATION Spec
CONSTANTS
  shown = shown
  denied = denied
  unknown = unknown
  Probed = {shown, denied}
  Names = {shown, denied, unknown}
  Decision <- DecisionMC
  Outcomes = {"completed", "timeout", "guest_trap"}
  None = None
  MaxLines = 1
  MaxFaults = 1
INVARIANTS
  OneEventPerLine
