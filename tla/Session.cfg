\* Every kind of line, three in a row, with two failing writes, a guest that
\* answers, fails, overstays its timeout or never ends, and a kill at any point.
SPECIFICATION FairSpec
CONSTANTS
  shown = shown
  denied = denied
  unknown = unknown
  Probed = {shown, denied}
  Names = {shown, denied, unknown}
  Decision <- DecisionMC
  Outcomes = {"completed", "timeout", "guest_trap"}
  None = None
  MaxLines = 3
  MaxFaults = 2
INVARIANTS
  TypeOK
  OneReplyPerRequest
  OnlyVisibleToolsRun
  AnswersAreAudited
  SessionEndCounts
PROPERTIES
  RequestsEnd
