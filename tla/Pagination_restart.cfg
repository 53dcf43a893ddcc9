\* A process with pages is restarted without --page-size.
SPECIFICATION Spec
CONSTANTS
  a = a
  b = b
  c = c
  d = d
  Tools <- ToolsMC
  First <- Paginated
  Later <- Unpaginated
  OffsetRange = 4
  MaxBoots = 2
INVARIANTS
  StaleCursorsRefused
