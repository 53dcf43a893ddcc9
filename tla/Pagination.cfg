\* Two processes in a row; the first may have pagination disabled.
SPECIFICATION FairSpec
CONSTANTS
  a = a
  b = b
  c = c
  d = d
  Tools <- ToolsMC
  First <- FirstMC
  Later <- Paginated
  OffsetRange = 4
  MaxBoots = 2
INVARIANTS
  TypeOK
  PagesContinue
  WalkIsWhole
  PagesAreFiltered
  OwnCursorsWork
PROPERTIES
  WalksEnd
