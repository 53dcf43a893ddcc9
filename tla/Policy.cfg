\* Some two thousand files, their entries read in any order, and host directories
\* that change twice: before the check, during it, or before a call.
SPECIFICATION CheckSpec
CONSTANTS
  read = read
  write = write
  unnamed = unnamed
  NoFile = NoFile
  BadFile = BadFile
  Files <- MCFiles
  Names <- MCNames
  Hosts <- MCHosts
  PathForm <- MCPathForm
  HostForm <- MCHostForm
  KeyForm <- MCKeyForm
  NameForm <- MCNameForm
  MaxChanges = 2
INVARIANTS
  TypeOK
  GrantsAreValid
  GrantsFollowTheFile
  FilesAreJudged
  CheckedMountsOpen
  ProblemsAreReal
