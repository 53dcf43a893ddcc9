\* Every command line of up to two flags and some of three, a file that somebody
\* replaces at any moment, and guests that list, list in pages, list nothing, do
\* not answer or never end.
SPECIFICATION FairSpec
CONSTANTS
  CommandLines <- MCCommandLines
  Dashed <- MCDashed
  Numbers = {"2"}
  Disks <- MCDisks
  Contents <- MCContents
  GoodPolicies = {"policy 1", "policy 2"}
  GoodModules = {"wasm 1", "wasm 2"}
  Outputs <- MCOutputs
  Unnamed = Unnamed
  None = None
  MaxReplacements = 1
INVARIANTS
  TypeOK
  HashesUnlessReplaced
  ListingsAreHonest
  ProbesAreOver
PROPERTIES
  ArgumentsAreRead
  StartupEnds
