\* Two keys, with pages of one and two tools, three lists, and every way of editing a text twice.
SPECIFICATION Spec
CONSTANTS
  OFFSET_LEN = 1
  SNAPSHOT_LEN = 1
  TAG_LEN = 2
  Lists <- MCLists
  Keys = {1, 2}
  Offsets <- MCOffsets
  Boundaries <- MCBoundaries
  Digest <- MCDigest
  Mac <- MCMac
  AccSize = 65536
  Typed <- MCTyped
  Bad = Bad
  MaxEdits = 2
INVARIANTS
  OnlyMintedTexts
  MintedTextsDecode
