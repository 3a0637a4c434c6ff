SPECIFICATION Spec
CONSTANTS
  NameChars = {"A", "b"}
  MaskLen = 4
  NameLen = 5
  Chars <- MCChars
  Masks <- MCMasks
  Names <- MCNames
  Lower <- MCLower
  MATCH_MAX_CALLS = 12
INVARIANTS InBounds MatchAgrees CollapseKeeps
CHECK_DEADLOCK FALSE
