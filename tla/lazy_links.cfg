SPECIFICATION Spec
CHECK_DEADLOCK FALSE
CONSTANTS
  hubUser = hubUser
  user1 = user1
  user2 = user2
  leaf1 = leaf1
  leaf2 = leaf2
  Leaves = {leaf1, leaf2}
  Users = {hubUser, user1}
  Home <- MCHome
  NoLeaf = NoLeaf
  Masks = {1, 2}
  NoMask = NoMask
  MaxLink = 1
  MaxNodes = 2
  Keeps = {TRUE, FALSE}
INVARIANTS TypeOK MasksMatch IntroducedIffMarked
