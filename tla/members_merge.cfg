SPECIFICATION Spec
CONSTANTS
  l1 = l1
  r1 = r1
  c1 = c1
  c2 = c2
  Peer = Peer
  Clients = {l1, r1}
  Local = {l1}
  Channels = {c1, c2}
  ModeLetters = {"o", "h"}
  OfferedTS = {0, 1, 2}
  Prefixes = {"", "@"}
  PersistTime = 1
  MaxChans = 1
  MaxTime = 1
INVARIANTS TypeOK Integrity CountersMatch NoDangling
PROPERTIES TimestampNeverGrows LoserLosesStatus WinnerKeepsStatus LoopsEnd
