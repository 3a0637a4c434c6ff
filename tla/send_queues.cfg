SPECIFICATION Spec
CONSTANTS
  a = a
  b = b
  c = c
  End = End
  Links = {a, b}
  LineLens = {2}
  NoteLen = 1
  SendqLimit = 2
  MaxAsked = 3
  MaxDrops = 1
INVARIANTS TypeOK RefcountsMatch
PROPERTIES StreamsAreFifo Drains
CHECK_DEADLOCK FALSE
