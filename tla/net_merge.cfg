SPECIFICATION Spec
CONSTANTS
  a = a
  b = b
  c = c
  u = u
  w = w
  Nobody = Nobody
  Servers = {a, b, c}
  Clients = {u, w}
  Edges <- Row
  Home <- Ends
  StartLists = {"peons", "chanops"}
  MaxTime = 2
  MaxActs = 2
  MaxSplits = 1
INVARIANTS TypeOK Converged NoGhosts
CHECK_DEADLOCK FALSE
