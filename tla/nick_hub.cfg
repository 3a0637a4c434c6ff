SPECIFICATION Spec
CONSTANTS
  a = a
  b = b
  c = c
  u = u
  v = v
  h1 = h1
  h2 = h2
  h3 = h3
  NoNick = NoNick
  Unset = Unset
  Servers = {a, b, c}
  Clients = {u}
  Nicks = {"n"}
  Edges <- Row
  Home <- Middle
  UserHosts = {h1, h2}
  Opers = {}
  Logins <- AllLogins
  MaxTime = 1
  MaxActs = 0
  MaxSplits = 0
INVARIANTS KilledOverNick
CHECK_DEADLOCK FALSE
