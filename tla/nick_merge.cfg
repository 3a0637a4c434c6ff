SPECIFICATION Spec
CONSTANTS
  a = a
  b = b
  c = c
  u = u
  v = v
  h1 = h1
  h2 = h2
  h3 = h3
  NoNick = NoNick
  Unset = Unset
  Servers = {a, b, c}
  Clients = {u, v}
  Nicks = {"n", "m"}
  Edges <- Row
  Home <- Ends
  UserHosts = {h1, h2, h3}
  Opers = {h2}
  Logins <- Rivals
  MaxTime = 2
  MaxActs = 1
  MaxSplits = 1
INVARIANTS TypeOK NicksUnique NicksAgree KilledForCause
CHECK_DEADLOCK FALSE
