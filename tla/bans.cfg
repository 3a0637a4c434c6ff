SPECIFICATION Spec
CONSTANTS
  Clients = {c1, c2}
  Masks = {m1}
  Matched <- MCMatched
  Exempt = {c2}
  Opers = {o1, o2, o3}
  ServerOf <- MCServerOf
  Me = o1
  NoOne = NoOne
  Never = Never
  Order <- MCOrder
  Period <- MCPeriod
  Holds = {2}
  PendingExpire = 2
  SplitUsers = 1
  MaxBack = 1
INVARIANTS TypeOK BansInForce TempBansEnd
PROPERTY VotesTogether
SYMMETRY Symmetry
