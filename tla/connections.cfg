CHECK_DEADLOCK FALSE
SPECIFICATION Spec
CONSTANTS
  Conns = {c1, c2}
  Items = {i1, i2, i3}
  ClassSlots = {k0, k1, k2}
  Class0 = k0
  NoClass = NoClass
  Versions = {{"class", "auth", "operator", "listen"}, {"auth"}, {}}
  MaxLinks = 1
  number_per_ip = 1
  MinCount = 0
INVARIANTS TypeOK NoDangling RefcountsMatch
PROPERTIES Settles
