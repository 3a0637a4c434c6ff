SPECIFICATION Spec
CONSTANTS
  n1 = n1
  n2 = n2
  Server = Server
  Nicks = {n1, n2}
  Mine = {n1}
  Flags = {"p"}
  Lines <- MCLines
  Masks = {"wide", "narrow"}
  Covering <- Overlap
  Keys = {"key"}
  Limits = {"5"}
INVARIANTS TypeOK PeerAgrees
PROPERTIES HalfopsMakeNoOps
