SPECIFICATION Spec
CONSTANTS
  n1 = n1
  n2 = n2
  r1 = r1
  r2 = r2
  a1 = a1
  a2 = a2
  q1 = q1
  q2 = q2
  NoRoom = NoRoom
  Names = {n1, n2}
  Rooms = {r1, r2}
  Admins = {a1, a2}
  Requests = {q1}
  MaxChannels = 2
  MaxTokens = 2
SYMMETRY RoutingSymmetry
INVARIANTS
  RInv
  NeverMisrouted
  TokensHaveChannels
