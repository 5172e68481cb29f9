SPECIFICATION Spec
CONSTANTS
  n1 = n1
  n2 = n2
  r1 = r1
  r2 = r2
  a1 = a1
  a2 = a2
  q1 = q1
  q2 = q2
  NoRoom = NoRoom
  Names = {n1}
  Rooms = {r1}
  Admins = {a1}
  Requests = {q1}
  MaxChannels = 1
  MaxTokens = 1
SYMMETRY RoutingSymmetry
INVARIANTS
  RoutedToChannel
