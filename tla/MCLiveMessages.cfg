SPECIFICATION Spec
CONSTANTS
  r1 = r1
  r2 = r2
  a = a
  c = c
  Fps = {a, c}
  Rooms = {r1, r2}
  Charted = {a, c}
  Sizes = {1, 2}
  MaxEntries = 3
  MaxMessages = 2
  MaxBudget = 1
SYMMETRY LiveSymmetry
CHECK_DEADLOCK FALSE
INVARIANTS
  LInv
  MappingsAnnounced
  EditsAnnounceNothing
PROPERTIES
  RepeatsReEdit
  KeepsRoomPromise
