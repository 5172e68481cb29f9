SPECIFICATION Spec
CONSTANTS
  Callers = {a1, a2, a3}
  MaxVersions = 5
INVARIANTS
  CInv
  CacheFollowsRow
  CallerSurvivesRotation
  ChangesSurviveRestarts
