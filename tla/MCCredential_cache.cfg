SPECIFICATION Spec
CONSTANTS
  Callers = {a1, a2}
  MaxVersions = 3
INVARIANTS
  RowIsAuthoritative
