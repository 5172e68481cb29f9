SPECIFICATION Spec
CONSTANTS
  MaxIdentities = 4
INVARIANTS
  IdentityInv
  ReadyIsRecoverable
PROPERTIES
  SingleFileSuffices
  NothingOverwritten
