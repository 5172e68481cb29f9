SPECIFICATION Spec
CONSTANTS
  Names = {n1}
  Secrets = {s1, s2}
  Endpoints = {k1, k2}
  Any = any
  Requests = {q1, q2}
  Rates = {0, 1}
  Cost = 2
  BurstConfig = 2
  MaxLife = 1
INVARIANTS
  AInv
  RateKept
  RevokedStaysOut
