SPECIFICATION Spec
CONSTANTS
  Producers = {p1, p2}
  Consumers = {c1, c2, c3}
  IntRange = 3
INVARIANTS
  TypeOK
  Exclusion
  SomeoneProceeds
  UnlocksHeldMutex
PROPERTIES
  ImplementsHandOff
