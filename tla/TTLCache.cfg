SPECIFICATION Spec
CONSTANTS
  Keys = {k1, k2, k3}
  Values = {v1, v2}
  MaxEntries = 2
  DefaultTTL = 2
  Horizon = 5
  Nothing = Nothing
INVARIANTS
  TypeOK
  WithinLimit
  HitIsLastWrite
PROPERTIES
  ImplementsLossyMap
