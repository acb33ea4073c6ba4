CONSTANTS
  Runs = {p, q}
  Books = {b, c}
  MaxRows = 2
  MaxDay = 2
SYMMETRY Symmetry
SPECIFICATION Spec
INVARIANTS
  TypeOK
  LossIsExplained
  InheritedIsSound
  QuarantineIsEarned
PROPERTY RepairResolves
