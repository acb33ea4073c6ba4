CONSTANTS
  Runs = {p, q}
  Books = {b, c}
  MaxRows = 3
  MaxDay = 1
SYMMETRY Symmetry
SPECIFICATION Spec
INVARIANT AckedReadable
