SPECIFICATION Spec
CONSTANTS
  v1 = v1
  v2 = v2
  Known <- MCKnown
  Unknown = {x}
  People = {a, b}
  Nameless = nobody
  Values = 3
  First = 2
  MaxEntries = 3
  None = None
SYMMETRY Symmetry
INVARIANTS
  ValidatorsAdded
