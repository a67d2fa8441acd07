SPECIFICATION Spec
CONSTANTS
  Lists = {l1, l2}
  Nodes = {n1, n2, n3, n4}
  Data = {a, b}
  Null = null
  MaxCopied = 2
SYMMETRY Symmetry
INVARIANT HoldsItsItems
