\* The caller asks an attribute for its children.
CONSTANTS
  Nodes = {n1, n2, n3, n4}
  Wrappers = {w1, w2, w3}
  NULL = NULL
  Uses <- UsesText
SPECIFICATION Spec
SYMMETRY Symmetry
INVARIANT
  Linked
CHECK_DEADLOCK FALSE
