\* One document with up to five nodes and three wrappers, any number of documents one after the other.
CONSTANTS
  Nodes = {n1, n2, n3, n4, n5}
  Wrappers = {w1, w2, w3}
  NULL = NULL
  Uses <- NoUses
SPECIFICATION Spec
SYMMETRY Symmetry
INVARIANTS
  NodeInv
  Linked
  ResultUsable
PROPERTIES
  PointersStayValid
