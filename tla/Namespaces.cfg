\* Three elements and attributes, one prefix beside the default one and "xml".
SPECIFICATION Spec
CONSTANTS
  NULL = NULL
  Nodes = {n1, n2, n3}
  Prefixes = {p}
  Uris = {u}
  Uses = {}
  MaxDeclarations = 3
SYMMETRY Symmetry
CONSTRAINT Bounded
INVARIANTS
  NsInv
  AttributesAgree
PROPERTIES
  NamesStayFaithful
  FailureLeavesNoTrace
