\* A document with three nodes besides its internal subset and its root element.
CONSTANTS
  Doc = Doc
  Dtd = Dtd
  Root = Root
  Others = {n1, n2, n3}
  Namespace = Namespace
  MaxHits = 1
  Uses = {}
  NULL = NULL
SPECIFICATION Spec
INVARIANTS
  GraphInv
  ReturnedUsable
PROPERTIES
  ImplementsWrapperRemoval
  CallsEnd
