\* One parser object, constructed, used and destroyed any number of times.
CONSTANTS
  Docs = {d1, d2, d3}
  XmlppExc = {e1}
  ForeignExc = {f1}
  CollectorsThrow = TRUE
  Flags = {"DTDVALID", "XINCLUDE"}
  NULL = NULL
SPECIFICATION Spec
SYMMETRY Symmetry
INVARIANTS
  DomInv
  DocumentOwnership
  Outcome
PROPERTY ImplementsParseCall
