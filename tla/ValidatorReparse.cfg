\* A schema is parsed again between two calls of validate().
CONSTANTS
  Schemas = {s1}
  Underlying = {u1, u2}
  XmlppExc = {e1}
  ForeignExc = {f1}
  Uses <- UsesReparse
  NULL = NULL
SPECIFICATION Spec
INVARIANT ContextCurrent
