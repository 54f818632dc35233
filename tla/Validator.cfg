\* A validator of each kind, three schema objects and room for the copies of documents;
\* a handler may throw one exception after another.
CONSTANTS
  Schemas = {s1, s2, s3}
  Underlying = {u1, u2, u3, u4}
  XmlppExc = {e1, e2}
  ForeignExc = {f1}
  Uses <- NoUses
  NULL = NULL
SPECIFICATION Spec
SYMMETRY Symmetry
INVARIANTS
  ValidatorInv
  Ownership
  ContextCurrent
  ThrowsOwnReport
