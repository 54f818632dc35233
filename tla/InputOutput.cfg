\* A reader that is told of up to three errors, and of warnings.  Three Dtds and xmlDtds; streams
\* of up to five bytes, read two at a time.  Writes, parses and KeepBlanks objects, two of them
\* within each other, with a libxml2 that returns -1 after an error.
CONSTANTS
  Reports = {r1, r2, r3}
  NoReport = NoReport
  NULL = NULL
  Dtds = {x1, x2, x3}
  Objects = {d1, d2, d3}
  Uses = {}
  Length = 5
  ReadLen = 2
  Streams = {o1, o2}
  MaxDepth = 2
  ErrorResults = {"-1"}
  NoStream = NoStream
SPECIFICATION Spec
SYMMETRY Symmetry
INVARIANTS
  TextReaderInv
  ErrorsAccounted
  DtdInv
  OneOwner
  WholeStream
  OutputInv
PROPERTIES
  ThrownOnce
  StableSubset
  SettingsRestored
  WriteReported
