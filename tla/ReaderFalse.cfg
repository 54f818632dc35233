\* A reader that is told of an error and of a warning: read() returns false.
CONSTANTS
  Reports = {r1, r2}
  NoReport = NoReport
SPECIFICATION ReaderSpec
INVARIANT
  FalseMeansNoMoreNodes
