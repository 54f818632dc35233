\* Writes with a libxml2 that returns the error's code, negated.
CONSTANTS
  Streams = {o1}
  MaxDepth = 1
  ErrorResults = {"negated error code"}
  NoStream = NoStream
SPECIFICATION OutputSpec
PROPERTY
  WriteReported
