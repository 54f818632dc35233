\* One parser; on_parser_error() and its siblings may be overridden and throw.
CONSTANTS
  Contexts = {c1, c2}
  Entities = {n1, n2}
  XmlppExc = {e1}
  ForeignExc = {f1}
  UseGetEntity = TRUE
  CollectorsThrow = TRUE
  NULL = NULL
SPECIFICATION FairSpec
INVARIANTS
  IInv
  OneContext
  ConsistentAfterCall
  EntitiesOfThisDocument
  NothingLost
PROPERTIES
  EntitiesStayValid
  OnlyMessagesAfterException
  ImplementsParseCall
  ContextReleased
