\* parser.h:86, with messages collected for one document and not for the next.
CONSTANTS
  Contexts = {c1}
  Entities = {n1}
  XmlppExc = {e1}
  ForeignExc = {f1}
  UseGetEntity = TRUE
  CollectorsThrow = FALSE
  NULL = NULL
SPECIFICATION Spec
INVARIANT RoutingFollowsSetting
