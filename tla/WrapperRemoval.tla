--------------------------- MODULE WrapperRemoval ---------------------------
(***************************************************************************)
(* What every call on a document promises a caller who holds pointers to   *)
(* wrappers: it makes wrappers, or it takes some away, exactly those of    *)
(* the nodes that go with it or are nodes of another type after it.        *)
(***************************************************************************)
CONSTANTS
  Nodes,  \* addresses of xmlNodes
  Kinds   \* xmlNode::type, and "free" for an address without a node

VARIABLES
  kind,    \* the type of each node
  wrapped  \* the nodes that have a wrapper

vars == <<kind, wrapped>>

Allocated == {n \in Nodes : kind[n] # "free"}
Kept      == {n \in wrapped : kind'[n] = kind[n]}

Init == kind \in [Nodes -> Kinds] /\ wrapped \subseteq Allocated

\* Nodes and wrappers come, and all others stay as they are.
Extend ==
  /\ kind' \in [Nodes -> Kinds]
  /\ \A n \in Allocated : kind'[n] = kind[n]
  /\ wrapped' \in SUBSET Nodes
  /\ wrapped \subseteq wrapped' /\ \A n \in wrapped' : kind'[n] # "free"

Lose ==
  /\ kind' \in [Nodes -> Kinds]
  /\ wrapped' = Kept

Next == Extend \/ Lose

Spec == Init /\ [][Next]_vars

=============================================================================
