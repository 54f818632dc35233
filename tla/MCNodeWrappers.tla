--------------------------- MODULE MCNodeWrappers ---------------------------
(* Instances of NodeWrappers for TLC.                                      *)
EXTENDS NodeWrappers, TLC

Symmetry == Permutations(Nodes) \cup Permutations(Wrappers)

NoUses   == {}
UsesText == {AttributeText}
=============================================================================
