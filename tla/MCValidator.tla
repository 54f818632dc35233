----------------------------- MODULE MCValidator -----------------------------
(* Instances of Validator for TLC.                                         *)
EXTENDS Validator, TLC

Symmetry ==
  Permutations(Schemas) \cup Permutations(Underlying) \cup Permutations(XmlppExc)

NoUses      == {}
UsesReparse  == {Reparse}
=============================================================================
