---------------------------- MODULE MCDomParser ----------------------------
(* Instances of DomParser for TLC.                                         *)
EXTENDS DomParser, TLC

Symmetry == Permutations(Docs)
=============================================================================
