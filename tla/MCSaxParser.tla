---------------------------- MODULE MCSaxParser ----------------------------
(* Instances of SaxParser for TLC, without symmetry: one run is about       *)
(* liveness.                                                                *)
EXTENDS SaxParser
=============================================================================
