----------------------------- MODULE MCNodeGraph -----------------------------
(* The instance of NodeGraph for TLC: all its constants are model values. *)
EXTENDS NodeGraph
=============================================================================
