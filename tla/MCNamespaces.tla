----------------------------- MODULE MCNamespaces -----------------------------
(* Instances of Namespaces for TLC.                                        *)
EXTENDS Namespaces, Naturals, FiniteSets, TLC

CONSTANT MaxDeclarations

\* Nodes are only compared for equality.
Symmetry == Permutations(Nodes)

\* Bound: so many declarations in the whole tree.
Bounded ==
  Cardinality({<<n, p>> \in Nodes \X Declarable : tree.nsDef[n][p] # NULL}) <= MaxDeclarations
=============================================================================
