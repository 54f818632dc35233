---------------------------- MODULE MCInputOutput ----------------------------
(* Instances of the components that read and write, which share nothing:   *)
(* each behaviour is of one of them.                                       *)
EXTENDS TextReader, DtdOwnership, DocumentOutput, TLC

VARIABLE component

Init ==
  /\ component \in {"reader", "dtd", "output"}
  /\ ReaderInit /\ DtdInit /\ OutputInit

Reader == component = "reader" /\ ReaderNext /\ UNCHANGED <<component, dtdVars, outputVars>>
Dtd    == component = "dtd" /\ DtdNext /\ UNCHANGED <<component, readerVars, outputVars>>
Output == component = "output" /\ OutputNext /\ UNCHANGED <<component, readerVars, dtdVars>>

Next == Reader \/ Dtd \/ Output

Spec == Init /\ [][Next]_<<component, readerVars, dtdVars, outputVars>>

\* Addresses are only compared for equality.  Those of Dtds make most of the states.
Symmetry == Permutations(Dtds) \cup Permutations(Objects)
=============================================================================
