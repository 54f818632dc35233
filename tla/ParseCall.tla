------------------------------ MODULE ParseCall ------------------------------
(***************************************************************************)
(* What a parse method of xmlpp::SaxParser and xmlpp::DomParser promises   *)
(* its caller, whatever happens between its call and its end: it reports   *)
(* nothing but what libxml2 said of this document, and returns normally    *)
(* only if there was nothing to report.                                    *)
(***************************************************************************)
CONSTANT Messages  \* what can be collected

VARIABLES
  running,    \* a parse method has been called and has not ended
  collected,  \* the messages collected for its document
  diagnosed,  \* libxml2 has found an error in it, or something to warn of
  threw,      \* the call ended last threw an exception
  told        \* the messages in the text of that exception

vars == <<running, collected, diagnosed, threw, told>>

Init ==
  /\ running = FALSE /\ collected = {} /\ diagnosed = FALSE
  /\ threw = FALSE /\ told = {}

Start ==
  /\ ~running /\ running' = TRUE
  /\ collected' = {} /\ diagnosed' = FALSE
  /\ threw' = FALSE /\ told' = {}

\* A call that cannot be made, also one that a handler makes while another is running.
Refuse ==
  /\ threw' = TRUE /\ told' = {}
  /\ IF running THEN UNCHANGED <<collected, diagnosed>> ELSE collected' = {} /\ diagnosed' = FALSE
  /\ UNCHANGED running

Diagnose ==
  /\ running /\ diagnosed' = TRUE
  /\ \/ UNCHANGED collected
     \/ \E m \in Messages : collected' = collected \cup {m}
  /\ UNCHANGED <<running, threw, told>>

Return ==
  /\ running /\ running' = FALSE
  /\ ~diagnosed
  /\ threw' = FALSE /\ told' = {}
  /\ UNCHANGED <<collected, diagnosed>>

\* A handler may have thrown, too, or the document may be wrong in a way that libxml2 tells by
\* what it returns.
Throw ==
  /\ running /\ running' = FALSE
  /\ threw' = TRUE /\ told' = collected
  /\ UNCHANGED <<collected, diagnosed>>

\* A parser is deleted and another one made.
Renew ==
  /\ ~running /\ running' = FALSE
  /\ collected' = {} /\ diagnosed' = FALSE /\ threw' = FALSE /\ told' = {}

Next == Start \/ Refuse \/ Diagnose \/ Return \/ Throw \/ Renew

Spec == Init /\ [][Next]_vars

=============================================================================
