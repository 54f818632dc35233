----------------------------- MODULE TextReader -----------------------------
(***************************************************************************)
(* xmlpp::TextReader: libxml2's reader parses ahead and reports errors to  *)
(* a callback; each method of TextReader decides, from what libxml2's      *)
(* function returns, whether it looks at what has been reported.           *)
(***************************************************************************)
CONSTANTS
  Reports,  \* the errors and warnings that libxml2 reports to one reader
  NoReport  \* none of them

ASSUME ReportsAssumption == NoReport \notin Reports

Severities == {"error", "validity_error", "warning", "validity_warning"}
Thrown     == {"error", "validity_error"}

\* How the methods use libxml2, by what they do with its answer.
Calls ==
  {"read",    \* read() and next(), which go on in the document
   "text",    \* read_inner_xml() and its siblings, which parse the current node to its end
   "expand",  \* expand(), which does so, too
   "bool",    \* has_value(), move_to_attribute() and others that return a bool, an int or an enum
   "string",  \* get_name() and others that return a ustring, and get_quote_char()
   "node",    \* get_current_node()
   "close"}
Parsing == {"read", "text", "expand"}

VARIABLES
  reader,     \* libxml2's reader: "none", "more" to come, at its "end", "failed" or "closed"
  severity_,  \* TextReader::severity_, "none" for 0
  error_,     \* TextReader::error_, by the report whose text it is
  call,       \* the method that is running or was called last
  pc,         \* "user", or "parsing" or "answering" while libxml2 has control
  answer,     \* what the last method did: it returned, returned false, or threw
  errors,     \* history: the errors reported, warnings left aside
  fatal,      \* history: those among them that end the parsing
  thrown,     \* history: those that have been thrown
  overtaken   \* history: those of which a later report took the place

state      == <<severity_, error_>>
history    == <<errors, fatal, thrown, overtaken>>
readerVars == <<reader, state, call, pc, answer, history>>

Returned  == [kind |-> "returns", error |-> NoReport]
SaysFalse == [kind |-> "false", error |-> NoReport]

ReaderInit ==
  /\ reader = "none" /\ severity_ = "none" /\ error_ = NoReport
  /\ call = "close" /\ pc = "user" /\ answer = Returned
  /\ errors = {} /\ fatal = {} /\ thrown = {} /\ overtaken = {}

\* A constructor that does not throw: libxml2 has been able to create its reader, which is
\* told of the callback.
ConstructReader ==
  /\ pc = "user" /\ reader = "none"
  /\ reader' = "more"
  /\ severity_' = "none" /\ error_' = NoReport
  /\ answer' = Returned
  /\ errors' = {} /\ fatal' = {} /\ thrown' = {} /\ overtaken' = {}
  /\ UNCHANGED <<call, pc>>

DestroyReader ==
  /\ pc = "user" /\ reader # "none"
  /\ reader' = "none"
  /\ answer' = Returned
  /\ UNCHANGED <<state, call, pc, history>>

\* A method calls libxml2, which goes on parsing if it is asked to, and can.
Enter(c) ==
  /\ pc = "user" /\ reader # "none"
  /\ call' = c
  /\ pc' = IF c \in Parsing /\ reader = "more" THEN "parsing" ELSE "answering"
  /\ UNCHANGED <<reader, state, answer, history>>

\* The error that the next check would throw.
Pending == IF severity_ \in Thrown THEN {error_} ELSE {}

\* c_callback_error() and on_libxml_error(): the last report takes the place of those
\* before it.  External: only a call that parses reports anything, and after an error of
\* well-formedness the parser finishes what it is at, reporting more, and stops.
Report(r, severity) ==
  /\ pc = "parsing"
  /\ r \notin errors /\ r # error_
  /\ severity_' = severity /\ error_' = r
  /\ overtaken' = overtaken \cup Pending
  /\ errors' = IF severity \in Thrown THEN errors \cup {r} ELSE errors
  /\ \/ severity = "error" /\ fatal' = fatal \cup {r} /\ reader' = "failed"
     \/ UNCHANGED <<fatal, reader>>
  /\ UNCHANGED <<call, pc, answer, thrown>>

\* Mutants of CheckForExceptions: severity_ is not reset; it is looked at only for parse errors.
CheckForExceptionsAgain(otherwise) ==
  /\ UNCHANGED state
  /\ \/ /\ severity_ \in Thrown
        /\ answer' = [kind |-> "throws", error |-> error_]
        /\ thrown' = thrown \cup {error_}
     \/ /\ severity_ \notin Thrown
        /\ answer' = otherwise
        /\ UNCHANGED thrown

CheckForParseErrors(otherwise) ==
  /\ severity_' = "none"
  /\ \/ /\ severity_ = "error"
        /\ answer' = [kind |-> "throws", error |-> error_]
        /\ thrown' = thrown \cup {error_}
     \/ /\ severity_ # "error"
        /\ answer' = otherwise
        /\ UNCHANGED thrown
  /\ UNCHANGED error_

\* check_for_exceptions(): parse_error or validity_error is thrown, once; a warning is
\* forgotten.
CheckForExceptions(otherwise) ==
  /\ severity_' = "none"
  /\ \/ /\ severity_ \in Thrown
        /\ answer' = [kind |-> "throws", error |-> error_]
        /\ thrown' = thrown \cup {error_}
     \/ /\ severity_ \notin Thrown
        /\ answer' = otherwise
        /\ UNCHANGED thrown
  /\ UNCHANGED error_

DoNotCheck(otherwise) ==
  answer' = otherwise /\ UNCHANGED <<state, thrown>>

\* PropertyReader::Bool(), Int() and the methods that return a node or an enum look at what
\* has been reported if libxml2's function failed; String(), OptString() and Char() always do.
Check(failed, otherwise) ==
  IF failed \/ call \in {"text", "string"}
  THEN CheckForExceptions(otherwise)
  ELSE DoNotCheck(otherwise)

\* External: xmlTextReaderRead() and xmlTextReaderNext() fail for good after an error of
\* well-formedness, find the next node, or the end of the document.
ReadReturns ==
  /\ pc # "user" /\ call = "read"
  /\ \/ reader = "more" /\ Check(FALSE, Returned) /\ UNCHANGED reader
     \/ reader \in {"more", "end", "closed"} /\ Check(FALSE, SaysFalse)
        /\ reader' = IF reader = "more" THEN "end" ELSE reader
     \/ reader \in {"failed", "closed"} /\ Check(TRUE, SaysFalse) /\ UNCHANGED reader
  /\ pc' = "user"
  /\ UNCHANGED <<call, errors, fatal, overtaken>>

\* External: the other functions may have an answer or none.
OtherReturns ==
  /\ pc # "user" /\ call # "read"
  /\ \E failed \in BOOLEAN : Check(failed, IF failed THEN SaysFalse ELSE Returned)
  /\ reader' = IF call = "close" THEN "closed" ELSE reader
  /\ pc' = "user"
  /\ UNCHANGED <<call, errors, fatal, overtaken>>

ReaderNext ==
  \/ ConstructReader \/ DestroyReader
  \/ \E c \in Calls : Enter(c)
  \/ \E r \in Reports, severity \in Severities : Report(r, severity)
  \/ ReadReturns \/ OtherReturns

ReaderSpec == ReaderInit /\ [][ReaderNext]_readerVars

-----------------------------------------------------------------------------
TextTypeOK ==
  /\ reader \in {"none", "more", "end", "failed", "closed"}
  /\ severity_ \in Severities \cup {"none"} /\ error_ \in Reports \cup {NoReport}
  /\ call \in Calls /\ pc \in {"user", "parsing", "answering"}
  /\ answer \in [kind : {"returns", "false", "throws"}, error : Reports \cup {NoReport}]
  /\ errors \subseteq Reports /\ fatal \subseteq errors
  /\ thrown \subseteq Reports /\ overtaken \subseteq Reports

\* No error that libxml2 reports is forgotten by a method that does not throw it: it has been
\* thrown, it is what the next check throws, or a later report has taken its place
\* (on_libxml_error, check_for_exceptions).
ErrorsAccounted == errors = thrown \cup overtaken \cup Pending

\* No error is thrown twice, by the method during which it was reported and by a later one
\* that fails for another reason (check_for_exceptions).
ThrownOnce ==
  [][pc # "user" /\ pc' = "user" /\ answer'.kind = "throws" => answer'.error \notin thrown]_readerVars

\* What textreader.h:114 says of read(): it returns false if there are no more nodes to read,
\* so not because of an error that the caller has never been told of (PropertyReader::Bool).
FalseMeansNoMoreNodes ==
  pc = "user" /\ call = "read" /\ answer.kind = "false" /\ reader = "failed" =>
    fatal \cap thrown # {}

\* The inductive invariant: besides, an error is in one place only.
TextReaderInv ==
  /\ TextTypeOK /\ ErrorsAccounted
  /\ thrown \cap (overtaken \cup Pending) = {} /\ overtaken \cap Pending = {}
  /\ severity_ # "none" => error_ # NoReport
  /\ reader = "failed" => fatal # {}
=============================================================================
