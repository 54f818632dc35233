--------------------------- MODULE DocumentOutput ---------------------------
(***************************************************************************)
(* Writing a document: Document::write_to_file(), write_to_string() and    *)
(* write_to_stream(), the OStreamOutputBuffer between libxml2 and a        *)
(* std::ostream, and the two settings of libxml2 that writers, parsers and *)
(* KeepBlanks objects change and restore.  All of them nest: libxml2 calls *)
(* an on_*() method of a parser or the stream's buffer, which may write    *)
(* another document.                                                       *)
(***************************************************************************)
EXTENDS KeepBlanks, Naturals, Sequences

CONSTANTS
  Streams,       \* std::ostreams of the caller's
  MaxDepth,      \* the bound on calls and objects within each other
  ErrorResults,  \* what xmlSaveFormatFileTo() may return after an error
  NoStream

\* External: libxml2 returned -1 before its version 2.13, and returns the error's code, negated,
\* since then.
MinusOne         == "-1"
NegatedErrorCode == "negated error code"

ASSUME StreamsAssumption == NoStream \notin Streams /\ MaxDepth \in Nat
ASSUME ErrorResultsAssumption ==
  ErrorResults \in (SUBSET {MinusOne, NegatedErrorCode}) \ {{}}

VARIABLES
  settings,  \* those of this thread
  bad,       \* the streams that are not good()
  stack,     \* what is in progress, innermost first
  result     \* whether the write that ended last returned or threw

outputVars == <<settings, bad, stack, result>>

(***************************************************************************)
(* What may be in progress: the life of a KeepBlanks object of the         *)
(* caller's, a parse, a write to a file or a string, a write to a stream.  *)
(* All but the last have a KeepBlanks object, whose members saved holds.   *)
(* failed tells whether libxml2 will report an error to xmlpp.             *)
(***************************************************************************)
Scopes == {"guard", "parse", "document", "stream"}
Frame  == [scope : Scopes, saved : Settings, stream : Streams \cup {NoStream},
           pc : {"user", "libxml2", "writing", "flushing", "closed"}, failed : BOOLEAN,
           before : Settings,  \* history: the settings when it began
           lost : BOOLEAN]     \* history: the stream has not taken, or not flushed, all

Top == Head(stack)
Active(scope) == stack # <<>> /\ Top.scope = scope

\* Code of the caller's runs: outside of all calls, in the scope of a KeepBlanks object, in
\* an on_*() method of a parser, or in the buffer of a stream.
UserCode == stack # <<>> => Top.pc \in {"user", "writing", "flushing"}

Begins(scope, saved, stream, pc) ==
  /\ UserCode /\ Len(stack) < MaxDepth
  /\ stack' = <<[scope |-> scope, saved |-> saved, stream |-> stream, pc |-> pc,
                 failed |-> FALSE, before |-> settings, lost |-> FALSE]>> \o stack

Ends == stack' = Tail(stack)
Becomes(frame) == stack' = <<frame>> \o Tail(stack)

OutputInit ==
  /\ settings = Initially /\ bad = {} /\ stack = <<>> /\ result = "returns"

-----------------------------------------------------------------------------
(* The caller's own code.                                                  *)

\* External: the caller uses libxml2 itself.
SetSettings ==
  /\ UserCode
  /\ \E value \in BOOLEAN :
       \/ settings' = XmlKeepBlanksDefault(settings, value)
       \/ settings' = [settings EXCEPT !.indent = value]
  /\ UNCHANGED <<bad, stack, result>>

\* External: setstate() and clear().
SetStream(s) ==
  /\ UserCode
  /\ bad' = IF s \in bad THEN bad \ {s} ELSE bad \cup {s}
  /\ UNCHANGED <<settings, stack, result>>

\* A KeepBlanks object of the caller's; SaxParser::parse_*() and DomParser::parse_*() have
\* one, too, while libxml2 parses.
Guard(scope, value) ==
  /\ Begins(scope, Saved(settings, value), NoStream, "user")
  /\ settings' = Constructed(settings, value)
  /\ UNCHANGED <<bad, result>>

CreateKeepBlanks == \E value \in BOOLEAN : Guard("guard", value)
Parse            == Guard("parse", TRUE)

\* The object is destroyed, or the parse method returns or throws.
Unguard ==
  /\ Active("guard") \/ Active("parse")
  /\ Ends
  /\ settings' = Destroyed(settings, Top.saved)
  /\ UNCHANGED <<bad, result>>

-----------------------------------------------------------------------------
(* Writing to a file or a string.                                          *)

\* do_write_to_file() and do_write_to_string() up to the call of libxml2.
WriteDocument(format) ==
  /\ Begins("document", Saved(settings, TRUE), NoStream, "libxml2")
  /\ settings' = [Constructed(settings, TRUE) EXCEPT !.indent = format]
  /\ UNCHANGED <<bad, result>>

\* They return, or throw if libxml2 has failed.
DocumentWritten ==
  /\ Active("document")
  /\ Ends
  /\ settings' = Destroyed(settings, Top.saved)
  /\ result' \in {"returns", "throws"}
  /\ UNCHANGED bad

-----------------------------------------------------------------------------
(* Writing to a stream.                                                    *)

\* do_write_to_stream(): OutputBuffer's constructor throws if it knows no such encoding.
WriteToStream(s) ==
  /\ \/ Begins("stream", settings, s, "libxml2") /\ UNCHANGED result
     \/ UserCode /\ result' = "throws" /\ UNCHANGED stack
  /\ UNCHANGED <<settings, bad>>

InStream(pc) == Active("stream") /\ Top.pc = pc

\* External: after an error, libxml2 does not call the buffer for more.
EncodingFails ==
  /\ InStream("libxml2")
  /\ Becomes([Top EXCEPT !.failed = TRUE, !.lost = TRUE])
  /\ UNCHANGED <<settings, bad, result>>

\* on_write(): do_write() does not try if the stream is not good.
OnWrite ==
  /\ InStream("libxml2") /\ ~Top.failed
  /\ Becomes(IF Top.stream \in bad THEN [Top EXCEPT !.failed = TRUE, !.lost = TRUE]
                                   ELSE [Top EXCEPT !.pc = "writing"])
  /\ UNCHANGED <<settings, bad, result>>

\* The stream takes what it is given, or goes bad.
StreamTakes(ok) ==
  bad' = IF ok THEN bad ELSE bad \cup {Top.stream}

Written(ok) ==
  /\ InStream("writing")
  /\ StreamTakes(ok)
  /\ Becomes([Top EXCEPT !.pc = "libxml2", !.failed = @ \/ Top.stream \in bad',
                         !.lost = @ \/ ~ok])
  /\ UNCHANGED <<settings, result>>

\* on_close(), which libxml2 calls in any case.
OnClose ==
  /\ InStream("libxml2")
  /\ Becomes(IF Top.stream \in bad THEN [Top EXCEPT !.pc = "closed", !.failed = TRUE]
                                   ELSE [Top EXCEPT !.pc = "flushing"])
  /\ UNCHANGED <<settings, bad, result>>

\* Mutant of Flushed: do_close() returns true, as OutputBuffer's does.
FlushedUnchecked(ok) ==
  /\ InStream("flushing")
  /\ StreamTakes(ok)
  /\ Becomes([Top EXCEPT !.pc = "closed", !.lost = @ \/ ~ok])
  /\ UNCHANGED <<settings, result>>

Flushed(ok) ==
  /\ InStream("flushing")
  /\ StreamTakes(ok)
  /\ Becomes([Top EXCEPT !.pc = "closed", !.failed = @ \/ Top.stream \in bad',
                         !.lost = @ \/ ~ok])
  /\ UNCHANGED <<settings, result>>

\* do_write_to_stream() throws if -1 is what libxml2 returns.
StreamWritten ==
  /\ InStream("closed")
  /\ Ends
  /\ \E written \in IF Top.failed THEN ErrorResults ELSE {"written"} :
       result' = IF written = MinusOne THEN "throws" ELSE "returns"
  /\ UNCHANGED <<settings, bad>>

OutputNext ==
  \/ SetSettings \/ CreateKeepBlanks \/ Parse \/ Unguard
  \/ \E format \in BOOLEAN : WriteDocument(format)
  \/ DocumentWritten
  \/ \E s \in Streams : SetStream(s) \/ WriteToStream(s)
  \/ EncodingFails \/ OnWrite \/ OnClose \/ StreamWritten
  \/ \E ok \in BOOLEAN : Written(ok) \/ Flushed(ok)

OutputSpec == OutputInit /\ [][OutputNext]_outputVars

-----------------------------------------------------------------------------
OutputTypeOK ==
  /\ settings \in Settings /\ bad \in SUBSET Streams
  /\ stack \in Seq(Frame) /\ result \in {"returns", "throws"}

\* Whatever runs inside it and changes the settings, a parse, a write to a file or string or
\* the life of a KeepBlanks object ends with both settings as they were when it began
\* (KeepBlanks::~KeepBlanks).
SettingsRestored ==
  [][Len(stack') < Len(stack) /\ Top.scope # "stream" => settings' = Top.before]_outputVars

\* write_to_stream() returns normally only if the stream has taken and flushed everything,
\* although it may fail at its last step and be cleared by code that runs during the write:
\* if libxml2 returns -1 after every error (OutputBufferCallback,
\* OStreamOutputBuffer::do_write, do_close, Document::do_write_to_stream).
WriteReported ==
  [][Len(stack') < Len(stack) /\ Top.scope = "stream" /\ result' = "returns" => ~Top.lost]_outputVars

\* The inductive invariant: the members of each KeepBlanks object hold what it has to restore,
\* and whatever was lost libxml2 knows of.
OutputInv ==
  /\ OutputTypeOK
  /\ \A i \in 1..Len(stack) :
       /\ stack[i].scope # "stream" => stack[i].saved = stack[i].before
       /\ stack[i].lost => stack[i].failed
       /\ stack[i].scope = "stream" => stack[i].stream \in Streams
=============================================================================
