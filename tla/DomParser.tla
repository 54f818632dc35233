------------------------------ MODULE DomParser ------------------------------
(***************************************************************************)
(* xmlpp::DomParser: who owns the xmlDoc that libxml2 builds, through the  *)
(* steps of a parse each of which may fail, and through the constructor    *)
(* that parses.  libxml2 keeps the document in the parser context; a       *)
(* successful parse moves it into a Document, which the parser owns.       *)
(***************************************************************************)
EXTENDS ParserMessages

CONSTANTS
  Docs,             \* addresses an xmlDoc may be allocated at
  CollectorsThrow,  \* the subclass overrides on_parser_*() and on_validity_*(), and they throw
  Flags,            \* the libxml2 parser options that are told apart
  NULL

ASSUME DomAssumption ==
  /\ NULL \notin Docs
  /\ CollectorsThrow \in BOOLEAN
  /\ Flags \subseteq {"DTDVALID", "NOENT", "DTDATTR", "XINCLUDE"}

VARIABLES
  object,           \* "none", "constructing" (in the constructor that parses) or "ready"
  pc,               \* "user", or "parsing" while xmlParseDocument() runs
  doc_,             \* the xmlDoc of the Document that DomParser::doc_ points to
  ctxt,             \* Parser::context_ and the fields of *context_
  docs,             \* the xmlDocs allocated and not freed
  exception_,       \* Parser::exception_
  buffers,          \* which message buffers are not empty
  settings,         \* Parser::Impl's settings and DomParser::xinclude_options_
  result,           \* what the last parse method threw
  asked,            \* history: the options that the settings of the last call ask for
  collecting,       \* history: throw_messages_ when the context was initialized
  collected,        \* history: the messages collected during the last call
  diagnosed         \* history: libxml2 reported an error or a warning during the last call

history == <<asked, collecting, collected, diagnosed>>
vars == <<object, pc, doc_, ctxt, docs, exception_, buffers, settings, result, history>>

Context == [open : BOOLEAN, myDoc : Docs \cup {NULL}, stopped : BOOLEAN,
            lastError : Levels, wellFormed : BOOLEAN, options : SUBSET Flags]
Closed  == [open |-> FALSE, myDoc |-> NULL, stopped |-> FALSE,
            lastError |-> "none", wellFormed |-> TRUE, options |-> {}]

(***************************************************************************)
(* The settings: throw_messages_, the flags that the set_*() methods and   *)
(* set_xinclude_options() have switched on, and those that                 *)
(* set_parser_options() adds and takes away.                               *)
(***************************************************************************)
Settings == [throw_messages_ : BOOLEAN, own : SUBSET Flags,
             set_options_ : SUBSET Flags, clear_options_ : SUBSET Flags]
Defaults == [throw_messages_ |-> TRUE, own |-> {}, set_options_ |-> {}, clear_options_ |-> {}]

\* The options of libxml2's parser are those of initialize_context(), and XInclude processing
\* is a matter of check_xinclude_and_finish_parsing().
XIncludeFlags == Flags \cap {"XINCLUDE"}
ParserFlags   == Flags \ XIncludeFlags

\* Mutant of Combine: what is to be cleared is cleared before the rest is set.
CombineSetLast(s, own) == (own \ s.clear_options_) \cup s.set_options_

\* set_parser_options() has the last word, and what it clears is clear.
Combine(s, own) == (own \cup s.set_options_) \ s.clear_options_

Init ==
  /\ object = "none" /\ pc = "user" /\ doc_ = NULL /\ ctxt = Closed /\ docs = {}
  /\ exception_ = NoExc /\ buffers = {} /\ result = NoExc
  /\ settings = Defaults
  /\ asked = {} /\ collecting = TRUE /\ collected = {} /\ diagnosed = FALSE

\* A call begins with the settings s; what they ask for is what set_parser_options() does not
\* clear and it or another set_*() method sets (parser.h, set_parser_options()).
Begin(s) ==
  /\ collected' = {} /\ diagnosed' = FALSE
  /\ asked' = {f \in Flags : f \notin s.clear_options_ /\ (f \in s.own \/ f \in s.set_options_)}

-----------------------------------------------------------------------------
(* Construction, destruction, options.                                     *)

\* DomParser(): an empty document.
Construct ==
  /\ object = "none"
  /\ object' = "ready"
  /\ \E d \in Docs \ docs : doc_' = d /\ docs' = docs \cup {d}
  /\ settings' = Defaults
  /\ exception_' = NoExc /\ buffers' = {}
  /\ result' = NoExc
  /\ Begin(Defaults)
  /\ UNCHANGED <<pc, ctxt, collecting>>

\* Mutant of ReleaseUnderlying: Parser's, which does not know the Document.
ReleaseContextOnly ==
  /\ docs' = docs \ {ctxt.myDoc}
  /\ doc_' = NULL
  /\ ctxt' = Closed

\* DomParser::release_underlying(): the Document, the context and what is left in it.
ReleaseUnderlying ==
  /\ docs' = docs \ {doc_, ctxt.myDoc}
  /\ doc_' = NULL
  /\ ctxt' = Closed

Destroy ==
  /\ object = "ready" /\ pc = "user"
  /\ object' = "none"
  /\ ReleaseUnderlying
  /\ UNCHANGED <<pc, exception_, buffers, settings, result, history>>

\* Between two calls; an on_*() method could do so, too, to no effect: after it has been called
\* the parse fails.
Settle(new) ==
  /\ object = "ready" /\ pc = "user"
  /\ settings' = new
  /\ UNCHANGED <<object, pc, doc_, ctxt, docs, exception_, buffers, result, history>>

\* set_throw_messages(), set_validate(), set_substitute_entities(),
\* set_include_default_attributes() and set_parser_options().
SetParserOptions ==
  \/ \E val \in BOOLEAN : Settle([settings EXCEPT !.throw_messages_ = val])
  \/ \E f \in ParserFlags : \/ Settle([settings EXCEPT !.own = @ \cup {f}])
                          \/ Settle([settings EXCEPT !.own = @ \ {f}])
  \/ \E set, clear \in SUBSET Flags :
       Settle([settings EXCEPT !.set_options_ = set, !.clear_options_ = clear])

SetXIncludeOptions ==
  \E on \in SUBSET XIncludeFlags : Settle([settings EXCEPT !.own = (@ \ XIncludeFlags) \cup on])

-----------------------------------------------------------------------------
(* A parse.                                                                *)

\* A context after initialize_context() with the settings s.
Open(s) == [Closed EXCEPT !.open = TRUE, !.options = Combine(s, s.own \cap ParserFlags)]

\* The context is created, initialize_context() runs and xmlParseDocument() begins.
OpenContext(s) ==
  /\ ctxt' = Open(s) /\ pc' = "parsing"
  /\ buffers' = {} /\ result' = NoExc
  /\ collecting' = s.throw_messages_

\* Mutant of StartParse: the Document of an earlier parse is kept until a new one is there.
StartParseKeepsDocument ==
  /\ object = "ready" /\ pc = "user"
  /\ docs' = docs \ {ctxt.myDoc}
  /\ Begin(settings)
  /\ \/ OpenContext(settings)
     \/ ctxt' = Closed /\ result' = InternalError /\ UNCHANGED <<pc, buffers, collecting>>
  /\ UNCHANGED <<object, doc_, exception_, settings>>

\* parse_file(), parse_memory() and parse_stream(): whatever an earlier parse has left is
\* freed first, its Document included.
StartParse ==
  /\ object = "ready" /\ pc = "user"
  /\ docs' = docs \ {doc_, ctxt.myDoc} /\ doc_' = NULL
  /\ Begin(settings)
  /\ \/ OpenContext(settings)
     \/ ctxt' = Closed /\ result' = InternalError /\ UNCHANGED <<pc, buffers, collecting>>
  /\ UNCHANGED <<object, exception_, settings>>

\* DomParser(filename, validate).
ConstructAndParse ==
  /\ object = "none"
  /\ exception_' = NoExc /\ doc_' = NULL
  /\ \E validate \in SUBSET (ParserFlags \cap {"DTDVALID"}) :
       /\ settings' = [Defaults EXCEPT !.own = validate]
       /\ Begin(settings')
       /\ \/ OpenContext(settings') /\ object' = "constructing"
          \/ /\ result' = InternalError /\ buffers' = {}
             /\ UNCHANGED <<object, ctxt, pc, collecting>>
  /\ UNCHANGED docs

\* External: libxml2 builds the tree in a document it stores in the context.
DocumentCreated ==
  /\ pc = "parsing" /\ ~ctxt.stopped /\ ctxt.myDoc = NULL
  /\ \E d \in Docs \ docs : ctxt' = [ctxt EXCEPT !.myDoc = d] /\ docs' = docs \cup {d}
  /\ UNCHANGED <<object, pc, doc_, exception_, buffers, settings, result, history>>

\* on_parser_error(), on_parser_warning(), on_validity_error() or on_validity_warning().
Append(b) == buffers' = buffers \cup {b}

\* callback_error_or_warning() for a message that libxml2 gives to a slot of the context; an
\* overridden on_parser_error() or sibling that throws stops the parser.
Collect(slot, c) ==
  \/ /\ Append(BufferOf(slot)) /\ collected' = collected \cup {MessageOf[slot]}
     /\ ctxt' = c
     /\ UNCHANGED exception_
  \/ /\ CollectorsThrow
     /\ \E e \in UserExc : exception_' = Kept(e)
     /\ ctxt' = [c EXCEPT !.stopped = TRUE]
     /\ UNCHANGED <<buffers, collected>>

\* libxml2 reports an error or a warning; only errors may still come from a stopped parser, and
\* the validity slots are for a parser that validates.  If messages are not collected, libxml2
\* writes them on stderr.
Report(slot, level) ==
  LET c == [ctxt EXCEPT !.lastError = level, !.wellFormed = @ /\ level # "fatal"] IN
  /\ pc = "parsing"
  /\ ctxt.stopped => slot = "sax_error"
  /\ slot \in {"vctxt_error", "vctxt_warning"} => "DTDVALID" \in ctxt.options
  /\ diagnosed' = TRUE
  /\ IF collecting THEN Collect(slot, c)
     ELSE ctxt' = c /\ UNCHANGED <<exception_, buffers, collected>>
  /\ UNCHANGED <<object, pc, doc_, docs, settings, result, asked, collecting>>

ReportAny ==
  \/ Report("sax_error", "error") \/ Report("sax_error", "fatal") \/ Report("sax_warning", "warning")
  \/ Report("vctxt_error", "error") \/ Report("vctxt_warning", "warning")

-----------------------------------------------------------------------------
(* The end of parse_context().                                             *)

\* A constructor that throws leaves no object.
AfterThrow == object' = IF object = "constructing" THEN "none" ELSE object

\* What the context says of the parse, and what xmlParseDocument() returned if it says nothing.
ErrorStr ==
  LET str == FormatXmlParserError(ctxt.lastError, ctxt.wellFormed) IN
  IF str = {} /\ ~ctxt.wellFormed THEN {"xmlParseDocument() failed."} ELSE str

\* check_for_exception() throws or else there is an error_str: everything is freed and the
\* exception goes on.
ParseFails ==
  LET e == WithMessages(exception_, buffers) IN
  /\ pc = "parsing"
  /\ e # NoExc \/ ErrorStr # {}
  /\ pc' = "user"
  /\ exception_' = NoExc /\ buffers' = {}
  /\ result' = IF e # NoExc THEN e ELSE ParseError({}, {})
  /\ ReleaseUnderlying
  /\ AfterThrow
  /\ UNCHANGED <<settings, history>>

\* External: xmlParseDocument() returns 0 for a document that it has built.
ParseSucceeds ==
  /\ pc = "parsing"
  /\ WithMessages(exception_, buffers) = NoExc
  /\ ErrorStr = {} /\ ctxt.myDoc # NULL
  /\ pc' = "user"
  /\ UNCHANGED <<exception_, buffers, settings, history>>

\* The options that check_xinclude_and_finish_parsing() gives xmlXIncludeProcessFlags().
ProcessXInclude == "XINCLUDE" \in Combine(settings, settings.own \cap XIncludeFlags)

\* check_xinclude_and_finish_parsing() throws: the context and the document in it stay with
\* the parser until the next parse or the destructor.  A constructor that throws frees them
\* through ~Parser().
XIncludeFails ==
  /\ ProcessXInclude /\ ParseSucceeds
  /\ result' = ParseError({}, {})
  /\ UNCHANGED <<object, doc_, ctxt, docs>>

\* Mutant of Finish: the context is released with the document still in it.
FinishKeepsMyDoc ==
  /\ ParseSucceeds
  /\ doc_' = ctxt.myDoc
  /\ docs' = docs \ {ctxt.myDoc} /\ ctxt' = Closed
  /\ object' = "ready" /\ UNCHANGED result

\* The document moves from the context to a new Document; the context is released.
Finish ==
  /\ ParseSucceeds
  /\ doc_' = ctxt.myDoc
  /\ ctxt' = Closed
  /\ object' = "ready"
  /\ UNCHANGED <<docs, result>>

-----------------------------------------------------------------------------

Next ==
  \/ Construct \/ Destroy \/ SetParserOptions \/ SetXIncludeOptions
  \/ StartParse \/ ConstructAndParse
  \/ DocumentCreated \/ ReportAny
  \/ ParseFails \/ XIncludeFails \/ Finish

Spec == Init /\ [][Next]_vars

-----------------------------------------------------------------------------
(* Properties.                                                             *)

DomTypeOK ==
  /\ object \in {"none", "constructing", "ready"} /\ pc \in {"user", "parsing"}
  /\ doc_ \in Docs \cup {NULL} /\ ctxt \in Context /\ docs \in SUBSET Docs
  /\ exception_ \in Exception /\ result \in Exception
  /\ buffers \in SUBSET Buffers /\ collected \in SUBSET Buffers
  /\ settings \in Settings /\ asked \in SUBSET Flags
  /\ collecting \in BOOLEAN /\ diagnosed \in BOOLEAN

\* Neither the destructor nor a constructor that throws leaves anything allocated.
NothingOutlivesParser == object = "none" => docs = {} /\ ~ctxt.open

\* Every xmlDoc has exactly one owner, the parser's Document or an open context: none is
\* leaked by a parse that fails half-way, none is freed twice, and none outlives the parser, not
\* even a parser whose constructor throws.
DocumentOwnership ==
  /\ docs = {doc_, ctxt.myDoc} \ {NULL}
  /\ doc_ # NULL => ctxt.myDoc = NULL
  /\ ctxt.myDoc # NULL => ctxt.open
  /\ NothingOutlivesParser

\* operator bool(), and get_document() != nullptr.
HasDocument == doc_ # NULL

\* What a parse comes to is what it was asked for: operator bool() says that there is a document
\* if and only if the last parse method returned normally, only a parse that was to validate
\* throws a validity_error, and one in which libxml2 reported nothing fails only in XInclude
\* processing, if that was asked for, whichever of the settings did so.
Outcome ==
  object = "ready" /\ pc = "user" =>
    /\ HasDocument <=> result = NoExc
    /\ result.type = "validity_error" => "DTDVALID" \in asked
    /\ result.type = "parse_error" /\ ~diagnosed => "XINCLUDE" \in asked

\* A parse that reports an error or a warning throws, and what it throws contains every
\* message collected; nothing is left pending for the next one.
MessagesDelivered ==
  pc = "user" =>
    /\ exception_ = NoExc /\ buffers = {}
    /\ collected \subseteq result.msgs
    /\ diagnosed /\ object # "none" => result # NoExc

\* The parse methods and the constructor that parses keep the promise of ParseCall: one outcome
\* for each call, that tells of every message collected for this document and of no other's, and
\* no normal return after an error (DomParser::parse_context, Parser::check_for_exception).
Call == INSTANCE ParseCall WITH
  Messages <- Buffers, running <- pc # "user", collected <- collected, diagnosed <- diagnosed,
  threw <- result # NoExc, told <- result.msgs
ImplementsParseCall == Call!Spec

\* The inductive invariant: with control inside libxml2 the context is open and nothing has
\* been delivered yet, and the buffers hold what has been collected.  The constructor that
\* parses runs before the caller can ask for XInclude.
Parsing ==
  /\ pc = "parsing" => /\ object # "none" /\ ctxt.open /\ doc_ = NULL /\ result = NoExc
                       /\ buffers = collected
                       /\ diagnosed <=> ctxt.lastError # "none"
                       /\ (buffers # {} \/ ~ctxt.wellFormed) => diagnosed
                       /\ buffers \cap ValidityBuffers # {} => "DTDVALID" \in ctxt.options
                       /\ "DTDVALID" \in ctxt.options => "DTDVALID" \in asked
                       /\ ProcessXInclude => "XINCLUDE" \in asked
  /\ object = "constructing" => pc = "parsing" /\ ~ProcessXInclude
  /\ exception_.msgs = {} /\ exception_.type \in {"none", "cloned", "wrapped"}

DomInv ==
  /\ DomTypeOK /\ DocumentOwnership /\ Outcome /\ MessagesDelivered /\ Parsing

=============================================================================
