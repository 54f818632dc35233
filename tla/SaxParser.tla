------------------------------ MODULE SaxParser ------------------------------
(***************************************************************************)
(* xmlpp::SaxParser and its base xmlpp::Parser: one parser object, the     *)
(* libxml2 parser context it owns while a parse is in progress, and the    *)
(* exception that travels from an overridden on_*() method, through C      *)
(* frames of libxml2, to the caller of the parse method.                   *)
(*                                                                         *)
(* The object is used from one thread.  Control is with the caller ("user"),*)
(* inside xmlParseDocument() or xmlParseChunk() ("parsing"), or inside an  *)
(* on_*() method called back from there ("callback").  What libxml2 does   *)
(* while it parses is external: it reports events, and it returns.         *)
(***************************************************************************)
EXTENDS ParserMessages

CONSTANTS
  Contexts,         \* addresses an xmlParserCtxt may be allocated at
  Entities,         \* names a document declares as entities
  UseGetEntity,     \* the argument of SaxParser's constructor
  CollectorsThrow,  \* the subclass overrides on_parser_*() and on_validity_*(), and they throw
  NULL

ASSUME SaxAssumption ==
  /\ NULL \notin Contexts
  /\ UseGetEntity \in BOOLEAN
  /\ CollectorsThrow \in BOOLEAN

VARIABLES
  alive,                 \* the SaxParser object exists
  context_,              \* Parser::context_
  exception_,            \* Parser::exception_
  buffers,               \* which of the four message buffers of Parser::Impl are not empty
  throw_messages_,       \* Parser::Impl::throw_messages_
  sax_handler_,          \* where the error and warning slots of *sax_handler_ lead
  entity_resolver_doc_,  \* SaxParser::entity_resolver_doc_: its DTD and its entities
  ctxt,                  \* the fields of *context_
  live,                  \* the parser contexts allocated and not freed
  handlerFreed,          \* xmlFreeParserCtxt() has freed *sax_handler_, which a unique_ptr owns
  pc,                    \* where control is
  call,                  \* the parse method called last
  event,                 \* the callback that is running
  result,                \* what the last parse method gave its caller
  collecting,            \* history: throw_messages_ when the context was initialized
  declared,              \* history: the entities the current document has declared
  thrown,                \* history: what on_*() methods threw during the last call
  collected,             \* history: the messages collected during the last call
  diagnosed              \* history: libxml2 reported an error or a warning during the last call

object   == <<alive, throw_messages_>>
heap     == <<context_, live, handlerFreed>>
history  == <<thrown, collected, diagnosed>>
vars == <<object, heap, exception_, buffers, sax_handler_, entity_resolver_doc_, ctxt,
          pc, call, event, result, collecting, declared, history>>

\* Where a slot of a SAX handler table leads: SaxParserCallback and so an on_*() method
\* of the user's subclass, the message collector of Parser, or libxml2's own handler.
Routes == {"user", "collector", "libxml2"}

(***************************************************************************)
(* The context.  stop is "now" from xmlStopParser() to the end of the call *)
(* in which it ran and "before" in later calls; fatal is disableSAX after  *)
(* a fatal error; own is the route of the table the context was created    *)
(* with, and sax tells which table context_->sax points to.                *)
(***************************************************************************)
Context == [sax : {"own", "handler"}, own : Routes, stop : {"no", "now", "before"},
            fatal : BOOLEAN, lastError : BOOLEAN, stage : {"start", "doc", "end"}]
NewContext(own) == [sax |-> "own", own |-> own, stop |-> "no",
                    fatal |-> FALSE, lastError |-> FALSE, stage |-> "start"]
NoContext == NewContext("libxml2")

Events == {"start_document", "end_document", "content", "get_entity", "entity_decl",
           "internal_subset", "error", "warning"}

NewDocument == [dtd |-> FALSE, entities |-> {}]

-----------------------------------------------------------------------------
(* Construction and destruction.                                           *)

Init ==
  /\ alive = TRUE
  /\ context_ = NULL /\ live = {} /\ handlerFreed = FALSE
  /\ exception_ = NoExc /\ buffers = {} /\ throw_messages_ = FALSE
  /\ sax_handler_ = "user" /\ entity_resolver_doc_ = NewDocument
  /\ ctxt = NoContext
  /\ pc = "user" /\ call = "none" /\ event = "none" /\ result = NoExc
  /\ collecting = FALSE /\ declared = {}
  /\ thrown = {} /\ collected = {} /\ diagnosed = FALSE

\* Parser::release_underlying(), where c holds the context's fields: xmlFreeParserCtxt()
\* also frees the handler table that c.sax points to.
ReleaseUnderlying(c) ==
  /\ context_' = NULL
  /\ live' = live \ {context_}
  /\ handlerFreed' = (handlerFreed \/ (context_ # NULL /\ c.sax = "handler"))
  /\ ctxt' = NoContext

Destroy ==
  /\ alive /\ pc = "user"
  /\ alive' = FALSE
  /\ ReleaseUnderlying(ctxt)
  /\ UNCHANGED <<throw_messages_, exception_, buffers, sax_handler_, entity_resolver_doc_,
                 pc, call, event, result, collecting, declared, history>>

\* A new object: the constructors of Parser and SaxParser.
Construct ==
  /\ ~alive
  /\ alive' = TRUE
  /\ context_' = NULL
  /\ exception_' = NoExc /\ buffers' = {} /\ throw_messages_' = FALSE
  /\ sax_handler_' = "user" /\ entity_resolver_doc_' = NewDocument
  /\ ctxt' = NoContext
  /\ call' = "none" /\ result' = NoExc
  /\ collecting' = FALSE /\ declared' = {}
  /\ thrown' = {} /\ collected' = {} /\ diagnosed' = FALSE
  /\ UNCHANGED <<live, handlerFreed, pc, event>>

\* The caller sets it between calls, an on_*() method during one.
SetThrowMessages(val) ==
  /\ alive /\ pc \in {"user", "callback"}
  /\ throw_messages_' = val
  /\ UNCHANGED <<alive, heap, exception_, buffers, sax_handler_, entity_resolver_doc_, ctxt,
                 pc, call, event, result, collecting, declared, history>>

-----------------------------------------------------------------------------
(* The beginning of a call.                                                *)

Begin(name) ==
  /\ call' = name
  /\ thrown' = {} /\ collected' = {} /\ diagnosed' = FALSE

\* Mutant of InitializeContext: the old Document is kept.
InitializeContextOldDocument(c) ==
  /\ buffers' = {} /\ ctxt' = c /\ collecting' = throw_messages_ /\ declared' = {}
  /\ UNCHANGED <<entity_resolver_doc_, sax_handler_>>

\* SaxParser::initialize_context() on a context with fields c.
InitializeContext(c) ==
  /\ buffers' = {}
  /\ sax_handler_' = IF throw_messages_ /\ c.sax = "handler" THEN "collector" ELSE sax_handler_
  /\ ctxt' = IF throw_messages_ /\ c.sax = "own" THEN [c EXCEPT !.own = "collector"] ELSE c
  /\ collecting' = throw_messages_
  /\ entity_resolver_doc_' = NewDocument
  /\ declared' = {}

Allocate(a) ==
  /\ context_' = a
  /\ live' = live \cup {a}
  /\ UNCHANGED handlerFreed

\* A failed allocation, an unreadable file: no context, and the call ends at once.
CreationFails ==
  /\ context_' = NULL
  /\ result' = InternalError
  /\ UNCHANGED <<live, handlerFreed, exception_, buffers, sax_handler_, entity_resolver_doc_,
                 ctxt, pc, event, collecting, declared>>

\* Mutant of MayStartDocument: the test of context_ is missing.
MayStartDocumentAlways == TRUE

MayStartDocument == context_ = NULL

\* parse_file(), parse_memory() and parse_stream() up to xmlParseDocument().  The first two
\* create a context with libxml2's own handlers, the last one with a copy of *sax_handler_;
\* SaxParser::parse() makes context_->sax point to *sax_handler_ itself.
StartDocument ==
  /\ alive /\ pc \in {"user", "callback"}
  /\ MayStartDocument
  /\ Begin("document")
  /\ \/ \E a \in Contexts \ live, own \in {"libxml2", sax_handler_} :
          /\ Allocate(a)
          /\ InitializeContext([NewContext(own) EXCEPT !.sax = "handler"])
          /\ pc' = "parsing" /\ event' = "none" /\ result' = NoExc
          /\ UNCHANGED exception_
     \/ CreationFails
  /\ UNCHANGED object

\* The same methods while a parse is in progress, called between two chunks or by an
\* on_*() method, which may catch what it gets or let it through.
SecondParse ==
  /\ alive /\ pc \in {"user", "callback"}
  /\ ~MayStartDocument
  /\ result' = ParseError({}, {})
  /\ IF pc = "user" THEN Begin("refused") ELSE UNCHANGED <<call, history>>
  /\ UNCHANGED <<object, heap, exception_, buffers, sax_handler_, entity_resolver_doc_, ctxt,
                 pc, event, collecting, declared>>

\* Mutant of Resume: initialize_context() for every chunk.
ResumeInitializes ==
  /\ InitializeContext([ctxt EXCEPT !.lastError = FALSE,
                                    !.stop = IF ctxt.stop # "no" THEN "before" ELSE "no"])
  /\ UNCHANGED heap

\* What parse_chunk_raw() and finish_chunk_parsing() do to a context they find:
\* xmlCtxtResetLastError(); xmlParseChunk() does nothing on a stopped context and is not
\* called while an exception is pending.
Resume ==
  /\ ctxt' = [ctxt EXCEPT !.lastError = FALSE,
                          !.stop = IF ctxt.stop # "no" \/ exception_ # NoExc
                                   THEN "before" ELSE "no"]
  /\ UNCHANGED <<heap, buffers, sax_handler_, entity_resolver_doc_, collecting, declared>>

\* parse_chunk_raw() and finish_chunk_parsing() up to xmlParseChunk().
StartChunk(name) ==
  /\ alive /\ pc = "user"
  /\ Begin(name)
  /\ \/ /\ \/ /\ context_ = NULL
              /\ \E a \in Contexts \ live :
                   /\ Allocate(a)
                   /\ InitializeContext(NewContext(sax_handler_))
           \/ context_ # NULL /\ Resume
        /\ pc' = "parsing" /\ result' = NoExc
        /\ UNCHANGED <<exception_, event>>
     \/ context_ = NULL /\ CreationFails
  /\ UNCHANGED object

ParseChunk         == StartChunk("chunk")
FinishChunkParsing == StartChunk("finish")

-----------------------------------------------------------------------------
(* Events.  External: the order in which libxml2 reports them.  A fatal    *)
(* error leaves only messages and the end of the document; after           *)
(* xmlStopParser() those may still come until xmlParse*() returns, which   *)
(* is why SaxParserCallback::error() and end_document() look at            *)
(* exception_.  warning() does not, nor do the collectors of Parser.       *)
(* fatalError is in the tables and never called.                           *)

InDocument == pc = "parsing" /\ ctxt.stop = "no" /\ ~ctxt.fatal /\ ctxt.stage = "doc"
CanReport  == pc = "parsing" /\ ctxt.stop # "before" /\ ctxt.stage # "end"

\* Mutant of HandleException: the parser is not stopped.
HandleExceptionOnly(e, c) ==
  /\ exception_' = Kept(e)
  /\ ctxt' = c
  /\ thrown' = thrown \cup {e}

\* Parser::handle_exception() with e in flight, where c holds the context's fields.
HandleException(e, c) ==
  /\ exception_' = Kept(e)
  /\ ctxt' = IF context_ # NULL THEN [c EXCEPT !.stop = "now"] ELSE c
  /\ thrown' = thrown \cup {e}

Enter(callback) == pc' = "callback" /\ event' = callback

\* The callbacks in which SaxParserCallback only translates the arguments.
StartDocumentEvent ==
  /\ pc = "parsing" /\ ctxt.stop = "no" /\ ~ctxt.fatal /\ ctxt.stage = "start"
  /\ ctxt' = [ctxt EXCEPT !.stage = "doc"]
  /\ Enter("start_document")
  /\ UNCHANGED <<object, heap, exception_, buffers, sax_handler_, entity_resolver_doc_,
                 call, result, collecting, declared, history>>

\* start_element, end_element, characters, comment and cdata_block.
ContentEvent ==
  /\ InDocument
  /\ Enter("content")
  /\ UNCHANGED <<object, heap, exception_, buffers, sax_handler_, entity_resolver_doc_, ctxt,
                 call, result, collecting, declared, history>>

InternalSubsetEvent ==
  /\ InDocument
  /\ Enter("internal_subset")
  /\ UNCHANGED <<object, heap, exception_, buffers, sax_handler_, entity_resolver_doc_, ctxt,
                 call, result, collecting, declared, history>>

EntityDeclEvent ==
  /\ InDocument
  /\ Enter("entity_decl")
  /\ \E name \in Entities : declared' = declared \cup {name}
  /\ UNCHANGED <<object, heap, exception_, buffers, sax_handler_, entity_resolver_doc_, ctxt,
                 call, result, collecting, history>>

GetEntityEvent ==
  /\ UseGetEntity /\ InDocument
  /\ Enter("get_entity")
  /\ UNCHANGED <<object, heap, exception_, buffers, sax_handler_, entity_resolver_doc_, ctxt,
                 call, result, collecting, declared, history>>

\* Mutant of Pending: the callbacks do not look at exception_.
PendingIgnored == FALSE

\* SaxParserCallback::error() and end_document() return at once while an exception is pending.
Pending == exception_ # NoExc

EndDocumentEvent ==
  /\ pc = "parsing" /\ ctxt.stop # "before" /\ ctxt.stage = "doc"
  /\ call # "chunk" \/ ctxt.fatal
  /\ ctxt' = [ctxt EXCEPT !.stage = "end"]
  /\ IF Pending THEN UNCHANGED <<pc, event>> ELSE Enter("end_document")
  /\ UNCHANGED <<object, heap, exception_, buffers, sax_handler_, entity_resolver_doc_,
                 call, result, collecting, declared, history>>

Route == IF ctxt.sax = "handler" THEN sax_handler_ ELSE ctxt.own

\* Parser::callback_error_or_warning() for a message that libxml2 gives to a slot of the context:
\* on_parser_error() and its three siblings append to a buffer, or throw if the subclass
\* overrides them.
Collect(slot, c) ==
  \/ /\ buffers' = buffers \cup {BufferOf(slot)}
     /\ collected' = collected \cup {MessageOf[slot]}
     /\ ctxt' = c
     /\ UNCHANGED <<exception_, thrown>>
  \/ /\ CollectorsThrow
     /\ \E e \in UserExc : HandleException(e, c)
     /\ UNCHANGED <<buffers, collected>>

\* The error slot is called, for a fatal error or another one, or the warning slot.
ReportEvent(kind, fatal) ==
  LET c == [ctxt EXCEPT !.lastError = TRUE, !.fatal = @ \/ fatal] IN
  /\ CanReport
  /\ diagnosed' = TRUE
  /\ CASE Route = "user" ->
            /\ ctxt' = c
            /\ IF kind = "error" /\ Pending THEN UNCHANGED <<pc, event>> ELSE Enter(kind)
            /\ UNCHANGED <<exception_, buffers, thrown, collected>>
       [] Route = "collector" ->
            /\ Collect(IF kind = "error" THEN "sax_error" ELSE "sax_warning", c)
            /\ UNCHANGED <<pc, event>>
       [] OTHER ->
            /\ ctxt' = c
            /\ UNCHANGED <<pc, event, exception_, buffers, thrown, collected>>
  /\ UNCHANGED <<object, heap, sax_handler_, entity_resolver_doc_, call, result,
                 collecting, declared>>

\* With set_validate(): context_->vctxt.error and warning, which initialize_context() sets
\* only if messages are collected; otherwise libxml2 writes them on stderr.
ValidityEvent(slot) ==
  LET c == [ctxt EXCEPT !.lastError = TRUE] IN
  /\ CanReport
  /\ diagnosed' = TRUE
  /\ IF collecting
     THEN Collect(slot, c)
     ELSE ctxt' = c /\ UNCHANGED <<exception_, buffers, thrown, collected>>
  /\ UNCHANGED <<object, heap, sax_handler_, entity_resolver_doc_, pc, call, event, result,
                 collecting, declared>>

-----------------------------------------------------------------------------
(* The end of a callback, and what the base class does in it.              *)

CallbackReturns ==
  /\ pc = "callback"
  /\ pc' = "parsing" /\ event' = "none"
  /\ UNCHANGED <<object, heap, exception_, buffers, sax_handler_, entity_resolver_doc_, ctxt,
                 call, result, collecting, declared, history>>

\* catch (...) { parser->handle_exception(); } in every callback.
CallbackThrows ==
  /\ pc = "callback"
  /\ \E e \in UserExc : HandleException(e, ctxt)
  /\ pc' = "parsing" /\ event' = "none"
  /\ UNCHANGED <<object, heap, buffers, sax_handler_, entity_resolver_doc_,
                 call, result, collecting, declared, collected, diagnosed>>

\* SaxParser::on_internal_subset(): a second DTD is not created.
BaseInternalSubset ==
  /\ pc = "callback" /\ event = "internal_subset"
  /\ entity_resolver_doc_' = [entity_resolver_doc_ EXCEPT !.dtd = TRUE]
  /\ UNCHANGED <<object, heap, exception_, buffers, sax_handler_, ctxt, pc, call, event, result,
                 collecting, declared, history>>

\* SaxParser::on_entity_declaration().  Document::set_entity_declaration() throws an
\* internal_error if there is no DTD or the entity is already declared; then the callback
\* ends by CallbackThrows.
BaseEntityDeclaration ==
  /\ pc = "callback" /\ event = "entity_decl"
  /\ entity_resolver_doc_.dtd
  /\ \E name \in declared \ entity_resolver_doc_.entities :
       entity_resolver_doc_' = [entity_resolver_doc_ EXCEPT !.entities = @ \cup {name}]
  /\ UNCHANGED <<object, heap, exception_, buffers, sax_handler_, ctxt, pc, call, event, result,
                 collecting, declared, history>>

-----------------------------------------------------------------------------
(* The end of a call.                                                      *)

\* Mutant of CheckForException: the context's own error is not looked at.
CheckForExceptionOnly(failed) ==
  /\ exception_' = NoExc /\ buffers' = {}
  /\ result' = WithMessages(exception_, buffers)

\* check_for_exception(), then the parse_error made of the context's last error or of the
\* code xmlParse*() returned.
CheckForException(failed) ==
  LET e == WithMessages(exception_, buffers) IN
  /\ exception_' = NoExc /\ buffers' = {}
  /\ result' = CASE e # NoExc -> e
                 [] e = NoExc /\ failed -> ParseError({}, {})
                 [] OTHER -> NoExc

\* External: xmlParse*() comes to its end, with a code that is known only if it was not
\* stopped and no error was fatal.
XmlReturns(name) ==
  /\ pc = "parsing" /\ call = name
  /\ name = "chunk" \/ ctxt.stop # "no" \/ ctxt.fatal \/ ctxt.stage = "end"
  /\ pc' = "user"

Failures == IF ctxt.stop # "no" \/ ctxt.fatal THEN BOOLEAN ELSE {FALSE}

RestoreSax(c) == [c EXCEPT !.sax = "own"]

\* SaxParser::parse() after xmlParseDocument().
EndDocument ==
  /\ XmlReturns("document")
  /\ \E failed \in Failures : CheckForException(ctxt.lastError \/ failed)
  /\ ReleaseUnderlying(RestoreSax(ctxt))
  /\ UNCHANGED <<object, sax_handler_, entity_resolver_doc_, call, event, collecting,
                 declared, history>>

\* parse_chunk_raw() after xmlParseChunk(): the context is kept, whatever is thrown.
EndChunk ==
  /\ XmlReturns("chunk")
  /\ \E failed \in Failures : CheckForException(ctxt.lastError \/ failed)
  /\ UNCHANGED <<object, heap, ctxt, sax_handler_, entity_resolver_doc_, call, event,
                 collecting, declared, history>>

\* Mutant of EndFinish: what is thrown is thrown before release_underlying().
EndFinishThrowsFirst ==
  /\ XmlReturns("finish")
  /\ \E failed \in Failures : CheckForException(ctxt.lastError \/ failed)
  /\ IF result' = NoExc THEN ReleaseUnderlying(ctxt) ELSE UNCHANGED <<heap, ctxt>>
  /\ UNCHANGED <<object, sax_handler_, entity_resolver_doc_, call, event, collecting,
                 declared, history>>

\* finish_chunk_parsing() after xmlParseChunk().
EndFinish ==
  /\ XmlReturns("finish")
  /\ \E failed \in Failures : CheckForException(ctxt.lastError \/ failed)
  /\ ReleaseUnderlying(ctxt)
  /\ UNCHANGED <<object, sax_handler_, entity_resolver_doc_, call, event, collecting,
                 declared, history>>

-----------------------------------------------------------------------------

Caller == Destroy \/ Construct \/ StartDocument \/ SecondParse \/ ParseChunk \/ FinishChunkParsing

Xml ==
  \/ StartDocumentEvent \/ ContentEvent \/ InternalSubsetEvent \/ EntityDeclEvent
  \/ GetEntityEvent \/ EndDocumentEvent
  \/ ReportEvent("error", TRUE) \/ ReportEvent("error", FALSE) \/ ReportEvent("warning", FALSE)
  \/ ValidityEvent("vctxt_error") \/ ValidityEvent("vctxt_warning")
  \/ EndDocument \/ EndChunk \/ EndFinish

Callback == CallbackReturns \/ CallbackThrows \/ BaseInternalSubset \/ BaseEntityDeclaration

Next == Caller \/ (\E val \in BOOLEAN : SetThrowMessages(val)) \/ Xml \/ Callback

Spec == Init /\ [][Next]_vars

\* External: a document is finite, so that libxml2 does come to its beginning, to its end and
\* to the end of the call; an on_*() method returns or throws; and the caller finishes what it
\* parses by chunks.
Progress == StartDocumentEvent \/ EndDocumentEvent \/ EndDocument \/ EndChunk \/ EndFinish
Fairness ==
  /\ SF_vars(Progress)
  /\ WF_vars(CallbackReturns \/ CallbackThrows)
  /\ SF_vars(FinishChunkParsing)

FairSpec == Spec /\ Fairness

-----------------------------------------------------------------------------
(* Properties.                                                             *)

TypeOK ==
  /\ alive \in BOOLEAN /\ throw_messages_ \in BOOLEAN
  /\ context_ \in Contexts \cup {NULL} /\ live \in SUBSET Contexts /\ handlerFreed \in BOOLEAN
  /\ exception_ \in Exception /\ result \in Exception
  /\ buffers \in SUBSET Buffers /\ collected \in SUBSET Buffers
  /\ sax_handler_ \in Routes /\ ctxt \in Context
  /\ entity_resolver_doc_ \in [dtd : BOOLEAN, entities : SUBSET Entities]
  /\ pc \in {"user", "parsing", "callback"} /\ event \in Events \cup {"none"}
  /\ call \in {"none", "document", "chunk", "finish", "refused"}
  /\ collecting \in BOOLEAN /\ declared \in SUBSET Entities
  /\ thrown \in SUBSET UserExc /\ diagnosed \in BOOLEAN

\* The parser owns exactly the context that context_ points to: none is leaked by a second
\* parse started inside or between the calls of a first one, none is freed twice, and the
\* handler table the parser lends to a context is never freed with it.
OneContext ==
  /\ live = IF context_ = NULL THEN {} ELSE {context_}
  /\ ~handlerFreed

\* Whatever a call ends with, it leaves nothing of itself behind for the next one: no pending
\* exception, no message and, unless it was parse_chunk(), no context, so that the next parse
\* is neither refused nor blamed for this one.
ConsistentAfterCall ==
  pc = "user" =>
    /\ exception_ = NoExc
    /\ buffers = {}
    /\ call \in {"document", "finish"} => context_ = NULL

\* The exception a call throws carries every message collected during the call and an
\* exception that an on_*() method threw: the very exception if nothing was collected, its
\* text otherwise, except that of a foreign exception then not even the text is left.  Only
\* on_warning() and the collectors may throw after another exception, which is then replaced
\* and of which nothing is told.
NothingLost ==
  pc = "user" =>
    /\ collected \subseteq result.msgs
    /\ collected = {} /\ thrown # {} => \E e \in thrown : result = Kept(e)
    /\ thrown # {} /\ thrown \cap ForeignExc = {} => \E e \in thrown : result.what = {e}

\* A call during which libxml2 reported an error or a warning does not return normally.
ErrorsReported == pc = "user" /\ diagnosed => result # NoExc

\* The parse methods keep the promise of ParseCall: one outcome for each call, that tells of every
\* message collected for this document and of no other's, and no normal return after an error
\* (Parser::check_for_exception, Parser::check_for_error_and_warning_messages).
Call == INSTANCE ParseCall WITH
  Messages <- Buffers, running <- pc # "user", collected <- collected, diagnosed <- diagnosed,
  threw <- result # NoExc, told <- result.msgs
ImplementsParseCall == Call!Spec

\* on_get_entity() of the base class never resolves a reference with an entity that only an
\* earlier document declared.
EntitiesOfThisDocument == context_ # NULL => entity_resolver_doc_.entities \subseteq declared

\* An xmlEntity that get_entity() has given to libxml2 stays allocated as long as the context.
EntitiesStayValid ==
  [][context_ # NULL /\ context_' = context_ =>
       entity_resolver_doc_.entities \subseteq entity_resolver_doc_'.entities]_vars

\* An on_*() method has thrown, in this call or in an earlier one that fed the same context.
HasThrown == thrown # {} \/ ctxt.stop = "before"

\* When an on_*() method has thrown, none that tells of the document is called again with that
\* context, and no on_error().  Of messages alone the subclass may still be told, and only until
\* the call ends that was stopped: by on_warning() and, if messages are collected, by
\* on_parser_error() and its siblings, for SaxParserCallback::warning() and
\* Parser::callback_error_or_warning() do not look at exception_.  The calls that go on to feed
\* and finish the document tell it nothing.
OnlyMessagesAfterException ==
  [][pc = "parsing" /\ context_' = context_ /\ HasThrown =>
       /\ pc' = "callback" => event' = "warning"
       /\ ctxt.stop = "before" => pc' # "callback" /\ UNCHANGED <<thrown, collected>>]_vars

\* A caller that goes on calling finish_chunk_parsing() gets rid of the context, whatever the
\* errors are that libxml2 reports and the exceptions that on_*() methods throw on the way, and
\* may then parse another document.
ContextReleased == context_ # NULL ~> context_ = NULL

(***************************************************************************)
(* The inductive invariant.                                                *)
(***************************************************************************)

\* A parse method is running on a context whose handler table is lent by parse() only.
InCall ==
  /\ pc # "user" => alive /\ context_ # NULL /\ call \in {"document", "chunk", "finish"}
  /\ ctxt.sax = "handler" => pc # "user" /\ call = "document"
  /\ context_ = NULL => ctxt = NoContext
  /\ ~alive => context_ = NULL

\* An exception is pending exactly while libxml2 unwinds from the callback that threw it, and
\* then only on_warning() can be running.
PendingStops ==
  /\ pc # "user" => (Pending <=> ctxt.stop = "now")
  /\ pc = "callback" => ctxt.stop # "before" /\ (event = "warning" \/ ~Pending)

\* During a call an error is recorded in the context, too.
DiagnosisKept == pc # "user" /\ diagnosed => ctxt.lastError

\* During a call the messages are in the buffers, and none is yet in the pending exception.
MessagesKept == exception_.msgs = {} /\ (pc # "user" => buffers = collected)

\* During a call the exception is one that was thrown.
CauseKept ==
  pc # "user" => IF thrown = {} THEN exception_ = NoExc ELSE \E e \in thrown : exception_ = Kept(e)

\* What makes the safety of the parser inductive: with an exception pending the context is
\* stopped, and with a stopped context nothing but the parser itself changes what is pending.
IInv ==
  /\ TypeOK /\ OneContext /\ ConsistentAfterCall /\ ErrorsReported /\ EntitiesOfThisDocument
  /\ InCall /\ PendingStops /\ DiagnosisKept /\ MessagesKept /\ CauseKept /\ NothingLost

\* What parser.h:86 says: if messages are not to be collected, the on_*() methods are called
\* (so that no message of the parser proper goes into a buffer).
RoutingFollowsSetting == ~collecting => collected \cap ParserBuffers = {}

=============================================================================
