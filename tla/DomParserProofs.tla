--------------------------- MODULE DomParserProofs ---------------------------
(***************************************************************************)
(* The ownership of documents by DomParser, for every set of addresses.    *)
(***************************************************************************)
EXTENDS DomParser, TLAPS

\* Every exception that the parser makes is an exception.
LEMMA ExceptionTypes ==
  /\ NoExc \in Exception /\ NoExc.msgs = {} /\ NoExc.type = "none"
  /\ InternalError \in Exception /\ InternalError # NoExc /\ InternalError.msgs = {}
  /\ InternalError.type = "internal_error"
  /\ ParseError({}, {}) \in Exception /\ ParseError({}, {}) # NoExc
  /\ ParseError({}, {}).msgs = {} /\ ParseError({}, {}).type = "parse_error"
  /\ \A e \in UserExc : Kept(e) \in Exception /\ Kept(e).msgs = {}
                         /\ Kept(e).type \in {"cloned", "wrapped"}
  /\ \A e \in Exception, b \in SUBSET Buffers : WithMessages(e, b) \in Exception
BY DEF NoExc, InternalError, ParseError, ValidityError, Kept, Clone, Wrapped, Exception, ExcTypes,
   WithMessages

\* A message gets into the buffer that is for it, whatever slot libxml2 gives it to.
LEMMA SlotBuffers ==
  ASSUME NEW slot \in Slots
  PROVE  /\ BufferOf(slot) = MessageOf[slot] /\ BufferOf(slot) \in Buffers
         /\ BufferOf(slot) \in ValidityBuffers <=> slot \in {"vctxt_error", "vctxt_warning"}
BY DEF Slots, BufferOf, Registered, CCallback, Method, MessageOf, Buffers, ParserBuffers,
   ValidityBuffers

\* Collected messages are in the exception that check_for_exception() throws.
LEMMA MessagesKept ==
  ASSUME NEW e \in Exception, NEW b \in SUBSET Buffers
  PROVE  /\ WithMessages(e, b).msgs = e.msgs \cup b
         /\ b # {} => WithMessages(e, b) # NoExc
         /\ b = {} => WithMessages(e, b) = e
         /\ b # {} => WithMessages(e, b).type = IF b \cap ValidityBuffers # {}
                                              THEN "validity_error" ELSE "parse_error"
BY DEF Exception, WithMessages, NoExc, ParseError, ValidityError

\* A context with the options of some settings, and the absence of a context.
LEMMA ContextTypes ==
  /\ Closed \in Context /\ ~Closed.open /\ Closed.myDoc = NULL
  /\ \A s \in Settings : /\ Open(s) \in Context /\ Open(s).open /\ Open(s).myDoc = NULL
                          /\ Open(s).options = Combine(s, s.own \cap ParserFlags)
BY DEF Closed, Open, Context, Combine, Settings, ParserFlags, Levels

\* Both ways of combining the settings come to what the settings ask for.
LEMMA CombineAsked ==
  ASSUME NEW s \in Settings, Begin(s)
  PROVE  /\ asked' \in SUBSET Flags
         /\ "DTDVALID" \in Combine(s, s.own \cap ParserFlags) => "DTDVALID" \in asked'
         /\ "XINCLUDE" \in Combine(s, s.own \cap XIncludeFlags) => "XINCLUDE" \in asked'
BY DEF Begin, Combine, Settings, ParserFlags, XIncludeFlags

\* A text for every error, and none for none.
LEMMA ErrorStrEmpty ==
  ASSUME ctxt \in Context
  PROVE  ErrorStr = {} <=> ctxt.lastError = "none" /\ ctxt.wellFormed
BY DEF ErrorStr, FormatXmlParserError, FormatXmlError, Context, Levels

LEMMA DomInit == ASSUME DomAssumption, Init PROVE DomInv
BY ContextTypes, ExceptionTypes
   DEF Init, DomInv, DomTypeOK, DocumentOwnership, NothingOutlivesParser, Outcome, HasDocument,
       MessagesDelivered, Parsing, Settings, Defaults

\* Every step keeps the invariant.
LEMMA DomStep ==
  ASSUME DomAssumption, DomInv, [Next]_vars
  PROVE  DomInv'
<1> USE DEF DomInv, history
<1>0. /\ NULL \notin Docs /\ Defaults \in Settings
      /\ DomTypeOK /\ DocumentOwnership /\ Outcome /\ MessagesDelivered /\ Parsing
  BY DEF DomAssumption, Defaults, Settings
<1>1. CASE Construct
  <2>1. asked' \in SUBSET Flags /\ collected' = {} /\ diagnosed' = FALSE
    BY <1>1 DEF Construct, Begin
  <2>2. pc = "user" /\ pc' = "user" /\ object' = "ready" /\ docs = {} /\ ctxt.myDoc = NULL
    BY <1>0, <1>1 DEF Construct, Parsing, DocumentOwnership, NothingOutlivesParser, DomTypeOK,
       Context
  <2> QED BY <1>0, <1>1, <2>1, <2>2, ExceptionTypes DEF Construct, DomTypeOK, DocumentOwnership,
          NothingOutlivesParser, Outcome, HasDocument, MessagesDelivered, Parsing
<1>2. CASE Destroy
  BY <1>0, <1>2, ContextTypes DEF Destroy, ReleaseUnderlying, DomTypeOK, DocumentOwnership,
     NothingOutlivesParser, Outcome, HasDocument, MessagesDelivered, Parsing
<1>3. ASSUME NEW new \in Settings, Settle(new)
      PROVE  DomInv'
  BY <1>0, <1>3 DEF Settle, DomTypeOK, DocumentOwnership, NothingOutlivesParser, Outcome,
     HasDocument, MessagesDelivered, Parsing
<1>4. CASE SetParserOptions \/ SetXIncludeOptions
  <2>1. \E new \in Settings : Settle(new)
    BY <1>0, <1>4 DEF SetParserOptions, SetXIncludeOptions, Settings, DomTypeOK, ParserFlags,
       XIncludeFlags
  <2> QED BY <2>1, <1>3
<1>5. ASSUME NEW s \in Settings, Begin(s), OpenContext(s), settings' = s, exception_' = NoExc,
             doc_' = NULL, docs' = {}, object' \in {"ready", "constructing"},
             object' = "constructing" => ~ProcessXInclude'
      PROVE  DomInv'
  <2>1. /\ ctxt' \in Context /\ ctxt'.open /\ ctxt'.myDoc = NULL /\ ctxt'.lastError = "none"
        /\ ctxt'.wellFormed /\ ctxt'.options = Combine(s, s.own \cap ParserFlags)
    BY <1>5, ContextTypes DEF OpenContext, Open, Closed
  <2>2. /\ pc' = "parsing" /\ buffers' = {} /\ result' = NoExc /\ collecting' \in BOOLEAN
        /\ collected' = {} /\ diagnosed' = FALSE
    BY <1>5 DEF OpenContext, Begin, Settings
  <2>3. DomTypeOK'
    BY <1>5, <2>1, <2>2, CombineAsked, ExceptionTypes DEF DomTypeOK
  <2>4. Parsing'
    BY <1>5, <2>1, <2>2, CombineAsked, ExceptionTypes DEF Parsing, ProcessXInclude
  <2> QED BY <1>0, <1>5, <2>1, <2>2, <2>3, <2>4 DEF DocumentOwnership, NothingOutlivesParser,
          Outcome, MessagesDelivered
<1>6. CASE StartParse
  <2>1. Begin(settings) /\ settings \in Settings /\ UNCHANGED settings
    BY <1>6 DEF StartParse, DomTypeOK
  <2>2. object = "ready" /\ pc = "user" /\ UNCHANGED object /\ exception_' = NoExc
        /\ doc_' = NULL /\ docs' = {}
    BY <1>0, <1>6 DEF StartParse, DocumentOwnership, MessagesDelivered
  <2>3. CASE OpenContext(settings)
    BY <1>5, <2>1, <2>2, <2>3
  <2>4. CASE ctxt' = Closed /\ result' = InternalError /\ UNCHANGED <<pc, buffers, collecting>>
    BY <1>0, <2>1, <2>2, <2>4, ContextTypes, ExceptionTypes, CombineAsked DEF Begin, DomTypeOK,
       DocumentOwnership, NothingOutlivesParser, Outcome, HasDocument, MessagesDelivered, Parsing
  <2> QED BY <1>6, <2>3, <2>4 DEF StartParse
<1>7. CASE ConstructAndParse
  <2>1. PICK validate \in SUBSET (ParserFlags \cap {"DTDVALID"}) :
          /\ settings' = [Defaults EXCEPT !.own = validate]
          /\ Begin(settings')
          /\ \/ OpenContext(settings') /\ object' = "constructing"
             \/ /\ result' = InternalError /\ buffers' = {}
                /\ UNCHANGED <<object, ctxt, pc, collecting>>
    BY <1>7 DEF ConstructAndParse
  <2>2. /\ settings' \in Settings
        /\ ~ProcessXInclude'
    BY <2>1 DEF Settings, Defaults, ParserFlags, XIncludeFlags, ProcessXInclude, Combine
  <2>3. /\ object = "none" /\ pc = "user" /\ docs' = {} /\ doc_' = NULL /\ exception_' = NoExc
    BY <1>0, <1>7 DEF ConstructAndParse, DocumentOwnership, NothingOutlivesParser, Parsing,
       DomTypeOK
  <2>4. CASE OpenContext(settings') /\ object' = "constructing"
    BY <1>5, <2>1, <2>2, <2>3, <2>4
  <2>5. CASE result' = InternalError /\ buffers' = {} /\ UNCHANGED <<object, ctxt, pc, collecting>>
    BY <1>0, <2>1, <2>2, <2>3, <2>5, ExceptionTypes, CombineAsked DEF Begin, DomTypeOK,
       DocumentOwnership, NothingOutlivesParser, Outcome, HasDocument, MessagesDelivered, Parsing
  <2> QED BY <2>1, <2>4, <2>5
<1>8. CASE DocumentCreated
  <2>1. PICK d \in Docs \ docs : ctxt' = [ctxt EXCEPT !.myDoc = d] /\ docs' = docs \cup {d}
    BY <1>8 DEF DocumentCreated
  <2>2. /\ ctxt' \in Context /\ ctxt'.myDoc = d /\ ctxt'.open = ctxt.open
        /\ ctxt'.lastError = ctxt.lastError /\ ctxt'.options = ctxt.options
        /\ ctxt'.wellFormed = ctxt.wellFormed
    BY <2>1 DEF DomTypeOK, Context
  <2> QED BY <1>0, <1>8, <2>1, <2>2 DEF DocumentCreated, DomTypeOK, DocumentOwnership,
          NothingOutlivesParser, Outcome, HasDocument, MessagesDelivered, Parsing, ProcessXInclude
<1>9. ASSUME NEW slot \in Slots, NEW level \in {"warning", "error", "fatal"}, Report(slot, level)
      PROVE  DomInv'
  <2> DEFINE c == [ctxt EXCEPT !.lastError = level, !.wellFormed = @ /\ level # "fatal"]
  <2>1. /\ pc = "parsing" /\ diagnosed' = TRUE
        /\ slot \in {"vctxt_error", "vctxt_warning"} => "DTDVALID" \in ctxt.options
        /\ UNCHANGED <<object, pc, doc_, docs, settings, result, asked, collecting>>
    BY <1>9 DEF Report
  <2>2. /\ c \in Context /\ c.myDoc = ctxt.myDoc /\ c.open = ctxt.open /\ c.lastError = level
        /\ c.options = ctxt.options
    BY <1>0 DEF DomTypeOK, Context, Levels
  <2>3. /\ MessageOf[slot] = BufferOf(slot) /\ BufferOf(slot) \in Buffers
        /\ BufferOf(slot) \in ValidityBuffers => "DTDVALID" \in ctxt.options
    BY <2>1, SlotBuffers
  <2>4. CASE ctxt' = c /\ UNCHANGED exception_
             /\ (\/ UNCHANGED <<buffers, collected>>
                 \/ /\ buffers' = buffers \cup {BufferOf(slot)}
                    /\ collected' = collected \cup {MessageOf[slot]})
    BY <1>0, <2>1, <2>2, <2>3, <2>4 DEF DomTypeOK, DocumentOwnership, NothingOutlivesParser,
       Outcome, HasDocument, MessagesDelivered, Parsing, ProcessXInclude
  <2>5. ASSUME NEW e \in UserExc, exception_' = Kept(e), ctxt' = [c EXCEPT !.stopped = TRUE],
               UNCHANGED <<buffers, collected>>
        PROVE  DomInv'
    <3>1. /\ ctxt' \in Context /\ ctxt'.myDoc = ctxt.myDoc /\ ctxt'.open = ctxt.open
          /\ ctxt'.lastError = level /\ ctxt'.options = ctxt.options
      BY <2>2, <2>5 DEF Context
    <3> QED BY <1>0, <2>1, <2>5, <3>1, ExceptionTypes DEF DomTypeOK, DocumentOwnership,
            NothingOutlivesParser, Outcome, HasDocument, MessagesDelivered, Parsing,
            ProcessXInclude
  <2> QED BY <1>9, <2>4, <2>5 DEF Report, Collect, Append
<1>10. CASE ParseFails
  <2> DEFINE e == WithMessages(exception_, buffers)
  <2>1. /\ e \in Exception /\ buffers \subseteq e.msgs /\ (buffers # {} => e # NoExc)
        /\ e.type = "validity_error" => buffers \cap ValidityBuffers # {}
        /\ e.type = "parse_error" => buffers # {}
    BY <1>0, ExceptionTypes, MessagesKept DEF DomTypeOK, Parsing
  <2>2. /\ pc = "parsing" /\ pc' = "user" /\ exception_' = NoExc /\ buffers' = {}
        /\ e # NoExc \/ ErrorStr # {}
        /\ result' = IF e # NoExc THEN e ELSE ParseError({}, {})
        /\ ReleaseUnderlying /\ AfterThrow /\ UNCHANGED <<settings, history>>
    BY <1>10 DEF ParseFails
  <2>3. result' \in Exception /\ result' # NoExc /\ collected \subseteq result'.msgs
    BY <1>0, <2>1, <2>2, ExceptionTypes DEF Parsing
  <2>4. /\ result'.type = "validity_error" => "DTDVALID" \in asked
        /\ result'.type = "parse_error" => diagnosed
    BY <1>0, <2>1, <2>2, ErrorStrEmpty, ExceptionTypes DEF Parsing, DomTypeOK
  <2> QED BY <1>0, <2>2, <2>3, <2>4, ContextTypes, ExceptionTypes DEF ReleaseUnderlying,
          AfterThrow, DomTypeOK, DocumentOwnership, NothingOutlivesParser, Outcome, HasDocument,
          MessagesDelivered, Parsing
<1>11. ASSUME ParseSucceeds
       PROVE  /\ exception_ = NoExc /\ buffers = {} /\ collected = {} /\ ~diagnosed
              /\ ctxt.myDoc \in Docs /\ doc_ = NULL /\ docs = {ctxt.myDoc} /\ ctxt.open
  <2>1. buffers = {} /\ exception_ = NoExc
    BY <1>0, <1>11, MessagesKept DEF ParseSucceeds, DomTypeOK
  <2> QED BY <1>0, <1>11, <2>1, ErrorStrEmpty DEF ParseSucceeds, Parsing, DomTypeOK, Context,
          DocumentOwnership
<1>12. CASE XIncludeFails
  BY <1>0, <1>11, <1>12, ContextTypes, ExceptionTypes DEF XIncludeFails, ParseSucceeds, DomTypeOK,
     DocumentOwnership, NothingOutlivesParser, Outcome, HasDocument, MessagesDelivered, Parsing
<1>13. CASE Finish
  BY <1>0, <1>11, <1>13, ContextTypes, ExceptionTypes DEF Finish, ParseSucceeds, DomTypeOK,
     DocumentOwnership, NothingOutlivesParser, Outcome, HasDocument, MessagesDelivered, Parsing
<1>14. CASE UNCHANGED vars
  BY <1>0, <1>14 DEF vars, DomTypeOK, DocumentOwnership, NothingOutlivesParser, Outcome,
     HasDocument, MessagesDelivered, Parsing, ProcessXInclude
<1> QED
  BY <1>1, <1>2, <1>4, <1>6, <1>7, <1>8, <1>9, <1>10, <1>12, <1>13, <1>14
     DEF Next, ReportAny, Slots

\* The inductive invariant of DomParser, type correctness included.
THEOREM DomInvariance == Spec => []DomInv
<1>1. Init => DomInv
  BY DomAssumption, DomInit
<1>2. DomInv /\ [Next]_vars => DomInv'
  BY DomAssumption, DomStep
<1> QED BY <1>1, <1>2, PTL DEF Spec

\* Every document has one owner, and none outlives the parser.
THEOREM DomOwnership == Spec => []DocumentOwnership
<1>1. DomInv => DocumentOwnership BY DEF DomInv
<1> QED BY <1>1, DomInvariance, PTL

\* A parser has a document exactly if its last parse returned, and what a failed parse throws
\* contains what was collected.
THEOREM DomOutcome == Spec => [](Outcome /\ MessagesDelivered)
<1>1. DomInv => Outcome /\ MessagesDelivered BY DEF DomInv
<1> QED BY <1>1, DomInvariance, PTL

-----------------------------------------------------------------------------
(* The refinement.                                                         *)

\* Every step of the parser is a step of ParseCall or leaves its variables alone.
LEMMA CallStep ==
  ASSUME DomInv, [Next]_vars
  PROVE  [Call!Next]_(Call!vars)
<1> USE DEF history
<1>1. CASE Construct
  <2>1. pc = "user"
    BY <1>1 DEF Construct, DomInv, DomTypeOK, Parsing
  <2> QED BY <1>1, <2>1, ExceptionTypes DEF Construct, Begin, Call!Next, Call!Renew
<1>2. CASE Destroy \/ SetParserOptions \/ SetXIncludeOptions \/ DocumentCreated
  BY <1>2 DEF Destroy, SetParserOptions, SetXIncludeOptions, Settle, DocumentCreated, Call!vars
<1>3. ASSUME pc = "user", NEW s, Begin(s), OpenContext(s)
      PROVE  Call!Start
  BY <1>3, ExceptionTypes DEF Begin, OpenContext, Call!Start
<1>4. ASSUME pc = "user", NEW s, Begin(s), result' = InternalError, UNCHANGED pc
      PROVE  Call!Refuse
  BY <1>4, ExceptionTypes DEF Begin, Call!Refuse
<1>5. CASE StartParse
  BY <1>3, <1>4, <1>5 DEF StartParse, Call!Next
<1>6. CASE ConstructAndParse
  <2>1. pc = "user"
    BY <1>6 DEF ConstructAndParse, DomInv, DomTypeOK, Parsing
  <2> QED BY <1>3, <1>4, <1>6, <2>1 DEF ConstructAndParse, Call!Next
<1>7. ASSUME NEW slot \in Slots, NEW level, Report(slot, level)
      PROVE  Call!Next
  <2>1. pc = "parsing" /\ pc' = pc /\ diagnosed' = TRUE /\ UNCHANGED result
    BY <1>7 DEF Report
  <2>2. \/ UNCHANGED collected
        \/ collected' = collected \cup {MessageOf[slot]} /\ MessageOf[slot] \in Buffers
    BY <1>7, SlotBuffers DEF Report, Collect
  <2> QED BY <2>1, <2>2 DEF Call!Next, Call!Diagnose
<1>8. CASE ParseFails
  <2> DEFINE e == WithMessages(exception_, buffers)
  <2>1. e.msgs = exception_.msgs \cup buffers
    BY MessagesKept DEF DomInv, DomTypeOK
  <2>2. /\ pc = "parsing" /\ pc' = "user" /\ UNCHANGED history
        /\ e # NoExc \/ ErrorStr # {}
        /\ result' = IF e # NoExc THEN e ELSE ParseError({}, {})
    BY <1>8 DEF ParseFails
  <2>3. exception_.msgs = {} /\ buffers = collected
    BY <2>2 DEF DomInv, Parsing
  <2>4. result' # NoExc /\ result'.msgs = collected
    BY <2>1, <2>2, <2>3, ExceptionTypes
  <2> QED BY <2>2, <2>4 DEF Call!Next, Call!Throw
<1>9. ASSUME ParseSucceeds
      PROVE  pc = "parsing" /\ pc' = "user" /\ UNCHANGED history /\ collected = {} /\ ~diagnosed
             /\ result = NoExc
  <2>1. buffers = {}
    BY <1>9, MessagesKept DEF ParseSucceeds, DomInv, DomTypeOK
  <2> QED BY <1>9, <2>1, ErrorStrEmpty DEF ParseSucceeds, DomInv, DomTypeOK, Parsing
<1>10. CASE XIncludeFails
  BY <1>9, <1>10, ExceptionTypes DEF XIncludeFails, Call!Next, Call!Throw
<1>11. CASE Finish
  BY <1>9, <1>11, ExceptionTypes DEF Finish, Call!Next, Call!Return
<1>12. CASE UNCHANGED vars
  BY <1>12 DEF vars, Call!vars
<1> QED
  BY <1>1, <1>2, <1>5, <1>6, <1>7, <1>8, <1>10, <1>11, <1>12
     DEF Next, ReportAny, Slots

\* DomParser implements ParseCall: one outcome for each call, which tells of every message
\* collected for its document, of no other's, and is not a normal return after an error.
THEOREM DomImplementsParseCall == Spec => ImplementsParseCall
<1>1. Init => Call!Init
  BY ExceptionTypes DEF Init, Call!Init
<1>2. DomInv /\ [Next]_vars => [Call!Next]_(Call!vars)
  BY CallStep
<1> QED BY <1>1, <1>2, DomInvariance, PTL DEF Spec, ImplementsParseCall, Call!Spec

=============================================================================
