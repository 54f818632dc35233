--------------------------- MODULE SaxParserProofs ---------------------------
(***************************************************************************)
(* What SaxParser.tla checks on an instance holds for every set of         *)
(* contexts, entities and exceptions.                                      *)
(***************************************************************************)
EXTENDS SaxParser, TLAPS

\* The actions one by one, in the order in which the proofs treat them.
LEMMA NextCases ==
  ASSUME Next
  PROVE \/ Destroy \/ Construct \/ StartDocument \/ SecondParse
        \/ ParseChunk \/ FinishChunkParsing
        \/ \E val \in BOOLEAN : SetThrowMessages(val)
        \/ StartDocumentEvent \/ ContentEvent \/ InternalSubsetEvent \/ EntityDeclEvent
        \/ GetEntityEvent \/ EndDocumentEvent
        \/ \E kind \in {"error", "warning"}, fatal \in BOOLEAN : ReportEvent(kind, fatal)
        \/ \E slot \in {"vctxt_error", "vctxt_warning"} : ValidityEvent(slot)
        \/ EndDocument \/ EndChunk \/ EndFinish
        \/ CallbackReturns \/ CallbackThrows \/ BaseInternalSubset \/ BaseEntityDeclaration
BY DEF Next, Caller, Xml, Callback

-----------------------------------------------------------------------------
(* Type correctness.                                                       *)

\* A context as libxml2 creates it, and as parse() changes it, is a context.
LEMMA ContextTypes ==
  /\ \A own \in Routes : NewContext(own) \in Context
  /\ \A own \in Routes : [NewContext(own) EXCEPT !.sax = "handler"] \in Context
  /\ NoContext \in Context
  /\ \A c \in Context : RestoreSax(c) \in Context
BY DEF NewContext, NoContext, Context, Routes, RestoreSax

\* Every exception the parser makes is an exception.
LEMMA ExceptionTypes ==
  /\ NoExc \in Exception /\ NoExc.msgs = {}
  /\ InternalError \in Exception /\ InternalError # NoExc /\ InternalError.msgs = {}
  /\ ParseError({}, {}) \in Exception /\ ParseError({}, {}) # NoExc
  /\ ParseError({}, {}).msgs = {}
  /\ \A e \in UserExc : Kept(e) \in Exception
  /\ \A e : Kept(e).msgs = {} /\ Kept(e).what = {e} /\ Kept(e) # NoExc
  /\ \A e \in Exception, b \in SUBSET Buffers : WithMessages(e, b) \in Exception
BY DEF NoExc, InternalError, ParseError, ValidityError, Kept, Clone, Wrapped, Exception, ExcTypes,
   WithMessages

\* A message gets into the buffer that is for it, whatever slot libxml2 gives it to.
LEMMA SlotBuffers ==
  ASSUME NEW slot \in Slots
  PROVE  BufferOf(slot) = MessageOf[slot] /\ BufferOf(slot) \in Buffers
BY DEF Slots, BufferOf, Registered, CCallback, Method, MessageOf, Buffers, ParserBuffers,
   ValidityBuffers

\* initialize_context() keeps the types of what it changes.
LEMMA InitializeContextType ==
  ASSUME TypeOK, NEW c \in Context, InitializeContext(c)
  PROVE  /\ buffers' \in SUBSET Buffers /\ sax_handler_' \in Routes /\ ctxt' \in Context
         /\ collecting' \in BOOLEAN /\ declared' \in SUBSET Entities
         /\ entity_resolver_doc_' \in [dtd : BOOLEAN, entities : SUBSET Entities]
BY DEF TypeOK, InitializeContext, Context, Routes, NewDocument

\* handle_exception() does, too.
LEMMA HandleExceptionType ==
  ASSUME TypeOK, NEW c \in Context, NEW e \in UserExc, HandleException(e, c)
  PROVE  exception_' \in Exception /\ ctxt' \in Context /\ thrown' \in SUBSET UserExc
BY ExceptionTypes DEF TypeOK, HandleException, Context

LEMMA CollectType ==
  ASSUME TypeOK, NEW c \in Context, NEW slot \in Slots, Collect(slot, c)
  PROVE  /\ exception_' \in Exception /\ ctxt' \in Context /\ thrown' \in SUBSET UserExc
         /\ buffers' \in SUBSET Buffers /\ collected' \in SUBSET Buffers
<1>1. CASE /\ buffers' = buffers \cup {BufferOf(slot)}
           /\ collected' = collected \cup {MessageOf[slot]}
           /\ ctxt' = c /\ UNCHANGED <<exception_, thrown>>
  BY <1>1, SlotBuffers DEF TypeOK
<1>2. CASE \E e \in UserExc : HandleException(e, c) /\ UNCHANGED <<buffers, collected>>
  BY <1>2, HandleExceptionType DEF TypeOK
<1> QED BY <1>1, <1>2 DEF Collect

LEMMA CheckForExceptionType ==
  ASSUME TypeOK, NEW failed \in BOOLEAN, CheckForException(failed)
  PROVE  exception_' \in Exception /\ buffers' \in SUBSET Buffers /\ result' \in Exception
<1>1. WithMessages(exception_, buffers) \in Exception
  BY ExceptionTypes DEF TypeOK
<1>2. NoExc \in Exception /\ ParseError({}, {}) \in Exception
  BY ExceptionTypes
<1> QED BY <1>1, <1>2 DEF CheckForException

LEMMA ReleaseType ==
  ASSUME TypeOK, NEW c \in Context, ReleaseUnderlying(c)
  PROVE  /\ context_' \in Contexts \cup {NULL} /\ live' \in SUBSET Contexts
         /\ handlerFreed' \in BOOLEAN /\ ctxt' \in Context
BY ContextTypes DEF TypeOK, ReleaseUnderlying

LEMMA CreationFailsType ==
  ASSUME TypeOK, CreationFails
  PROVE  /\ context_' \in Contexts \cup {NULL} /\ live' \in SUBSET Contexts
         /\ handlerFreed' \in BOOLEAN /\ result' \in Exception
BY ExceptionTypes DEF TypeOK, CreationFails, ExcTypes

\* A step of the parser keeps every variable in its type.
LEMMA TypeStep ==
  ASSUME SaxAssumption, TypeOK, [Next]_vars
  PROVE  TypeOK'
<1> USE DEF object, heap, history
<1>1. CASE Destroy
  BY <1>1, ReleaseType DEF TypeOK, Destroy
<1>2. CASE Construct
  BY <1>2, ContextTypes, ExceptionTypes DEF TypeOK, Construct, NewDocument, Routes
<1>3. CASE StartDocument
  <2>1. ASSUME NEW a \in Contexts, NEW own \in {"libxml2", sax_handler_}, Allocate(a),
               InitializeContext([NewContext(own) EXCEPT !.sax = "handler"]),
               pc' = "parsing", event' = "none", result' = NoExc, UNCHANGED exception_,
               Begin("document"), UNCHANGED object
        PROVE  TypeOK'
    <3>1. [NewContext(own) EXCEPT !.sax = "handler"] \in Context
      BY ContextTypes DEF TypeOK, Routes
    <3> QED BY <2>1, <3>1, InitializeContextType, ExceptionTypes DEF TypeOK, Begin, Allocate
  <2>2. CASE CreationFails
    BY <1>3, <2>2, CreationFailsType DEF TypeOK, StartDocument, Begin, CreationFails
  <2> QED BY <1>3, <2>1, <2>2 DEF StartDocument
<1>4. CASE SecondParse
  BY <1>4, ExceptionTypes DEF TypeOK, SecondParse, Begin, ExcTypes
<1>5. ASSUME NEW name \in {"chunk", "finish"}, StartChunk(name)
      PROVE  TypeOK'
  <2>1. Begin(name) /\ UNCHANGED object
    BY <1>5 DEF StartChunk
  <2>2. ASSUME NEW a \in Contexts, Allocate(a), InitializeContext(NewContext(sax_handler_)),
               pc' = "parsing", result' = NoExc, UNCHANGED <<exception_, event>>
        PROVE  TypeOK'
    <3>1. NewContext(sax_handler_) \in Context
      BY ContextTypes DEF TypeOK
    <3> QED BY <2>1, <2>2, <3>1, InitializeContextType, ExceptionTypes DEF TypeOK, Begin, Allocate
  <2>3. ASSUME Resume, pc' = "parsing", result' = NoExc, UNCHANGED <<exception_, event>>
        PROVE  TypeOK'
    <3>1. ctxt' \in Context
      BY <2>3 DEF TypeOK, Resume, Context
    <3> QED BY <2>1, <2>3, <3>1, ExceptionTypes DEF TypeOK, Begin, Resume
  <2>4. CASE CreationFails
    BY <2>1, <2>4, CreationFailsType DEF TypeOK, Begin, CreationFails
  <2> QED BY <1>5, <2>2, <2>3, <2>4 DEF StartChunk
<1>6. ASSUME NEW val \in BOOLEAN, SetThrowMessages(val)
      PROVE  TypeOK'
  BY <1>6 DEF TypeOK, SetThrowMessages
<1>7. CASE StartDocumentEvent
  BY <1>7 DEF TypeOK, StartDocumentEvent, Enter, Events, Context
<1>8. CASE ContentEvent
  BY <1>8 DEF TypeOK, ContentEvent, Enter, Events
<1>9. CASE InternalSubsetEvent
  BY <1>9 DEF TypeOK, InternalSubsetEvent, Enter, Events
<1>10. CASE EntityDeclEvent
  BY <1>10 DEF TypeOK, EntityDeclEvent, Enter, Events
<1>11. CASE GetEntityEvent
  BY <1>11 DEF TypeOK, GetEntityEvent, Enter, Events
<1>12. CASE EndDocumentEvent
  BY <1>12 DEF TypeOK, EndDocumentEvent, Enter, Events, Context
<1>13. ASSUME NEW kind \in {"error", "warning"}, NEW fatal \in BOOLEAN, ReportEvent(kind, fatal)
       PROVE  TypeOK'
  <2> DEFINE c == [ctxt EXCEPT !.lastError = TRUE, !.fatal = @ \/ fatal]
             slot == IF kind = "error" THEN "sax_error" ELSE "sax_warning"
  <2>1. c \in Context /\ slot \in Slots /\ Route \in Routes
    BY DEF TypeOK, Context, Slots, Route
  <2>2. /\ UNCHANGED <<object, heap, sax_handler_, entity_resolver_doc_, call, result,
                       collecting, declared>>
        /\ diagnosed' = TRUE
    BY <1>13 DEF ReportEvent
  <2>3. CASE Route = "collector"
    <3>1. Collect(slot, c) /\ UNCHANGED <<pc, event>>
      BY <1>13, <2>3 DEF ReportEvent
    <3>2. /\ exception_' \in Exception /\ ctxt' \in Context /\ thrown' \in SUBSET UserExc
          /\ buffers' \in SUBSET Buffers /\ collected' \in SUBSET Buffers
      BY <2>1, <3>1, CollectType
    <3> QED BY <2>2, <3>1, <3>2 DEF TypeOK
  <2>4. CASE Route # "collector"
    <3>1. /\ ctxt' = c /\ UNCHANGED <<exception_, buffers, thrown, collected>>
          /\ UNCHANGED <<pc, event>> \/ Enter(kind)
      BY <1>13, <2>4 DEF ReportEvent
    <3> QED BY <2>1, <2>2, <3>1 DEF TypeOK, Enter, Events
  <2> QED BY <2>3, <2>4
<1>14. ASSUME NEW slot \in {"vctxt_error", "vctxt_warning"}, ValidityEvent(slot)
       PROVE  TypeOK'
  <2> DEFINE c == [ctxt EXCEPT !.lastError = TRUE]
  <2>1. c \in Context /\ slot \in Slots
    BY DEF TypeOK, Context, Slots
  <2>2. /\ UNCHANGED <<object, heap, sax_handler_, entity_resolver_doc_, pc, call, event, result,
                       collecting, declared>>
        /\ diagnosed' = TRUE
    BY <1>14 DEF ValidityEvent
  <2>3. CASE Collect(slot, c)
    BY <2>1, <2>2, <2>3, CollectType DEF TypeOK
  <2>4. CASE ctxt' = c /\ UNCHANGED <<exception_, buffers, thrown, collected>>
    BY <2>1, <2>2, <2>4 DEF TypeOK
  <2> QED BY <1>14, <2>3, <2>4 DEF ValidityEvent
<1>15. CASE EndDocument
  <2>1. PICK failed \in BOOLEAN : CheckForException(failed)
    BY <1>15 DEF EndDocument, Failures, TypeOK, Context
  <2> QED BY <1>15, <2>1, CheckForExceptionType, ReleaseType, ContextTypes
          DEF TypeOK, EndDocument, XmlReturns
<1>16. CASE EndChunk
  <2>1. PICK failed \in BOOLEAN : CheckForException(failed)
    BY <1>16 DEF EndChunk, Failures, TypeOK, Context
  <2> QED BY <1>16, <2>1, CheckForExceptionType DEF TypeOK, EndChunk, XmlReturns
<1>17. CASE EndFinish
  <2>1. PICK failed \in BOOLEAN : CheckForException(failed)
    BY <1>17 DEF EndFinish, Failures, TypeOK, Context
  <2> QED BY <1>17, <2>1, CheckForExceptionType, ReleaseType DEF TypeOK, EndFinish, XmlReturns
<1>18. CASE CallbackReturns
  BY <1>18 DEF TypeOK, CallbackReturns
<1>19. CASE CallbackThrows
  BY <1>19, HandleExceptionType DEF TypeOK, CallbackThrows
<1>20. CASE BaseInternalSubset
  BY <1>20 DEF TypeOK, BaseInternalSubset
<1>21. CASE BaseEntityDeclaration
  BY <1>21 DEF TypeOK, BaseEntityDeclaration
<1>22. CASE UNCHANGED vars
  BY <1>22 DEF TypeOK, vars
<1> QED
  BY <1>1, <1>2, <1>3, <1>4, <1>5, <1>6, <1>7, <1>8, <1>9, <1>10, <1>11, <1>12, <1>13, <1>14,
     <1>15, <1>16, <1>17, <1>18, <1>19, <1>20, <1>21, <1>22, NextCases
     DEF ParseChunk, FinishChunkParsing

LEMMA TypeInit == ASSUME SaxAssumption, Init PROVE TypeOK
BY ContextTypes, ExceptionTypes DEF Init, TypeOK, NewDocument, Routes

\* The state of the parser is always well formed.
THEOREM TypeCorrect == Spec => []TypeOK
<1>1. Init => TypeOK
  BY SaxAssumption, TypeInit
<1>2. TypeOK /\ [Next]_vars => TypeOK'
  BY SaxAssumption, TypeStep
<1> QED BY <1>1, <1>2, PTL DEF Spec

-----------------------------------------------------------------------------
(* Safety.                                                                 *)

\* release_underlying() frees the one context there is, and not the parser's handler table
\* unless the context still points to it.
LEMMA ReleaseOwnership ==
  ASSUME SaxAssumption, TypeOK, OneContext, NEW c, c.sax # "handler", ReleaseUnderlying(c)
  PROVE  OneContext' /\ context_' = NULL /\ ctxt' = NoContext
BY DEF SaxAssumption, TypeOK, OneContext, ReleaseUnderlying

\* Allocating a context when there is none leaves one.
LEMMA AllocateOwnership ==
  ASSUME SaxAssumption, OneContext, context_ = NULL, NEW a \in Contexts, Allocate(a)
  PROVE  OneContext' /\ context_' # NULL
BY DEF SaxAssumption, OneContext, Allocate

\* check_for_exception() leaves nothing pending, and delivers what was pending or reports
\* the failure.
LEMMA CheckForExceptionEffect ==
  ASSUME NEW failed \in BOOLEAN, CheckForException(failed)
  PROVE  /\ exception_' = NoExc /\ buffers' = {}
         /\ failed => result' # NoExc
BY ExceptionTypes DEF CheckForException

\* handle_exception() during a call makes an exception pending and stops the context.
LEMMA HandleExceptionEffect ==
  ASSUME context_ # NULL, NEW c \in Context, NEW e, HandleException(e, c)
  PROVE  /\ exception_' # NoExc
         /\ ctxt' = [c EXCEPT !.stop = "now"]
BY ExceptionTypes DEF HandleException

\* What handle_exception() and the collectors do keeps the messages in the buffers.
LEMMA CollectMessages ==
  ASSUME MessagesKept, pc # "user", NEW slot \in Slots, NEW c, Collect(slot, c)
  PROVE  exception_'.msgs = {} /\ buffers' = collected'
BY SlotBuffers, ExceptionTypes DEF MessagesKept, Collect, HandleException

LEMMA MessagesStep ==
  ASSUME SaxAssumption, TypeOK, ConsistentAfterCall, InCall, MessagesKept, [Next]_vars
  PROVE  MessagesKept'
<1> USE DEF object, heap, history
<1>a. NoExc.msgs = {} /\ \A e : Kept(e).msgs = {}
  BY ExceptionTypes
<1>b. pc = "user" => buffers = {} /\ exception_ = NoExc
  BY DEF ConsistentAfterCall
<1>1. CASE Destroy \/ SecondParse \/ \E val \in BOOLEAN : SetThrowMessages(val)
  BY <1>1 DEF Destroy, SecondParse, Begin, SetThrowMessages, MessagesKept
<1>2. CASE Construct
  BY <1>2, <1>a DEF Construct, MessagesKept, InCall
<1>3. CASE StartDocument
  BY <1>3, <1>a, <1>b DEF StartDocument, MayStartDocument, Begin, InitializeContext, CreationFails,
     InCall, MessagesKept
<1>4. ASSUME NEW name \in {"chunk", "finish"}, StartChunk(name)
      PROVE  MessagesKept'
  BY <1>4, <1>a, <1>b DEF StartChunk, Begin, InitializeContext, Resume, CreationFails, MessagesKept
<1>5. CASE StartDocumentEvent \/ ContentEvent \/ InternalSubsetEvent \/ EntityDeclEvent
           \/ GetEntityEvent \/ EndDocumentEvent \/ CallbackReturns \/ BaseInternalSubset
           \/ BaseEntityDeclaration
  BY <1>5 DEF StartDocumentEvent, ContentEvent, InternalSubsetEvent, EntityDeclEvent,
     GetEntityEvent, EndDocumentEvent, CallbackReturns, BaseInternalSubset, BaseEntityDeclaration,
     InDocument, Enter, MessagesKept
<1>6. ASSUME NEW kind \in {"error", "warning"}, NEW fatal \in BOOLEAN, ReportEvent(kind, fatal)
      PROVE  MessagesKept'
  <2>1. pc # "user"
    BY <1>6 DEF ReportEvent, CanReport
  <2>2. \/ UNCHANGED <<exception_, buffers, collected>>
        \/ \E slot \in Slots : \E c : Collect(slot, c)
    BY <1>6 DEF ReportEvent, Slots
  <2> QED BY <2>1, <2>2, CollectMessages DEF MessagesKept
<1>7. ASSUME NEW slot \in {"vctxt_error", "vctxt_warning"}, ValidityEvent(slot)
      PROVE  MessagesKept'
  <2>1. pc # "user"
    BY <1>7 DEF ValidityEvent, CanReport
  <2>2. \/ UNCHANGED <<exception_, buffers, collected>>
        \/ \E c : Collect(slot, c)
    BY <1>7 DEF ValidityEvent
  <2> QED BY <2>1, <2>2, CollectMessages DEF MessagesKept, Slots
<1>8. CASE EndDocument \/ EndChunk \/ EndFinish
  <2>1. PICK failed : CheckForException(failed)
    BY <1>8 DEF EndDocument, EndChunk, EndFinish
  <2>2. pc' = "user"
    BY <1>8 DEF EndDocument, EndChunk, EndFinish, XmlReturns
  <2> QED BY <1>a, <2>1, <2>2 DEF CheckForException, MessagesKept
<1>9. CASE CallbackThrows
  BY <1>9, <1>a DEF CallbackThrows, HandleException, MessagesKept
<1>10. CASE UNCHANGED vars
  BY <1>10 DEF vars, MessagesKept
<1> QED
  BY <1>1, <1>2, <1>3, <1>4, <1>5, <1>6, <1>7, <1>8, <1>9, <1>10, NextCases
     DEF ParseChunk, FinishChunkParsing

\* check_for_exception() at the end of a call hands over the cause of the failure.
LEMMA CheckForExceptionCause ==
  ASSUME TypeOK, MessagesKept, CauseKept, pc # "user",
         NEW failed \in BOOLEAN, CheckForException(failed),
         pc' = "user", UNCHANGED <<thrown, collected>>
  PROVE  NothingLost'
<1> DEFINE e == WithMessages(exception_, buffers)
<1>1. /\ buffers = collected
      /\ thrown = {} => exception_ = NoExc
      /\ thrown # {} => \E x \in thrown : exception_ = Kept(x)
  BY DEF MessagesKept, CauseKept
<1>2. CASE collected = {}
  <2>1. e = exception_
    BY <1>1, <1>2 DEF WithMessages
  <2>2. thrown # {} => result' = exception_
    BY <1>1, <2>1, ExceptionTypes DEF CheckForException
  <2>3. collected \subseteq result'.msgs
    BY <1>2
  <2>4. thrown # {} => \E x \in thrown : result' = Kept(x) /\ result'.what = {x}
    BY <1>1, <2>2, ExceptionTypes
  <2> QED BY <2>3, <2>4 DEF NothingLost
<1>3. CASE collected # {}
  <2>1. /\ e.type \in {"validity_error", "parse_error"}
        /\ e.msgs = exception_.msgs \cup collected
        /\ e.what = IF exception_.type = "wrapped" THEN {} ELSE exception_.what
    BY <1>1, <1>3 DEF WithMessages, ValidityError, ParseError
  <2>2. result' = e
    BY <2>1 DEF CheckForException, NoExc
  <2>3. ASSUME thrown # {}, thrown \cap ForeignExc = {}
        PROVE  \E x \in thrown : e.what = {x}
    <3>1. PICK x \in thrown : exception_ = Kept(x)
      BY <1>1, <2>3
    <3>2. exception_.type = "cloned" /\ exception_.what = {x}
      BY <2>3, <3>1 DEF Kept, Clone
    <3> QED BY <2>1, <3>2
  <2> QED BY <1>3, <2>1, <2>2, <2>3 DEF NothingLost
<1> QED BY <1>2, <1>3

\* What a collector throws is what is pending.
LEMMA CollectCause ==
  ASSUME CauseKept, pc # "user", NEW slot, NEW c, Collect(slot, c)
  PROVE  IF thrown' = {} THEN exception_' = NoExc ELSE \E e \in thrown' : exception_' = Kept(e)
BY DEF CauseKept, Collect, HandleException

\* Every step keeps track of what an on_*() method has thrown, and delivers it.
LEMMA CauseStep ==
  ASSUME IInv, [Next]_vars
  PROVE  CauseKept' /\ NothingLost'
<1> USE DEF object, heap, history
<1>0. /\ TypeOK /\ CauseKept /\ NothingLost
      /\ pc = "user" => exception_ = NoExc
  BY DEF IInv, ConsistentAfterCall
<1>1. CASE Destroy \/ SecondParse \/ \E val \in BOOLEAN : SetThrowMessages(val)
  BY <1>0, <1>1 DEF Destroy, SecondParse, Begin, SetThrowMessages, CauseKept, NothingLost
<1>2. CASE Construct
  BY <1>0, <1>2 DEF Construct, CauseKept, NothingLost, IInv, InCall
<1>3. CASE StartDocument
  <2>1. pc = "user" /\ exception_ = NoExc /\ thrown' = {} /\ collected' = {}
    BY <1>0, <1>3 DEF StartDocument, MayStartDocument, Begin, IInv, InCall
  <2> QED BY <1>3, <2>1 DEF StartDocument, InitializeContext, CreationFails, CauseKept, NothingLost
<1>4. ASSUME NEW name \in {"chunk", "finish"}, StartChunk(name)
      PROVE  CauseKept' /\ NothingLost'
  <2>1. pc = "user" /\ exception_ = NoExc /\ thrown' = {} /\ collected' = {}
    BY <1>0, <1>4 DEF StartChunk, Begin
  <2> QED BY <1>4, <2>1 DEF StartChunk, InitializeContext, Resume, CreationFails, CauseKept,
          NothingLost
<1>5. CASE StartDocumentEvent \/ ContentEvent \/ InternalSubsetEvent \/ EntityDeclEvent
           \/ GetEntityEvent \/ EndDocumentEvent \/ CallbackReturns \/ BaseInternalSubset
           \/ BaseEntityDeclaration
  BY <1>0, <1>5 DEF StartDocumentEvent, ContentEvent, InternalSubsetEvent, EntityDeclEvent,
     GetEntityEvent, EndDocumentEvent, CallbackReturns, BaseInternalSubset, BaseEntityDeclaration,
     InDocument, Enter, CauseKept, NothingLost
<1>6. ASSUME NEW kind \in {"error", "warning"}, NEW fatal \in BOOLEAN, ReportEvent(kind, fatal)
      PROVE  CauseKept' /\ NothingLost'
  <2>1. pc = "parsing" /\ pc' # "user"
    BY <1>6 DEF ReportEvent, CanReport, Enter
  <2>2. UNCHANGED <<exception_, thrown>> \/ \E slot, c : Collect(slot, c)
    BY <1>6 DEF ReportEvent
  <2> QED BY <1>0, <2>1, <2>2, CollectCause DEF CauseKept, NothingLost
<1>7. ASSUME NEW slot \in {"vctxt_error", "vctxt_warning"}, ValidityEvent(slot)
      PROVE  CauseKept' /\ NothingLost'
  <2>1. pc = "parsing" /\ pc' = pc
    BY <1>7 DEF ValidityEvent, CanReport
  <2>2. UNCHANGED <<exception_, thrown>> \/ \E c : Collect(slot, c)
    BY <1>7 DEF ValidityEvent
  <2> QED BY <1>0, <2>1, <2>2, CollectCause DEF CauseKept, NothingLost
<1>8. CASE EndDocument \/ EndChunk \/ EndFinish
  <2>1. PICK failed \in BOOLEAN : CheckForException(ctxt.lastError \/ failed)
    BY <1>0, <1>8 DEF EndDocument, EndChunk, EndFinish, Failures, TypeOK, Context
  <2>2. pc # "user" /\ pc' = "user" /\ UNCHANGED <<thrown, collected>>
    BY <1>8 DEF EndDocument, EndChunk, EndFinish, XmlReturns
  <2>3. NothingLost'
    BY <1>0, <2>1, <2>2, CheckForExceptionCause DEF IInv, TypeOK, Context
  <2> QED BY <2>2, <2>3 DEF CauseKept
<1>9. CASE CallbackThrows
  BY <1>9 DEF CallbackThrows, HandleException, CauseKept, NothingLost
<1>10. CASE UNCHANGED vars
  BY <1>0, <1>10 DEF vars, CauseKept, NothingLost
<1> QED
  BY <1>1, <1>2, <1>3, <1>4, <1>5, <1>6, <1>7, <1>8, <1>9, <1>10, NextCases
     DEF ParseChunk, FinishChunkParsing

\* Every step keeps the inductive invariant.
LEMMA InvStep ==
  ASSUME SaxAssumption, IInv, [Next]_vars
  PROVE  IInv'
<1> DEFINE Rest == /\ OneContext /\ ConsistentAfterCall /\ ErrorsReported
                   /\ EntitiesOfThisDocument /\ InCall /\ PendingStops /\ DiagnosisKept
<1> USE DEF object, heap, history
<1>0. TypeOK /\ TypeOK' /\ Rest
  BY TypeStep DEF IInv
<1>m. MessagesKept' /\ CauseKept' /\ NothingLost'
  BY MessagesStep, CauseStep DEF IInv
<1> SUFFICES Rest'
  BY <1>0, <1>m DEF IInv
<1>1. CASE Destroy
  <2>1. ctxt.sax # "handler"
    BY <1>0, <1>1 DEF Destroy, InCall
  <2>2. OneContext' /\ context_' = NULL /\ ctxt' = NoContext
    BY <1>0, <1>1, <2>1, ReleaseOwnership DEF Destroy
  <2> QED BY <1>0, <1>1, <2>2 DEF Destroy, ConsistentAfterCall, ErrorsReported,
          EntitiesOfThisDocument, InCall, PendingStops, DiagnosisKept, NoContext, NewContext
<1>2. CASE Construct
  BY <1>0, <1>2 DEF Construct, OneContext, ConsistentAfterCall, ErrorsReported,
     EntitiesOfThisDocument, InCall, PendingStops, DiagnosisKept, NoContext, NewContext, TypeOK
<1>3. CASE StartDocument
  <2>1. context_ = NULL /\ pc = "user" /\ ~Pending /\ Begin("document") /\ UNCHANGED object
        /\ alive
    BY <1>0, <1>3 DEF StartDocument, MayStartDocument, InCall, ConsistentAfterCall, Pending
  <2>2. ASSUME NEW a \in Contexts, NEW own \in {"libxml2", sax_handler_}, Allocate(a),
               InitializeContext([NewContext(own) EXCEPT !.sax = "handler"]),
               pc' = "parsing", UNCHANGED exception_
        PROVE  Rest'
    <3>1. OneContext' /\ context_' # NULL
      BY <1>0, <2>1, <2>2, AllocateOwnership
    <3>2. ctxt'.stop = "no"
      BY <2>2 DEF InitializeContext, NewContext
    <3> QED BY <1>0, <2>1, <2>2, <3>1, <3>2 DEF InitializeContext, Begin, ConsistentAfterCall,
            ErrorsReported, EntitiesOfThisDocument, InCall, PendingStops, Pending, DiagnosisKept,
            NewDocument
  <2>3. CASE CreationFails
    BY <1>0, <2>1, <2>3 DEF CreationFails, Begin, OneContext, ConsistentAfterCall,
       ErrorsReported, EntitiesOfThisDocument, InCall, PendingStops, Pending, DiagnosisKept
  <2> QED BY <1>3, <2>2, <2>3 DEF StartDocument
<1>4. CASE SecondParse
  BY <1>0, <1>4 DEF SecondParse, MayStartDocument, Begin, OneContext, ConsistentAfterCall,
     ErrorsReported, EntitiesOfThisDocument, InCall, PendingStops, Pending, DiagnosisKept
<1>5. ASSUME NEW name \in {"chunk", "finish"}, StartChunk(name)
      PROVE  Rest'
  <2>1. pc = "user" /\ alive /\ ~Pending /\ Begin(name) /\ UNCHANGED object
    BY <1>0, <1>5 DEF StartChunk, ConsistentAfterCall, Pending
  <2>2. ASSUME NEW a \in Contexts, context_ = NULL, Allocate(a),
               InitializeContext(NewContext(sax_handler_)),
               pc' = "parsing", UNCHANGED <<exception_, event>>
        PROVE  Rest'
    <3>1. OneContext' /\ context_' # NULL
      BY <1>0, <2>2, AllocateOwnership
    <3>2. ctxt'.stop = "no" /\ ctxt'.sax = "own"
      BY <2>2 DEF InitializeContext, NewContext
    <3> QED BY <1>0, <2>1, <2>2, <3>1, <3>2 DEF InitializeContext, Begin, ConsistentAfterCall,
            ErrorsReported, EntitiesOfThisDocument, InCall, PendingStops, Pending, DiagnosisKept,
            NewDocument
  <2>3. ASSUME context_ # NULL, Resume, pc' = "parsing", UNCHANGED <<exception_, event>>
        PROVE  Rest'
    <3>1. ctxt'.stop # "now" /\ ctxt'.sax = ctxt.sax
      BY <1>0, <2>3 DEF Resume, TypeOK, Context
    <3>2. OneContext' /\ EntitiesOfThisDocument'
      BY <1>0, <2>3 DEF Resume, OneContext, EntitiesOfThisDocument
    <3> QED BY <1>0, <2>1, <2>3, <3>1, <3>2 DEF Resume, Begin, ConsistentAfterCall,
            ErrorsReported, InCall, PendingStops, Pending, DiagnosisKept
  <2>4. CASE context_ = NULL /\ CreationFails
    BY <1>0, <2>1, <2>4 DEF CreationFails, Begin, OneContext, ConsistentAfterCall,
       ErrorsReported, EntitiesOfThisDocument, InCall, PendingStops, Pending, DiagnosisKept
  <2> QED BY <1>5, <2>2, <2>3, <2>4 DEF StartChunk
<1>6. ASSUME NEW val \in BOOLEAN, SetThrowMessages(val)
      PROVE  Rest'
  BY <1>0, <1>6 DEF SetThrowMessages, OneContext, ConsistentAfterCall, ErrorsReported,
     EntitiesOfThisDocument, InCall, PendingStops, Pending, DiagnosisKept
<1>7. CASE StartDocumentEvent
  BY <1>0, <1>7 DEF StartDocumentEvent, Enter, OneContext, ConsistentAfterCall, ErrorsReported,
     EntitiesOfThisDocument, InCall, PendingStops, Pending, DiagnosisKept, TypeOK, Context
<1>8. CASE ContentEvent \/ InternalSubsetEvent \/ EntityDeclEvent \/ GetEntityEvent
  BY <1>0, <1>8 DEF ContentEvent, InternalSubsetEvent, EntityDeclEvent, GetEntityEvent, InDocument,
     Enter, OneContext, ConsistentAfterCall, ErrorsReported,
     EntitiesOfThisDocument, InCall, PendingStops, Pending, DiagnosisKept
<1>12. CASE EndDocumentEvent
  BY <1>0, <1>12 DEF EndDocumentEvent, Enter, OneContext, ConsistentAfterCall, ErrorsReported,
     EntitiesOfThisDocument, InCall, PendingStops, Pending, DiagnosisKept, TypeOK, Context
<1>13. ASSUME NEW c \in Context, NEW slot \in Slots, Collect(slot, c), pc = "parsing",
              c.sax = ctxt.sax, c.stop = ctxt.stop, c.lastError, ctxt.stop # "before",
              UNCHANGED <<object, heap, pc, call, entity_resolver_doc_, declared>>
       PROVE  Rest'
  <2>1. CASE ctxt' = c /\ UNCHANGED exception_
    BY <1>0, <1>13, <2>1 DEF OneContext, ConsistentAfterCall, ErrorsReported,
       EntitiesOfThisDocument, InCall, PendingStops, Pending, DiagnosisKept
  <2>2. CASE \E e \in UserExc : HandleException(e, c)
    <3>1. Pending' /\ ctxt' = [c EXCEPT !.stop = "now"]
      BY <1>0, <1>13, <2>2, HandleExceptionEffect DEF InCall, Pending
    <3>2. ctxt'.stop = "now" /\ ctxt'.sax = c.sax /\ ctxt'.lastError
      BY <1>13, <3>1 DEF Context
    <3> QED BY <1>0, <1>13, <3>1, <3>2 DEF OneContext, ConsistentAfterCall, ErrorsReported,
            EntitiesOfThisDocument, InCall, PendingStops, Pending, DiagnosisKept
  <2> QED BY <1>13, <2>1, <2>2 DEF Collect
<1>14. ASSUME NEW kind \in {"error", "warning"}, NEW fatal \in BOOLEAN, ReportEvent(kind, fatal)
       PROVE  Rest'
  <2> DEFINE c == [ctxt EXCEPT !.lastError = TRUE, !.fatal = @ \/ fatal]
             slot == IF kind = "error" THEN "sax_error" ELSE "sax_warning"
  <2>1. /\ c \in Context /\ slot \in Slots
        /\ c.sax = ctxt.sax /\ c.stop = ctxt.stop /\ c.lastError
    BY <1>0 DEF TypeOK, Context, Slots
  <2>2. /\ pc = "parsing" /\ ctxt.stop # "before"
        /\ UNCHANGED <<object, heap, call, entity_resolver_doc_, declared>>
    BY <1>14 DEF ReportEvent, CanReport
  <2>3. CASE Route = "collector"
    <3>1. Collect(slot, c) /\ UNCHANGED <<pc, event>>
      BY <1>14, <2>3 DEF ReportEvent
    <3> QED BY <1>13, <2>1, <2>2, <3>1
  <2>4. CASE Route # "collector"
    <3>1. ctxt' = c /\ UNCHANGED exception_
      BY <1>14, <2>4 DEF ReportEvent
    <3>2. \/ UNCHANGED pc
          \/ pc' = "callback" /\ event' = kind /\ ~(kind = "error" /\ Pending)
      BY <1>14, <2>4 DEF ReportEvent, Enter
    <3>3. pc' = "callback" => event' = "warning" \/ ~Pending
      BY <2>2, <3>2
    <3> QED BY <1>0, <2>1, <2>2, <3>1, <3>2, <3>3 DEF OneContext, ConsistentAfterCall,
            ErrorsReported, EntitiesOfThisDocument, InCall, PendingStops, Pending, DiagnosisKept
  <2> QED BY <2>3, <2>4
<1>15. ASSUME NEW slot \in {"vctxt_error", "vctxt_warning"}, ValidityEvent(slot)
       PROVE  Rest'
  <2> DEFINE c == [ctxt EXCEPT !.lastError = TRUE]
  <2>1. /\ c \in Context /\ slot \in Slots
        /\ c.sax = ctxt.sax /\ c.stop = ctxt.stop /\ c.lastError
    BY <1>0 DEF TypeOK, Context, Slots
  <2>2. /\ pc = "parsing" /\ ctxt.stop # "before"
        /\ UNCHANGED <<object, heap, pc, call, entity_resolver_doc_, declared>>
    BY <1>15 DEF ValidityEvent, CanReport
  <2>3. CASE Collect(slot, c)
    BY <1>13, <2>1, <2>2, <2>3
  <2>4. CASE ctxt' = c /\ UNCHANGED exception_
    BY <1>0, <2>1, <2>2, <2>4 DEF OneContext, ConsistentAfterCall, ErrorsReported,
       EntitiesOfThisDocument, InCall, PendingStops, Pending, DiagnosisKept
  <2> QED BY <1>15, <2>3, <2>4 DEF ValidityEvent
<1>16. CASE EndDocument
  <2>1. PICK failed \in BOOLEAN : CheckForException(ctxt.lastError \/ failed)
    BY <1>0, <1>16 DEF EndDocument, Failures, TypeOK, Context
  <2>2. /\ exception_' = NoExc /\ buffers' = {}
        /\ ctxt.lastError => result' # NoExc
    BY <2>1, CheckForExceptionEffect
  <2>3. OneContext' /\ context_' = NULL /\ ctxt' = NoContext
    <3>1. RestoreSax(ctxt).sax # "handler"
      BY <1>0 DEF RestoreSax, TypeOK, Context
    <3> QED BY <1>0, <1>16, <3>1, ReleaseOwnership DEF EndDocument
  <2> QED BY <1>0, <1>16, <2>2, <2>3 DEF EndDocument, XmlReturns, ConsistentAfterCall,
          ErrorsReported, EntitiesOfThisDocument, InCall, PendingStops, DiagnosisKept, NoContext,
          NewContext
<1>17. CASE EndChunk
  <2>1. PICK failed \in BOOLEAN : CheckForException(ctxt.lastError \/ failed)
    BY <1>0, <1>17 DEF EndChunk, Failures, TypeOK, Context
  <2>2. /\ exception_' = NoExc /\ buffers' = {}
        /\ ctxt.lastError => result' # NoExc
    BY <2>1, CheckForExceptionEffect
  <2>3. ctxt.sax # "handler"
    BY <1>0, <1>17 DEF EndChunk, XmlReturns, InCall
  <2> QED BY <1>0, <1>17, <2>2, <2>3 DEF EndChunk, XmlReturns, OneContext, ConsistentAfterCall,
          ErrorsReported, EntitiesOfThisDocument, InCall, PendingStops, DiagnosisKept
<1>18. CASE EndFinish
  <2>1. PICK failed \in BOOLEAN : CheckForException(ctxt.lastError \/ failed)
    BY <1>0, <1>18 DEF EndFinish, Failures, TypeOK, Context
  <2>2. /\ exception_' = NoExc /\ buffers' = {}
        /\ ctxt.lastError => result' # NoExc
    BY <2>1, CheckForExceptionEffect
  <2>3. OneContext' /\ context_' = NULL /\ ctxt' = NoContext
    <3>1. ctxt.sax # "handler"
      BY <1>0, <1>18 DEF EndFinish, XmlReturns, InCall
    <3> QED BY <1>0, <1>18, <3>1, ReleaseOwnership DEF EndFinish
  <2> QED BY <1>0, <1>18, <2>2, <2>3 DEF EndFinish, XmlReturns, ConsistentAfterCall,
          ErrorsReported, EntitiesOfThisDocument, InCall, PendingStops, DiagnosisKept, NoContext,
          NewContext
<1>19. CASE CallbackReturns \/ BaseInternalSubset \/ BaseEntityDeclaration
  BY <1>0, <1>19 DEF CallbackReturns, BaseInternalSubset, BaseEntityDeclaration, OneContext,
     ConsistentAfterCall, ErrorsReported, EntitiesOfThisDocument, InCall, PendingStops, Pending,
     DiagnosisKept, TypeOK
<1>20. CASE CallbackThrows
  <2>1. Pending' /\ ctxt' = [ctxt EXCEPT !.stop = "now"]
    BY <1>0, <1>20, HandleExceptionEffect DEF CallbackThrows, InCall, Pending, TypeOK
  <2>2. ctxt'.stop = "now" /\ ctxt'.sax = ctxt.sax /\ ctxt'.lastError = ctxt.lastError
    BY <1>0, <2>1 DEF TypeOK, Context
  <2> QED BY <1>0, <1>20, <2>1, <2>2 DEF CallbackThrows, OneContext, ConsistentAfterCall,
          ErrorsReported, EntitiesOfThisDocument, InCall, PendingStops, Pending, DiagnosisKept
<1>21. CASE UNCHANGED vars
  BY <1>0, <1>21 DEF vars, OneContext, ConsistentAfterCall, ErrorsReported,
     EntitiesOfThisDocument, InCall, PendingStops, Pending, DiagnosisKept
<1> QED
  BY <1>1, <1>2, <1>3, <1>4, <1>5, <1>6, <1>7, <1>8, <1>12, <1>14, <1>15, <1>16, <1>17, <1>18,
     <1>19, <1>20, <1>21, NextCases DEF ParseChunk, FinishChunkParsing

LEMMA InvInit == ASSUME SaxAssumption, Init PROVE IInv
BY TypeInit DEF Init, IInv, OneContext, ConsistentAfterCall, ErrorsReported,
   EntitiesOfThisDocument, InCall, PendingStops, DiagnosisKept, MessagesKept, CauseKept,
   NothingLost, NoContext, NewContext, NoExc

\* The inductive invariant holds.
THEOREM Invariance == Spec => []IInv
<1>1. Init => IInv
  BY SaxAssumption, InvInit
<1>2. IInv /\ [Next]_vars => IInv'
  BY SaxAssumption, InvStep
<1> QED BY <1>1, <1>2, PTL DEF Spec

\* No parser context is leaked or freed twice, and the parser's own handler table is never
\* freed with a context.
THEOREM ContextOwnership == Spec => []OneContext
<1>1. IInv => OneContext BY DEF IInv
<1> QED BY <1>1, Invariance, PTL

\* However a parse ends, the parser is ready for the next one, and no error goes unreported.
THEOREM Consistency == Spec => [](ConsistentAfterCall /\ ErrorsReported)
<1>1. IInv => ConsistentAfterCall /\ ErrorsReported BY DEF IInv
<1> QED BY <1>1, Invariance, PTL

\* Every message collected during a call and one exception that an on_*() method threw, except
\* a foreign one when messages were collected, reach the caller in what the call throws.
THEOREM Delivery == Spec => []NothingLost
<1>1. IInv => NothingLost BY DEF IInv
<1> QED BY <1>1, Invariance, PTL

\* A document is never resolved with the entities of an earlier one.
THEOREM FreshEntities == Spec => []EntitiesOfThisDocument
<1>1. IInv => EntitiesOfThisDocument BY DEF IInv
<1> QED BY <1>1, Invariance, PTL

-----------------------------------------------------------------------------
(* What a step may never do.                                               *)

\* Once an on_*() method has thrown, only messages are told of, and only in the same call.
THEOREM OnlyMessagesAfterExceptionHolds == Spec => OnlyMessagesAfterException
<1> DEFINE A == pc = "parsing" /\ context_' = context_ /\ HasThrown =>
                  /\ pc' = "callback" => event' = "warning"
                  /\ ctxt.stop = "before" => pc' # "callback" /\ UNCHANGED <<thrown, collected>>
<1>1. IInv /\ [Next]_vars => [A]_vars
  <2> SUFFICES ASSUME IInv, Next, pc = "parsing", HasThrown
               PROVE  /\ pc' = "callback" => event' = "warning"
                      /\ ctxt.stop = "before" =>
                           pc' # "callback" /\ UNCHANGED <<thrown, collected>>
    OBVIOUS
  <2> USE DEF history
  <2>1. ctxt.stop # "no" /\ (ctxt.stop = "now" => Pending)
    <3>1. thrown # {} => Pending
      BY ExceptionTypes DEF IInv, CauseKept, Pending
    <3> QED BY <3>1 DEF IInv, PendingStops, HasThrown
  <2>2. ASSUME NEW name \in {"chunk", "finish"}, StartChunk(name)
        PROVE  FALSE
    BY <2>2 DEF StartChunk
  <2>3. ASSUME NEW kind \in {"error", "warning"}, NEW fatal \in BOOLEAN,
               ReportEvent(kind, fatal)
        PROVE  ctxt.stop # "before" /\ (pc' = "callback" => event' = "warning")
    <3>1. ctxt.stop # "before"
      BY <2>3 DEF ReportEvent, CanReport
    <3>2. Pending
      BY <2>1, <3>1 DEF IInv, TypeOK, Context
    <3>3. pc' = "callback" => event' = kind /\ ~(kind = "error" /\ Pending)
      BY <2>3 DEF ReportEvent, Enter
    <3> QED BY <3>1, <3>2, <3>3
  <2>4. CASE EndDocumentEvent
    <3>1. ctxt.stop # "before"
      BY <2>4 DEF EndDocumentEvent
    <3>2. Pending
      BY <2>1, <3>1 DEF IInv, TypeOK, Context
    <3> QED BY <2>4, <3>1, <3>2 DEF EndDocumentEvent
  <2>5. ASSUME \/ StartDocumentEvent \/ ContentEvent \/ InternalSubsetEvent \/ EntityDeclEvent
               \/ GetEntityEvent
        PROVE  FALSE
    BY <2>1, <2>5 DEF StartDocumentEvent, ContentEvent, InternalSubsetEvent, EntityDeclEvent,
       GetEntityEvent, InDocument
  <2>6. ASSUME Destroy \/ StartDocument \/ SecondParse
        PROVE  FALSE
    BY <2>6 DEF Destroy, StartDocument, SecondParse
  <2>7. ASSUME Construct
        PROVE  FALSE
    BY <2>7 DEF Construct, IInv, InCall
  <2>8. ASSUME NEW val \in BOOLEAN, SetThrowMessages(val)
        PROVE  FALSE
    BY <2>8 DEF SetThrowMessages
  <2>9. ASSUME NEW slot \in {"vctxt_error", "vctxt_warning"}, ValidityEvent(slot)
        PROVE  ctxt.stop # "before" /\ pc' # "callback"
    BY <2>9 DEF ValidityEvent, CanReport
  <2>10. CASE EndDocument \/ EndChunk \/ EndFinish
    BY <2>10 DEF EndDocument, EndChunk, EndFinish, XmlReturns
  <2>11. ASSUME CallbackReturns \/ CallbackThrows \/ BaseInternalSubset \/ BaseEntityDeclaration
         PROVE  FALSE
    BY <2>11 DEF CallbackReturns, CallbackThrows, BaseInternalSubset, BaseEntityDeclaration
  <2> QED
    BY <2>2, <2>3, <2>4, <2>5, <2>6, <2>7, <2>8, <2>9, <2>10, <2>11, NextCases
       DEF ParseChunk, FinishChunkParsing
<1> QED BY <1>1, Invariance, PTL DEF Spec, OnlyMessagesAfterException

\* While a context lives, no entity that libxml2 may have been given is freed: a new document
\* for the entities comes only with a new context, at an address that was free.
THEOREM EntitiesStay == Spec => EntitiesStayValid
<1> DEFINE A == context_ # NULL /\ context_' = context_ =>
                  entity_resolver_doc_.entities \subseteq entity_resolver_doc_'.entities
<1>1. IInv /\ [Next]_vars => [A]_vars
  <2> SUFFICES ASSUME IInv, Next, context_ # NULL, context_' = context_
               PROVE  entity_resolver_doc_.entities \subseteq entity_resolver_doc_'.entities
    OBVIOUS
  <2>1. /\ live = {context_} /\ InCall
        /\ entity_resolver_doc_ \in [dtd : BOOLEAN, entities : SUBSET Entities]
    BY DEF IInv, TypeOK, OneContext
  <2>2. CASE StartDocument
    BY <2>1, <2>2 DEF StartDocument, Allocate, CreationFails
  <2>3. ASSUME NEW name \in {"chunk", "finish"}, StartChunk(name)
        PROVE  UNCHANGED entity_resolver_doc_
    BY <2>3 DEF StartChunk, Resume
  <2>4. CASE Construct
    BY <2>1, <2>4 DEF Construct, InCall
  <2>5. CASE BaseInternalSubset
    BY <2>1, <2>5 DEF BaseInternalSubset
  <2>6. CASE BaseEntityDeclaration
    BY <2>1, <2>6 DEF BaseEntityDeclaration
  <2>7. ASSUME NEW kind \in {"error", "warning"}, NEW fatal \in BOOLEAN,
               ReportEvent(kind, fatal)
        PROVE  UNCHANGED entity_resolver_doc_
    BY <2>7 DEF ReportEvent
  <2>8. ASSUME NEW slot \in {"vctxt_error", "vctxt_warning"}, ValidityEvent(slot)
        PROVE  UNCHANGED entity_resolver_doc_
    BY <2>8 DEF ValidityEvent
  <2>9. ASSUME NEW val \in BOOLEAN, SetThrowMessages(val)
        PROVE  UNCHANGED entity_resolver_doc_
    BY <2>9 DEF SetThrowMessages
  <2>10. CASE Destroy \/ SecondParse \/ EndDocument \/ EndChunk \/ EndFinish
    BY <2>10 DEF Destroy, SecondParse, EndDocument, EndChunk, EndFinish
  <2>11. CASE StartDocumentEvent \/ ContentEvent \/ InternalSubsetEvent \/ EntityDeclEvent
              \/ GetEntityEvent \/ EndDocumentEvent
    BY <2>11 DEF StartDocumentEvent, ContentEvent, InternalSubsetEvent, EntityDeclEvent,
       GetEntityEvent, EndDocumentEvent
  <2>12. CASE CallbackReturns \/ CallbackThrows
    BY <2>12 DEF CallbackReturns, CallbackThrows
  <2> QED
    BY <2>2, <2>3, <2>4, <2>5, <2>6, <2>7, <2>8, <2>9, <2>10, <2>11, <2>12, NextCases
       DEF ParseChunk, FinishChunkParsing
<1> QED BY <1>1, Invariance, PTL DEF Spec, EntitiesStayValid

-----------------------------------------------------------------------------
(* The refinement.                                                         *)

\* In terms of ParseCall the end of a call is a normal return or a throw that tells of every
\* message.
LEMMA EndMaps ==
  ASSUME IInv, pc # "user", pc' = "user", NEW failed \in BOOLEAN,
         CheckForException(ctxt.lastError \/ failed), UNCHANGED <<collected, diagnosed>>
  PROVE  Call!Return \/ Call!Throw
<1> DEFINE e == WithMessages(exception_, buffers)
<1>1. /\ exception_.msgs = {} /\ buffers = collected
      /\ diagnosed => ctxt.lastError
  BY DEF IInv, MessagesKept, DiagnosisKept
<1>2. e.msgs = collected /\ (collected # {} => e # NoExc)
  BY <1>1 DEF WithMessages, NoExc, ParseError, ValidityError
<1>3. result'.msgs = collected /\ (diagnosed => result' # NoExc)
  BY <1>1, <1>2, ExceptionTypes DEF CheckForException
<1>4. CASE result' = NoExc
  BY <1>3, <1>4, ExceptionTypes DEF Call!Return
<1>5. CASE result' # NoExc
  BY <1>3, <1>5 DEF Call!Throw
<1> QED BY <1>4, <1>5

\* A message goes into its buffer, or the collector throws: either is a diagnosis.
LEMMA CollectMaps ==
  ASSUME pc # "user", pc' # "user", diagnosed' = TRUE, UNCHANGED result,
         \/ UNCHANGED collected
         \/ \E m \in Buffers : collected' = collected \cup {m}
  PROVE  Call!Diagnose
BY DEF Call!Diagnose

\* Every step of the parser is a step of ParseCall or leaves its variables alone.
LEMMA CallStep ==
  ASSUME IInv, [Next]_vars
  PROVE  [Call!Next]_(Call!vars)
<1> USE DEF object, heap, history
<1>1. CASE Destroy \/ CallbackReturns \/ CallbackThrows \/ BaseInternalSubset
           \/ BaseEntityDeclaration \/ \E val \in BOOLEAN : SetThrowMessages(val)
  BY <1>1 DEF Destroy, CallbackReturns, CallbackThrows, HandleException, BaseInternalSubset,
     BaseEntityDeclaration, SetThrowMessages, Call!vars
<1>2. CASE Construct
  <2>1. pc = "user" /\ NoExc.msgs = {}
    BY <1>2, ExceptionTypes DEF Construct, IInv, InCall
  <2> QED BY <1>2, <2>1 DEF Construct, Call!Next, Call!Renew
<1>3. CASE StartDocument
  <2>1. pc = "user" /\ NoExc.msgs = {}
    BY <1>3, ExceptionTypes DEF StartDocument, MayStartDocument, IInv, InCall
  <2>2. CASE CreationFails
    BY <1>3, <2>1, <2>2, ExceptionTypes DEF StartDocument, Begin, CreationFails, Call!Next,
       Call!Refuse
  <2>3. CASE pc' = "parsing" /\ result' = NoExc
    BY <1>3, <2>1, <2>3 DEF StartDocument, Begin, Call!Next, Call!Start
  <2> QED BY <1>3, <2>2, <2>3 DEF StartDocument
<1>4. CASE SecondParse
  BY <1>4, ExceptionTypes DEF SecondParse, Begin, Call!Next, Call!Refuse
<1>5. ASSUME NEW name \in {"chunk", "finish"}, StartChunk(name)
      PROVE  Call!Next
  <2>1. pc = "user" /\ NoExc.msgs = {}
    BY <1>5, ExceptionTypes DEF StartChunk
  <2>2. CASE CreationFails
    BY <1>5, <2>1, <2>2, ExceptionTypes DEF StartChunk, Begin, CreationFails, Call!Next,
       Call!Refuse
  <2>3. CASE pc' = "parsing" /\ result' = NoExc
    BY <1>5, <2>1, <2>3 DEF StartChunk, Begin, Call!Next, Call!Start
  <2> QED BY <1>5, <2>2, <2>3 DEF StartChunk
<1>6. CASE StartDocumentEvent \/ ContentEvent \/ InternalSubsetEvent \/ EntityDeclEvent
           \/ GetEntityEvent \/ EndDocumentEvent
  BY <1>6 DEF StartDocumentEvent, ContentEvent, InternalSubsetEvent, EntityDeclEvent,
     GetEntityEvent, EndDocumentEvent, InDocument, Enter, Call!vars
<1>7. ASSUME NEW kind \in {"error", "warning"}, NEW fatal \in BOOLEAN, ReportEvent(kind, fatal)
      PROVE  Call!Next
  <2>1. pc # "user" /\ pc' # "user" /\ diagnosed' = TRUE /\ UNCHANGED result
    BY <1>7 DEF ReportEvent, CanReport, Enter
  <2>2. \/ UNCHANGED collected
        \/ \E m \in Buffers : collected' = collected \cup {m}
    <3>1. \A slot \in Slots : MessageOf[slot] \in Buffers
      BY SlotBuffers
    <3> QED BY <1>7, <3>1 DEF ReportEvent, Collect, Slots
  <2> QED BY <2>1, <2>2, CollectMaps DEF Call!Next
<1>8. ASSUME NEW slot \in {"vctxt_error", "vctxt_warning"}, ValidityEvent(slot)
      PROVE  Call!Next
  <2>1. pc # "user" /\ pc' # "user" /\ diagnosed' = TRUE /\ UNCHANGED result
    BY <1>8 DEF ValidityEvent, CanReport
  <2>2. \/ UNCHANGED collected
        \/ \E m \in Buffers : collected' = collected \cup {m}
    <3>1. MessageOf[slot] \in Buffers
      BY SlotBuffers DEF Slots
    <3> QED BY <1>8, <3>1 DEF ValidityEvent, Collect
  <2> QED BY <2>1, <2>2, CollectMaps DEF Call!Next
<1>9. CASE EndDocument \/ EndChunk \/ EndFinish
  <2>1. PICK failed \in BOOLEAN : CheckForException(ctxt.lastError \/ failed)
    BY <1>9 DEF EndDocument, EndChunk, EndFinish, Failures, IInv, TypeOK, Context
  <2>2. pc # "user" /\ pc' = "user" /\ UNCHANGED <<collected, diagnosed>>
    BY <1>9 DEF EndDocument, EndChunk, EndFinish, XmlReturns
  <2> QED BY <2>1, <2>2, EndMaps DEF Call!Next
<1>10. CASE UNCHANGED vars
  BY <1>10 DEF vars, Call!vars
<1> QED
  BY <1>1, <1>2, <1>3, <1>4, <1>5, <1>6, <1>7, <1>8, <1>9, <1>10, NextCases
     DEF ParseChunk, FinishChunkParsing

\* SaxParser implements ParseCall: one outcome for each call, which tells of every message
\* collected for its document, of no other's, and is not a normal return after an error.
THEOREM SaxImplementsParseCall == Spec => ImplementsParseCall
<1>1. Init => Call!Init
  BY ExceptionTypes DEF Init, Call!Init
<1>2. IInv /\ [Next]_vars => [Call!Next]_(Call!vars)
  BY CallStep
<1> QED BY <1>1, <1>2, Invariance, PTL DEF Spec, ImplementsParseCall, Call!Spec

=============================================================================
