------------------------------ MODULE Validator ------------------------------
(***************************************************************************)
(* xmlpp::DtdValidator, XsdValidator and RelaxNGValidator with the Dtd,    *)
(* XsdSchema and RelaxNGSchema objects they use: who deletes a schema and  *)
(* what it wraps, when the validation context that validate() keeps is     *)
(* still good, and which call throws what a handler threw or collected.    *)
(***************************************************************************)
CONSTANTS
  Schemas,     \* addresses of C++ schema objects: Dtd, XsdSchema or RelaxNGSchema
  Underlying,  \* addresses of what they wrap: _xmlDtd, _xmlSchema, _xmlRelaxNG, a copied _xmlDoc
  XmlppExc,    \* exceptions derived from xmlpp::exception that a subclass throws when it is told
  ForeignExc,  \* other exceptions that it throws then
  Uses,        \* what else happens, of the next three
  NULL

\* A schema is parsed again while a validator that has validated with it refers to it.
Reparse == "Reparse"
\* A subclass overrides on_validity_warning() and throws from it.
WarningHandlerThrows == "WarningHandlerThrows"
\* libxml2 cannot allocate the parser context with which a constructor of XsdSchema would
\* parse the copy of a document.
NoParserContext == "NoParserContext"

ASSUME SchemasAssumption == NULL \notin Schemas \cup Underlying
ASSUME HandlersAssumption ==
  /\ XmlppExc \cap ForeignExc = {}
  /\ (XmlppExc \cup ForeignExc) \cap {"error", "warning"} = {}
ASSUME ValidatorUsesAssumption == Uses \subseteq {Reparse, WarningHandlerThrows, NoParserContext}

Kinds == {"dtd", "xsd", "relaxng"}

VARIABLES
  kind,             \* which of the three validators it is
  objects,          \* the schema objects that exist
  callers,          \* those that the caller is responsible for deleting
  impl,             \* *pimpl_ of a schema object: what it parsed, and XsdSchema's copied document
  underlying,       \* what libxml2 has allocated for them and not freed
  alive,            \* the validator exists
  schema,           \* its pimpl_->schema or pimpl_->dtd
  is_schema_owner,  \* its pimpl_->is_schema_owner or is_dtd_owner
  context,          \* its pimpl_->context, and the schema which that was created for
  exception_,       \* Validator::exception_, by what it tells of; {} is nullptr
  validate_error_,  \* Validator::validate_error_, by what it tells of; {} is empty
  validate_warning_,
  pc,               \* "user", or "validating" while libxml2 validates
  result,           \* what the last call threw
  invalid,          \* libxml2 has found the document invalid
  reported,         \* history: the messages collected in the last validate()
  lastThrown        \* history: the last exception that a handler threw in it

schemaVars    == <<kind, objects, callers, impl, underlying>>
validatorVars == <<alive, schema, is_schema_owner, context>>
messageVars   == <<exception_, validate_error_, validate_warning_>>
callVars      == <<pc, result, invalid, reported, lastThrown>>
vars          == <<schemaVars, validatorVars, messageVars, callVars>>

\* What is told: a message or a handler's exception, of this validate() or an earlier one.
HandlerExc == XmlppExc \cup ForeignExc
Subjects == {"error", "warning"} \cup HandlerExc
Notes    == Subjects \X {"now", "earlier"}
Now(subject) == {<<subject, "now">>}
Aged(notes)  == {<<note[1], "earlier">> : note \in notes}

Outcomes == {"returns", "parse_error", "internal_error", "validity_error", "handlers"}
Result   == [kind : Outcomes, tells : SUBSET Notes]
Outcome(k) == [kind |-> k, tells |-> {}]

Context   == [open : BOOLEAN, schema : Underlying \cup {NULL}]
NoContext == [open |-> FALSE, schema |-> NULL]

\* What a schema object can wrap, of the addresses in `free`: only XsdSchema keeps a document.
Impls(free) == {p \in [schema : free \cup {NULL}, document : free \cup {NULL}] :
                  p.schema = p.document => p.schema = NULL}
Empty       == [schema |-> NULL, document |-> NULL]
Held(p)     == {p.schema, p.document} \ {NULL}

\* What a parse that succeeds leaves in a schema object.
Parsed(free) == {p \in Impls(free) : p.schema # NULL /\ (p.document # NULL => kind = "xsd")}

Init ==
  /\ kind \in Kinds
  /\ objects = {} /\ callers = {} /\ impl = [s \in Schemas |-> Empty] /\ underlying = {}
  /\ alive = FALSE /\ schema = NULL /\ is_schema_owner = FALSE /\ context = NoContext
  /\ exception_ = {} /\ validate_error_ = {} /\ validate_warning_ = {}
  /\ pc = "user" /\ result = Outcome("returns") /\ invalid = FALSE /\ reported = {} /\ lastThrown = {}

\* A call other than validate() ends.
Ends(k) == result' = Outcome(k) /\ UNCHANGED <<pc, invalid, reported, lastThrown>>

-----------------------------------------------------------------------------
(* Schema objects.                                                         *)

Free == Underlying \ underlying

\* A constructor: the default one, or one that parses and does not throw.
NewSchema ==
  /\ pc = "user"
  /\ \E s \in Schemas \ objects, p \in Parsed(Free) \cup {Empty} :
       /\ objects' = objects \cup {s} /\ callers' = callers \cup {s}
       /\ impl' = [impl EXCEPT ![s] = p]
       /\ underlying' = underlying \cup Held(p)
  /\ Ends("returns")
  /\ UNCHANGED <<kind, validatorVars, messageVars>>

\* A new schema object fails to parse: in a constructor of the schema or of a validator, or
\* in parse_*() of a validator, which has not yet been touched.  The object is gone; when it
\* is its constructor that throws, no destructor frees what pimpl_ points to.
ParseFails ==
  /\ pc = "user"
  /\ \/ UNCHANGED underlying
     \/ NoParserContext \in Uses /\ kind = "xsd" /\ \E d \in Free : underlying' = underlying \cup {d}
  /\ Ends("parse_error")
  /\ UNCHANGED <<kind, objects, callers, impl, validatorVars, messageVars>>

\* A schema object releases what it wraps, and wraps p.
Wrap(s, p) ==
  /\ impl' = [impl EXCEPT ![s] = p]
  /\ underlying' = (underlying \ Held(impl[s])) \cup Held(p)

\* What is free once s has released what it wraps.
FreeFor(s) == Free \cup Held(impl[s])

\* The old schema is released first, whether or not the new one can be parsed.
ParseAnew(s) ==
  \/ \E p \in Parsed(FreeFor(s)) : Wrap(s, p) /\ Ends("returns")
  \/ Wrap(s, Empty) /\ Ends("parse_error")

\* Dtd::parse_file(), parse_memory(), parse_subset(), parse_stream().
ParseDtd(s) == kind = "dtd" /\ ParseAnew(s)

\* parse_document(nullptr) throws before anything is released.
NoDocument == Ends("parse_error") /\ UNCHANGED <<impl, underlying>>

\* XsdSchema::parse_file(), parse_memory(), parse_document().  The copy of the document stays
\* if libxml2 makes no parser context for it.
ParseXsd(s) ==
  /\ kind = "xsd"
  /\ \/ ParseAnew(s) \/ NoDocument
     \/ \E d \in FreeFor(s) : Wrap(s, [Empty EXCEPT !.document = d]) /\ Ends("parse_error")

\* RelaxNGSchema::parse_file(), parse_memory(), parse_document(), parse_context(): the parser
\* context is created first, and the old schema released even if that failed.
ParseRelaxNG(s) == kind = "relaxng" /\ (ParseAnew(s) \/ NoDocument)

\* A context that was created for what s wraps is kept.
ContextFor(s) == context.open /\ schema = s /\ kind # "dtd"

ParseSchema(s) ==
  /\ pc = "user" /\ s \in objects
  /\ ContextFor(s) => Reparse \in Uses
  /\ ParseDtd(s) \/ ParseXsd(s) \/ ParseRelaxNG(s)
  /\ UNCHANGED <<kind, objects, callers, validatorVars, messageVars>>

\* The caller deletes a schema, which no validator may refer to any more.
DeleteSchema(s) ==
  /\ pc = "user" /\ s \in callers /\ schema # s
  /\ objects' = objects \ {s} /\ callers' = callers \ {s}
  /\ Wrap(s, Empty)
  /\ Ends("returns")
  /\ UNCHANGED <<kind, validatorVars, messageVars>>

-----------------------------------------------------------------------------
(* The validator and its schema.                                           *)

\* The schema that release_underlying() deletes.
Released == IF is_schema_owner THEN {schema} \ {NULL} ELSE {}

\* Mutant of Replace: the context is kept for the next schema.
ReplaceKeepsContext(s, p) ==
  /\ context' = context
  /\ schema' = s
  /\ objects' = (objects \ Released) \cup ({s} \ {NULL})
  /\ impl' = [x \in Schemas |-> IF x = s THEN p ELSE IF x \in Released THEN Empty ELSE impl[x]]
  /\ underlying' = (underlying \ UNION {Held(impl[x]) : x \in Released}) \cup Held(p)

\* The validator lets its context and schema go (release_underlying()) and refers to s,
\* an object of the caller's, or one that it has made itself and that wraps p.
Replace(s, p) ==
  /\ context' = NoContext
  /\ schema' = s
  /\ objects' = (objects \ Released) \cup ({s} \ {NULL})
  /\ impl' = [x \in Schemas |-> IF x = s THEN p ELSE IF x \in Released THEN Empty ELSE impl[x]]
  /\ underlying' = (underlying \ UNION {Held(impl[x]) : x \in Released}) \cup Held(p)

\* Mutant of ReferTo: who owned the last schema is thought to own this one.
ReferToKeepsOwner(s) ==
  /\ s \in callers
  /\ Replace(s, impl[s])
  /\ \E take_ownership \in BOOLEAN :
       callers' = IF take_ownership THEN callers \ {s} ELSE callers
  /\ is_schema_owner' = is_schema_owner

\* set_schema(s, take_ownership), set_dtd(s, take_ownership) for a schema of the caller's.
ReferTo(s) ==
  /\ s \in callers
  /\ Replace(s, impl[s])
  /\ \E take_ownership \in BOOLEAN :
       /\ is_schema_owner' = take_ownership
       /\ callers' = IF take_ownership THEN callers \ {s} ELSE callers

\* A new schema object has parsed: set_schema(schema, true).
OwnNew ==
  /\ \E s \in Schemas \ objects, p \in Parsed(Free) : Replace(s, p)
  /\ is_schema_owner' = TRUE
  /\ UNCHANGED callers

NoMessages == exception_' = {} /\ validate_error_' = {} /\ validate_warning_' = {}

\* The default constructor.
Construct ==
  /\ pc = "user" /\ ~alive
  /\ alive' = TRUE /\ is_schema_owner' = FALSE
  /\ NoMessages
  /\ Ends("returns")
  /\ UNCHANGED <<schemaVars, schema, context>>

\* The constructors that parse a schema, or are given one.
ConstructWithSchema ==
  /\ pc = "user" /\ ~alive
  /\ alive' = TRUE
  /\ OwnNew \/ \E s \in Schemas : ReferTo(s)
  /\ NoMessages
  /\ Ends("returns")
  /\ UNCHANGED kind

SetSchema(s) ==
  /\ pc = "user" /\ alive
  /\ ReferTo(s)
  /\ Ends("returns")
  /\ UNCHANGED <<kind, alive, messageVars>>

\* parse_file(), parse_memory(), parse_document(), parse_subset(), parse_stream().
ParseIntoValidator ==
  /\ pc = "user" /\ alive
  /\ OwnNew
  /\ Ends("returns")
  /\ UNCHANGED <<kind, alive, messageVars>>

Destroy ==
  /\ pc = "user" /\ alive
  /\ alive' = FALSE
  /\ Replace(NULL, Empty)
  /\ Ends("returns")
  /\ UNCHANGED <<kind, callers, is_schema_owner, messageVars>>

-----------------------------------------------------------------------------
(* Validation.                                                             *)

\* Mutant of HasSchema: an object will do, whatever it wraps.
HasSchemaObject == schema # NULL

\* A DtdValidator asks for a Dtd object, the others for one that has parsed a schema.
HasSchema == schema # NULL /\ (kind = "dtd" \/ impl[schema].schema # NULL)

\* validate() without a document or a schema, or libxml2 makes no context.
RefuseToValidate ==
  /\ pc = "user" /\ alive
  /\ Ends("internal_error")
  /\ UNCHANGED <<schemaVars, validatorVars, messageVars>>

\* Validator::initialize_context() clears the messages; exception_ stays.
InitializeContext == validate_error_' = {} /\ validate_warning_' = {}

\* The context is created when it is first needed: xmlNewValidCtxt(), which is not told of a
\* DTD, xmlSchemaNewValidCtxt(schema), xmlRelaxNGNewValidCtxt(schema).
ContextToUse ==
  IF context.open THEN context
  ELSE [open |-> TRUE, schema |-> IF kind = "dtd" THEN NULL ELSE impl[schema].schema]

\* validate() up to the call of libxml2's validation function.
StartValidation ==
  /\ pc = "user" /\ alive /\ HasSchema
  /\ context' = ContextToUse
  /\ InitializeContext
  /\ exception_' = Aged(exception_)
  /\ pc' = "validating" /\ invalid' = FALSE /\ reported' = {} /\ lastThrown' = {}
  /\ UNCHANGED <<schemaVars, alive, schema, is_schema_owner, result>>

\* libxml2 validates with something: xmlValidateDtd() accepts NULL, and finds nothing valid.
Validates == pc = "validating" /\ impl[schema].schema # NULL

\* libxml2 calls the function that initialize_context() has given it for errors or the one for
\* warnings, and that finds the validator by the pointer it is passed.
Callback(subject) ==
  /\ Validates
  /\ invalid' = (invalid \/ subject = "error")

\* on_validity_error() and on_validity_warning() as they are: the message is collected.
CollectMessage(subject) ==
  /\ validate_error_' = validate_error_ \cup (Now(subject) \cap Now("error"))
  /\ validate_warning_' = validate_warning_ \cup (Now(subject) \cap Now("warning"))
  /\ reported' = reported \cup {subject}
  /\ UNCHANGED <<exception_, lastThrown>>

\* An override throws.  Validator::handle_exception() keeps that exception in place of an
\* earlier one, for nothing stops the validation and the handlers are called again.
HandlerThrows(subject) ==
  /\ subject = "warning" => WarningHandlerThrows \in Uses
  /\ \E e \in HandlerExc : exception_' = Now(e) /\ lastThrown' = {e}
  /\ UNCHANGED <<validate_error_, validate_warning_, reported>>

\* Validator::callback_error_or_warning(): no exception passes through libxml2.
CallbackErrorOrWarning ==
  /\ \E subject \in {"error", "warning"} :
       Callback(subject) /\ (CollectMessage(subject) \/ HandlerThrows(subject))
  /\ UNCHANGED <<schemaVars, validatorVars, pc, result>>

\* The document is valid: validate() returns, and looks at no message.
Valid ==
  /\ Validates /\ ~invalid
  /\ result' = Outcome("returns")
  /\ pc' = "user"
  /\ UNCHANGED <<schemaVars, validatorVars, messageVars, invalid, reported, lastThrown>>

Messages == validate_error_ \cup validate_warning_

\* Mutant of CheckForException: the messages are looked at only if no handler threw.
CheckForExceptionFirst ==
  /\ result' = IF exception_ # {} THEN [kind |-> "handlers", tells |-> exception_]
               ELSE [kind |-> "validity_error", tells |-> Messages]
  /\ exception_' = {} /\ validate_error_' = {} /\ validate_warning_' = {}

\* What exception_->what() tells: of a wrapped exception, which is not an xmlpp::exception, it
\* is not the text.
What == {note \in exception_ : note[1] \notin ForeignExc}

\* check_for_exception(): the messages, with what() of a handler's exception, replace that
\* exception, which otherwise is thrown as it is; if there is neither, validate() throws a
\* validity_error of its own.
CheckForException ==
  /\ result' = IF exception_ # {} /\ Messages = {}
               THEN [kind |-> "handlers", tells |-> exception_]
               ELSE [kind |-> "validity_error", tells |-> What \cup Messages]
  /\ exception_' = {} /\ validate_error_' = {} /\ validate_warning_' = {}

\* The document is invalid, or libxml2 fails.
Invalid ==
  /\ pc = "validating"
  /\ CheckForException
  /\ pc' = "user"
  /\ UNCHANGED <<schemaVars, validatorVars, invalid, reported, lastThrown>>

\* validate(filename) of a file that cannot be parsed.  RelaxNGValidator parses it with a
\* DomParser, which throws before the validator is touched; XsdValidator lets libxml2 read it,
\* which fails and tells no handler.
ValidateUnreadableFile ==
  /\ pc = "user" /\ alive
  /\ \/ /\ kind = "relaxng"
        /\ Ends("parse_error")
        /\ UNCHANGED <<messageVars, context>>
     \/ /\ kind = "xsd" /\ HasSchema
        /\ context' = ContextToUse
        /\ result' = [kind |-> IF exception_ = {} THEN "validity_error" ELSE "handlers",
                      tells |-> Aged(exception_)]
        /\ NoMessages
        /\ invalid' = TRUE /\ reported' = {} /\ lastThrown' = {}
        /\ UNCHANGED pc
  /\ UNCHANGED <<schemaVars, alive, schema, is_schema_owner>>

-----------------------------------------------------------------------------
Next ==
  \/ NewSchema \/ ParseFails
  \/ \E s \in Schemas : ParseSchema(s) \/ DeleteSchema(s) \/ SetSchema(s)
  \/ Construct \/ ConstructWithSchema \/ ParseIntoValidator \/ Destroy
  \/ RefuseToValidate \/ ValidateUnreadableFile \/ StartValidation
  \/ CallbackErrorOrWarning \/ Valid \/ Invalid

Spec == Init /\ [][Next]_vars

-----------------------------------------------------------------------------
ValidatorTypeOK ==
  /\ kind \in Kinds
  /\ objects \subseteq Schemas /\ callers \subseteq Schemas
  /\ impl \in [Schemas -> Impls(Underlying)] /\ underlying \subseteq Underlying
  /\ alive \in BOOLEAN /\ is_schema_owner \in BOOLEAN
  /\ schema \in Schemas \cup {NULL} /\ context \in Context
  /\ exception_ \subseteq Notes /\ validate_error_ \subseteq Notes /\ validate_warning_ \subseteq Notes
  /\ pc \in {"user", "validating"} /\ result \in Result /\ invalid \in BOOLEAN
  /\ reported \subseteq {"error", "warning"} /\ lastThrown \subseteq HandlerExc

\* The schema objects that the validator deletes.
Owned == IF is_schema_owner THEN {schema} \ {NULL} ELSE {}

\* Every schema object is deleted by exactly one of the caller and the validator, and the
\* validator refers to none that has been deleted (XsdValidator::set_schema, release_underlying).
SchemaOwnership ==
  /\ objects = callers \cup Owned
  /\ callers \cap Owned = {}
  /\ schema # NULL => schema \in objects /\ alive

\* What libxml2 has allocated for a schema belongs to exactly one schema object
\* (release_underlying of the schemas).
UnderlyingOwnership ==
  /\ underlying = UNION {Held(impl[s]) : s \in objects}
  /\ \A s \in Schemas \ objects : impl[s] = Empty
  /\ \A s, t \in objects : s # t => Held(impl[s]) \cap Held(impl[t]) = {}

\* Nothing leaks and nothing is freed twice, whichever parse fails and whoever deletes whom:
\* a schema object has one owner, and what libxml2 allocated for it, the copied document of an
\* XsdSchema included, has one object (set_schema, release_underlying, parse_context).
Ownership == SchemaOwnership /\ UnderlyingOwnership

\* libxml2 validates with the schema that the validator's schema object wraps now, although
\* the context is kept from one validate() to the next (XsdValidator::validate and its siblings).
ContextCurrent ==
  pc = "validating" =>
    /\ context.open /\ schema # NULL
    /\ kind # "dtd" => context.schema = impl[schema].schema /\ context.schema \in underlying

\* What a validate() throws tells of that validate() only, not of an earlier document's
\* (initialize_context, check_for_exception).
TellsOfThisCall == \A note \in result.tells : note[2] = "now"

\* A validate() that finds the document invalid tells of every message that was collected and
\* of the last exception that a handler threw, unless that is a foreign one and messages were
\* collected.  Of an exception that a handler threw before the last one it never tells
\* (handle_exception, check_for_validity_messages).
HidesOnlyReplaced ==
  pc = "user" /\ result.kind \in {"validity_error", "handlers"} =>
    {note[1] : note \in result.tells} =
      reported \cup (IF reported = {} THEN lastThrown ELSE lastThrown \ ForeignExc)

\* What a validate() throws is about its own document: it tells of all that was collected and of
\* the exception that a handler threw last while that was validated, and of nothing from an
\* earlier one; only the exceptions that handlers threw before the last one are lost, and the
\* text of a foreign one when there are messages.
ThrowsOwnReport == TellsOfThisCall /\ HidesOnlyReplaced

\* The inductive invariant.  With no use of the others, exception_ and the buffers never
\* hold anything that Invalid would not throw.
Pending ==
  /\ pc = "user" => exception_ = {} /\ validate_error_ = {}
  /\ pc = "validating" =>
       /\ {note[1] : note \in Messages} = reported
       /\ {note[1] : note \in exception_} = lastThrown
       /\ \A note \in exception_ \cup Messages : note[2] = "now"
       /\ exception_ \cup validate_error_ # {} => invalid
ContextGood ==
  /\ context.open => schema # NULL
  /\ context.open /\ kind # "dtd" => context.schema = impl[schema].schema /\ impl[schema].schema # NULL
  /\ pc = "validating" => context.open
ValidatorInv ==
  /\ ValidatorTypeOK /\ Ownership
  /\ ContextGood /\ Pending /\ ThrowsOwnReport
=============================================================================
