--------------------------- MODULE ParserMessages ---------------------------
(***************************************************************************)
(* What xmlpp::Parser collects while libxml2 parses, and the exception it  *)
(* makes of that at the end: shared by the SAX and the DOM parser.         *)
(***************************************************************************)

CONSTANTS
  XmlppExc,   \* exceptions derived from xmlpp::exception that a user's on_*() method throws
  ForeignExc  \* other exceptions that it throws

ASSUME ExceptionAssumption == XmlppExc \cap ForeignExc = {}

UserExc == XmlppExc \cup ForeignExc

ParserBuffers   == {"parser_error_", "parser_warning_"}
ValidityBuffers == {"validate_error_", "validate_warning_"}
Buffers         == ParserBuffers \cup ValidityBuffers

-----------------------------------------------------------------------------
(***************************************************************************)
(* An exception: how it is held, the user's exceptions whose text or       *)
(* object it carries, and the buffers whose messages its text contains.    *)
(* raise() throws the very object that is held, for a wrapped exception    *)
(* the object that was wrapped.                                            *)
(***************************************************************************)
ExcTypes == {"none", "cloned", "wrapped", "parse_error", "validity_error", "internal_error"}
Exception == [type : ExcTypes, what : SUBSET UserExc, msgs : SUBSET Buffers]
NoExc == [type |-> "none", what |-> {}, msgs |-> {}]

\* The library's own classes, with the text that goes into them.
ParseError(what, msgs)    == [type |-> "parse_error", what |-> what, msgs |-> msgs]
ValidityError(what, msgs) == [type |-> "validity_error", what |-> what, msgs |-> msgs]
InternalError             == [type |-> "internal_error", what |-> {}, msgs |-> {}]

\* A copy of an exception derived from xmlpp::exception, and the holder of any other one.
Clone(e)   == [type |-> "cloned", what |-> {e}, msgs |-> {}]
Wrapped(e) == [type |-> "wrapped", what |-> {e}, msgs |-> {}]

\* What handle_exception() keeps of the exception in flight.
Kept(e) == IF e \in ForeignExc THEN Wrapped(e) ELSE Clone(e)

\* Mutant of WithMessages: a pending exception hides the messages.
WithMessagesHidden(e, b) ==
  IF e # NoExc \/ b = {} THEN e
  ELSE IF b \cap ValidityBuffers # {} THEN ValidityError({}, b) ELSE ParseError({}, b)

\* check_for_error_and_warning_messages(): what() of a wrapped exception is not the text of
\* the exception it wraps.
WithMessages(e, b) ==
  LET what == IF e.type = "wrapped" THEN {} ELSE e.what IN
  IF b = {} THEN e
  ELSE IF b \cap ValidityBuffers # {}
       THEN ValidityError(what, e.msgs \cup b) ELSE ParseError(what, e.msgs \cup b)

-----------------------------------------------------------------------------
(* The way of a message from libxml2 to a buffer.                          *)

Slots == {"sax_error", "sax_warning", "vctxt_error", "vctxt_warning"}

\* The C functions, which differ in the first two arguments of callback_error_or_warning().
CCallback == [
  c_callback_parser_error     |-> [is_parser |-> TRUE,  is_error |-> TRUE],
  c_callback_parser_warning   |-> [is_parser |-> TRUE,  is_error |-> FALSE],
  c_callback_validity_error   |-> [is_parser |-> FALSE, is_error |-> TRUE],
  c_callback_validity_warning |-> [is_parser |-> FALSE, is_error |-> FALSE]]

\* Mutant of Registered: validity warnings are taken for errors.
RegisteredErrors == [
  sax_error     |-> "c_callback_parser_error",   sax_warning   |-> "c_callback_parser_warning",
  vctxt_error   |-> "c_callback_validity_error", vctxt_warning |-> "c_callback_validity_error"]

\* What get_callback_*_cfunc() give initialize_context() for the slots of the context.
Registered == [
  sax_error     |-> "c_callback_parser_error",   sax_warning   |-> "c_callback_parser_warning",
  vctxt_error   |-> "c_callback_validity_error", vctxt_warning |-> "c_callback_validity_warning"]

\* on_parser_error(), on_parser_warning(), on_validity_error() or on_validity_warning(), and
\* so the buffer that each appends to.
Method(args) ==
  CASE args.is_parser /\ args.is_error   -> "parser_error_"
    [] args.is_parser /\ ~args.is_error  -> "parser_warning_"
    [] ~args.is_parser /\ args.is_error  -> "validate_error_"
    [] ~args.is_parser /\ ~args.is_error -> "validate_warning_"

BufferOf(slot) == Method(CCallback[Registered[slot]])

\* What the message is, whatever the way it takes.
MessageOf == [sax_error   |-> "parser_error_",   sax_warning   |-> "parser_warning_",
              vctxt_error |-> "validate_error_", vctxt_warning |-> "validate_warning_"]

-----------------------------------------------------------------------------
(* What libxml2's own record of an error is turned into.                   *)

Levels == {"none", "warning", "error", "fatal"}

\* format_xml_error(): the lines of a text, of which there is none if there is no error.
FormatXmlError(error) == IF error = "none" THEN {} ELSE {error}

\* format_xml_parser_error(), for the last error of a context.
FormatXmlParserError(error, wellFormed) ==
  IF error = "none" THEN {}
  ELSE FormatXmlError(error) \cup (IF wellFormed THEN {} ELSE {"not well-formed"})

=============================================================================
