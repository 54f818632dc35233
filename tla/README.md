# A verification development of libxml++

libxml++ (`src/libxml++`) wraps the C library libxml2 in C++ classes. Almost everything that can
go wrong in it goes wrong at that seam: C structures that C++ objects own, share or point into;
C++ exceptions that must cross C stack frames; callbacks that re-enter the object that is being
used; errors that arrive through a side channel and are asked for later. This directory holds TLA+
modules of that seam, TLC configurations that check them on small instances, and proofs, checked
by TLAPS, of what holds for every instance.

To check a run: `tlc -config <run's cfg> <its module>`, as `PROJECT.json` lists them. To check
proofs: `tlapm <module>Proofs.tla`. `PROJECT.json` also maps every definition to the lines of the
code it models, and lists the hazards of the code with the properties that look after them.

## 1. Inventory

The library is used from one thread per object and starts no thread of its own. Its concurrency is
re-entrance: libxml2 calls the library back in the middle of a call, and from there code of the
user's runs. "External" below is libxml2, the C++ streams and the user's code; the modules allow
them everything that the code of the library must be ready for.

| Component (source) | State it keeps | Operations | Interacts with | What is hard | What makes it correct |
|---|---|---|---|---|---|
| SAX parser (`parsers/saxparser`, `parsers/parser`) | `context_`, `exception_`, four message buffers, `throw_messages_`, `sax_handler_`, `entity_resolver_doc_` | `parse_file/memory/stream`, `parse_chunk`, `finish_chunk_parsing`, the `on_*()` callbacks, `set_throw_messages` | libxml2 calls back; the subclass overrides and re-enters | exceptions through C frames, re-entrance, state left over between parses | one context; nothing left pending by a call; one outcome per call, the promise of `ParseCall`; after an exception nothing but messages reaches the subclass |
| DOM parser (`parsers/domparser`, `parsers/parser`) | `context_`, `doc_`, `exception_`, buffers, settings and options | `parse_*`, `get_document`, the constructor that parses | libxml2 builds `myDoc`; ownership moves to `Document` | one step of several failing, who frees the document | one owner of every document; a document if and only if the last parse succeeded; a parse does what the settings say, whichever was called last |
| Exceptions (`exceptions/`) | text, held by the parsers as unique pointers | clone, raise, merge with messages | parsers, validators | which one is kept | nothing hides another |
| Nodes, elements, attributes (`nodes/`, `attribute*`) | a C++ wrapper per C node, linked by `_private` and `impl_` | creation, lookup, import, removal, text merge, attribute setting, namespaces | libxml2 frees and merges C nodes by itself; an `xmlNs` belongs to one element and is pointed to by others | dangling and leaked wrappers, casts; names that mean another thing elsewhere | links in both directions, classes as returned; every `xmlNs` in scope, methods that agree on what a prefix names |
| Documents (`document`) | the `_xmlDoc`; wrappers of its nodes | roots, top-level nodes, internal subset, XInclude, destruction, writing | nodes, output buffers, `KeepBlanks` | a root that is replaced by a part of itself, nodes that XInclude changes | as for nodes; nothing outlives the document |
| Entity references (`nodes/entityreference`) | none | original and resolved text | nodes that form a graph with cycles | termination and completeness of `free_wrappers()` | every wrapper is reached, once |
| DTDs (`dtd`) | `_xmlDtd`, owned by the document or by the `Dtd` | `parse_subset`, `parse_memory`, `parse_stream`, release | documents, DTD validator, input buffer | a `Dtd` that changes its owner | one owner; a document keeps its `Dtd` |
| Validators (`validators/`) | `exception_`, buffers, cached validation context, schema or DTD and who owns it | `parse_*`, `set_schema`, `set_dtd`, `validate`, handlers | schema objects shared with the user | stale context, stale exception, ownership | the context is of the present schema; what is thrown tells of this document only, and leaves out nothing but an exception that another one has replaced |
| Schemas (`schemabase`, `xsdschema`, `relaxngschema`) | the libxml2 schema and, for XSD, the copied document | `parse_*`, release | validators | parsing again | one owner |
| Text reader (`parsers/textreader`) | `severity_`, `error_`, the reader | `read`, `next`, `expand`, getters | libxml2's error callback | errors asked for later than they are reported | each thrown once; none forgotten, unless a later one has replaced it |
| `KeepBlanks` (`keepblanks`) | two saved settings of libxml2 | guard objects, nested | parsers, writers | the settings are coupled | both restored |
| Output buffers (`io/outputbuffer`, `io/ostreamoutputbuffer`) | a stream in a C buffer | write, close | libxml2, the user's stream | failure at the last step; the user's code in the middle | a lost byte is reported to libxml2, and to the caller as far as libxml2's result tells |
| Input buffers (`io/*inputbuffer`) | a stream in a C buffer | read, close | `Dtd::parse_stream` | the last, short read | nothing of the stream is lost |
| XPath (`Node::find`, `eval_to_*`) | a context and a result, during a call | wraps the nodes of a result | nodes | what is selected may be no node | wrappers of nodes only, nothing left allocated |
| Strings, base classes (`ustring`, `noncopyable`) | none | pure | | | |

## 2. Plan

In the order of the work, the most important behaviour first.

| # | Modules | About |
|---|---|---|
| 1 | `ParserMessages`, `SaxParser`, `MCSaxParser`, `SaxParserProofs` | exceptions through C frames, re-entrance, chunks |
| 2 | `DomParser`, `MCDomParser`, `DomParserProofs` | ownership of a document through the steps of a parse |
| 3 | `ParseCall` | what both parsers promise for each call, implemented by 1 and 2 |
| 4 | `NodeHeap` (operators), `NodeWrappers`, `MCNodeWrappers`, `NodeWrappersProofs` | wrappers and nodes, as calls of the library |
| 5 | `WrapperRemoval`, `NodeGraph`, `MCNodeGraph`, `NodeGraphProofs` | the recursive walks over entity references, XPath, and what every call promises about wrappers |
| 6 | `Namespaces`, `MCNamespaces`, `NamespacesProofs` | names and their declarations |
| 7 | `DtdOwnership`, `MCInputOutput`, `DtdOwnershipProofs` | `Dtd`s between caller, document, validator and stream |
| 8 | `Validator`, `MCValidator`, `ValidatorProofs` | schemas, cached contexts, messages |
| 9 | `TextReader`, `MCInputOutput`, `ReadWriteProofs` | deferred errors |
| 10 | `KeepBlanks` (operators), `DocumentOutput`, `MCInputOutput`, `ReadWriteProofs` | coupled settings, nesting, writing to streams |

All of these are done. What would come next: import with namespaces, and `remove_node()` of
declarations.

`SaxParser` and `DomParser` share `ParserMessages` and both implement `ParseCall`; `NodeWrappers` is
`NodeHeap` with a caller. `NodeGraph` takes the walks apart that are one step each in
`NodeWrappers`, over nodes that are a graph, and implements `WrapperRemoval`. `DtdOwnership`
composes a document, a validator, an input buffer and a caller by the `Dtd`s they share; `DocumentOutput`
composes `KeepBlanks`, the output buffer and the writers, and nests in them the parses that also use
`KeepBlanks`. `MCInputOutput` puts three components side by side that have nothing to do with each other
(`TextReader`, `DtdOwnership` and `DocumentOutput`): a behaviour is of one of them, chosen at its start.

## 3. The modules

### SaxParser (with ParserMessages)

One parser object. The variables have the names of the members; `ctxt` holds those fields of
`*context_` that the code reads or sets, and `pc` says who has control: the caller (`"user"`),
libxml2 (`"parsing"`) or an `on_*()` method (`"callback"`). An exception is a record of how it is
held (`cloned`, `wrapped`, or one that the library makes), whose text it carries (`what`) and which
messages (`msgs`).

- `StartDocument` is `parse_file()`, `parse_memory()`, `parse_stream()` up to `xmlParseDocument()`;
  `SecondParse` the refusal in the same methods when a context exists; `ParseChunk` and
  `FinishChunkParsing` are the two chunk methods, which create a context or resume one.
- The events of libxml2 are an action each: start and end of the document, content, declarations,
  `get_entity`, errors and warnings of the parser and of the validation. `Route` says where the
  error slots of the handler table in use lead: to `SaxParserCallback`, to the collectors that
  `initialize_context()` writes over them, or to libxml2. `Collect` is a collector: it appends to a
  buffer, or throws if the subclass has overridden `on_parser_error()` or one of its siblings
  (`CollectorsThrow`). `SaxParserCallback::error()` and `fatal_error()` do not call the subclass when an
  exception is pending; `warning()` (`parsers/saxparser.cc:486`) and
  `Parser::callback_error_or_warning()` (`parsers/parser.cc:359`) do not look. libxml2 is assumed to
  be able to report errors and warnings at any time before a call ends, also after it has been
  stopped.
- `CallbackReturns`, `CallbackThrows`: the end of an `on_*()` method. `HandleException` is
  `Parser::handle_exception()`. What the base class's `on_internal_subset()` and
  `on_entity_declaration()` do is two more actions, because an override may or may not call them.
- `EndDocument`, `EndChunk`, `EndFinish`: what the methods do after libxml2 returns, with
  `CheckForException` for `check_for_exception()` and the test of the context's last error.
- `Construct`, `Destroy`, `SetThrowMessages`; the last may happen in a callback.

The variables `collecting`, `declared`, `thrown`, `collected`, `diagnosed` are history: no action's
guard reads them, except that `collecting` stands for the slots of `context_->vctxt`, which
`initialize_context()` sets, and `declared` limits the names that a declaration can have.

### DomParser

The same for the parser that keeps a document: `docs` is what is allocated, `ctxt.myDoc` the
document that libxml2 has built and still holds, `doc_` the one that the parser's `Document` owns.
`StartParse` is the three parse methods (they differ in the source of the bytes), with the release
of what earlier parses have left; `ConstructAndParse` the constructor with a file name, which
leaves no object when it throws (`AfterThrow`). `ParseFails`, `XIncludeFails` and `Finish` are the
ways out of `parse_context()` and `check_xinclude_and_finish_parsing()`. `SetParserOptions` and
`SetXIncludeOptions` are the setters; what they say of libxml2's options is a set of flags of the
parser's own and two more, which `set_parser_options()` gives, and `Combine` is how
`initialize_context()` and `check_xinclude_and_finish_parsing()` put these together. `ErrorStr` is
`format_xml_parser_error()` with the test of what `xmlParseDocument()` returned.

### ParseCall

The abstract specification of a parse method: a call starts, hears of errors, and ends in one of
two ways; it returns only if it has heard of nothing, and what it throws tells of all that was
collected for this document and of nothing else. `SaxParser` and `DomParser` implement it
(`ImplementsParseCall` in each): their history variables are its variables.

### NodeHeap and NodeWrappers

`NodeHeap` has the data: the nodes of one document (`kind`, `above`, `private`) and the C++ objects
(`object`), with the steps of libxml++ and libxml2 as operators that take a heap and return the next:
`CreateWrapper`, `FreeWrappers`, `FreeNodes`, `NewNode`, `Copy`. `above[n]` is the set of nodes that
contain `n`: a forest without an order of siblings, which no wrapper depends on, and without
recursion (`NodeGraph` has that). `leaf` stands for the five types of node that are added alike and have nothing below
them.

`NodeWrappers` has one action per method or group of methods with the same effect: lookups
(`GetNode`, `GetParent`, `GetFirstChildText`, `GetRootNode`, `GetAttribute`,
`GetInternalSubset`), additions (`AddChildElement`, `AddChildLeaf`, `AddText` with libxml2's
merging, `AddAttribute`, `SetAttribute`, `SetFirstChildText`, `AddToDocument`, `SetInternalSubset`,
`SetEntityDeclaration`), removals and imports (`RemoveAttribute`, `RemoveNode`, `ImportNode`,
`ImportText`, `ImportAttribute`), `CreateRootNode`, `CreateRootNodeByImport`, `ProcessXInclude`,
`Destroy`. A method can be called on a node only if it is wrapped, since that is how a caller has
it. `result` is the pointer returned and its static type.

`Uses` lists two things a caller may do that the library does not survive: to ask an attribute for
its children, which is the subject of a finding, and to ask a top-level node for a sibling that is
the DTD, which comes back as a `Node*` although a `Dtd` is no `Node` (`nodes/node.cc:318`). The
passing run and the theorems leave them out.

### NodeGraph and WrapperRemoval

`NodeGraph` takes apart what is one step in `NodeWrappers`: the recursive functions
`free_wrappers()`, `find_wrappers()` and `remove_found_wrappers()`. `parent` makes a tree of the nodes, and what goes
with a node (`Subtree`) is the least set that has it and is closed under children, so that no induction is
needed to reason about it. The nodes are a graph nevertheless: `refers`
is the declaration that the `children` pointer of an entity reference leads to, and a declaration
may have references below it again, once libxml2 has parsed its replacement text
(`ParseReplacementText`). `stack` has one frame for each active call of the function, with the
nodes that its two loops have yet to visit; `Descend`, `VisitNode` and `ReturnFromNode` are the steps. A
stack deeper than there are nodes has overflowed: the walk does not go on, and `CallsEnd` fails.
`RemoveNode`, `ProcessXInclude` with its two walks and `Delete` begin walks, and the actions after them
do what the code does when the function returns. The XPath methods have an action for each of their ways
out, with the context and the result in `xpath.held`. `Uses` has the declarations that
`~Document()` does not reach (`document.cc:197`) and the expression that selects the document.

`WrapperRemoval` is the abstract specification: a call either makes nodes and wrappers and leaves
all others alone, or takes away exactly those wrappers whose nodes go or change their type. In the
refinement the state is that from before the call until the call ends, since a caller sees nothing in
between.

### Namespaces

`tree` has the nodes, the declarations of each element (`nsDef`) and the `xmlNs` that each node
points to (`ns`), which is known by the element that declares it and its prefix. `SearchNs` is
`xmlSearchNs()` with its two special cases, `HasNsProp` is `xmlHasNsProp()`. `Declaration`
is `set_namespace_declaration()` with what it does to the element's own namespace; `Gets`, `Sets` and
`Removes` are the three different searches of `get_attribute()`, `set_attribute()` and
`remove_attribute()`; `FoundAs` is what `AttributeNode::get_value()` finds. `threw` says that the last call
threw. All attributes have one local name, so that only namespaces tell them apart.

### DtdOwnership

`heap` has the `Dtd` objects and the `xmlDtd`s, linked as `Dtd::Impl::dtd` and `_private` do. A document
(`document`), a caller (`caller`) and a validator (`validator`) share them: `NewDocument`,
`GetInternalSubset`, `SetInternalSubset`, `DeleteDocument`; `NewDtd`, `NewParsedDtd`, `WrapXmlDtd`,
`DeleteDtd`; `ParseSubset`, and `ParseStream` with the stream's steps `OnRead`,
`ParsedStream`, `StreamParseError`; `SetDtd`, `ParseIntoValidator`, `DeleteValidator`. `DoRead` is
`IStreamParserInputBuffer::do_read()`, which looks at the state of the stream before it reads; a
stream ends, or fails, in the middle of a read. `Uses` has two calls that the library
does not survive: to parse with the `Dtd` that a document has given away, which takes the document's
link from it (`dtd.cc:66`), and to wrap an `xmlDtd` that has a `Dtd` already.

### Validator

One validator of any of the three kinds (`kind` is chosen at the start) and the schema or DTD
objects around it: `objects` exist, `callers` are those that the caller must delete, `impl` is what
each wraps, `underlying` what libxml2 has allocated. `Replace` is `release_underlying()` and the
assignment that follows it in `set_schema()` and `parse_*()`. `StartValidation` is `validate()` up
to libxml2's function; `CollectMessage` and `HandlerThrows` are its callbacks; `Valid` and
`Invalid` its two ends, and `ValidateUnreadableFile` the end of `validate()` of a file that cannot be
parsed. An `XsdSchema` has two things of libxml2's, the schema and the copy of a document it was made
from. A message or an exception is a pair of what it tells of and whether that
was in this `validate()` or an earlier one; exceptions of handlers are told apart (`XmlppExc`,
`ForeignExc`), since each replaces the one before it (`HandlerThrows`), and `lastThrown`, a history
variable, is the last of them. `Uses` has a schema that is parsed again under a kept
context, the subject of a finding; a handler of warnings that throws: its exception is kept when the
document is valid, and thrown for a later one (`validators/validator.cc:58`); and a lack of memory
in a constructor of `XsdSchema`.

### TextReader

The methods, grouped by what they do with libxml2's answer (`Calls`): those that read on, those that
parse the current node to its end, those that return numbers, strings, nodes. `Report` is
`on_libxml_error()`; `CheckForExceptions` is `check_for_exceptions()`; `Check` says which of the
`PropertyReader`'s functions call it. A parser that has met a fatal error may report more before it
returns: so does libxml2 for the rest of a start tag. Reports are members of a set, so that the properties can tell
one from another.

### KeepBlanks and DocumentOutput

`KeepBlanks` has the constructor and the destructor as functions of the two settings, with
libxml2's coupling: to stop keeping blanks is to start indenting. `DocumentOutput` keeps a stack of
what is in progress, innermost first: a guard object of the caller's, a parse, a write to a file or
string, a write to a stream. `UserCode` says when code of the caller's may run and begin another:
outside all calls, in a guard's scope, in a parser's callback, in a stream's buffer. `OnWrite`,
`Written`, `OnClose` and `Flushed` are `OutputBufferCallback` with `OStreamOutputBuffer::do_write()`
and `do_close()`, before and after the stream's own code runs; `failed` is what libxml2 has been
told, `lost` what has really happened. `ErrorResults` is what `xmlSaveFormatFileTo()` may return after an
error: -1 in libxml2 before 2.13, the negated code of the error since then. `StreamWritten` throws for
-1 only, as `do_write_to_stream()` does.

## 4. What the runs check, and their bounds

| Run | Shows | Bounds, and why they are enough |
|---|---|---|
| `sax_parser` | One parser, used for whole documents and for chunks in any order and re-entered from callbacks that return or throw, with collectors that may throw: it owns the one context it points to (`OneContext`); no call leaves an exception, a message or, `parse_chunk()` aside, a context behind (`ConsistentAfterCall`); what a call throws carries every message, and an exception that an `on_*()` method threw (`NothingLost`); each call has one outcome, the right one (`ImplementsParseCall`); after an exception the subclass is told of nothing but messages, and when the call has ended of nothing at all, until there is another context (`OnlyMessagesAfterException`); `on_get_entity()` finds no entity of another document (`EntitiesOfThisDocument`) and none that is freed while libxml2 may hold it (`EntitiesStayValid`); a caller that goes on calling `finish_chunk_parsing()` gets rid of the context (`ContextReleased`) | 2 contexts: one more than the parser may own, so that a leak shows; 2 entities: one of this document and one of another; one exception of each family. Documents, calls and events are unlimited |
| `dom_parser` | Every `_xmlDoc` has one owner at each step of a parse that may fail at each, and none outlives the parser or a constructor that throws (`DocumentOwnership`); a parse comes to what its settings ask for, and `operator bool()` is true exactly after success (`Outcome`); `ImplementsParseCall` as above | 3 documents: the parser's, the context's and one leaked; `Flags`, the options, are one of the parser's and that for XInclude |
| `node_wrappers` | No sequence of calls leaves a dangling pointer between nodes and wrappers (`Linked`) or returns an object of another class than the caller is told (`ResultUsable`); no call deletes the wrapper of a node that stays (`PointersStayValid`) | 5 nodes, 3 wrappers: an element, an attribute with its text, and room for a copy or a replaced root with its child; a result, an old wrapper and another. An inclusion brings in at most one element. A call that needs more nodes or wrappers than there are cannot happen, so the run has fewer behaviours than the code at the limit, which the theorems have not |
| `node_graph` | Whatever cycle entities refer to each other in, each walk ends (`CallsEnd`) and is in no node twice (part of `GraphInv`); it takes away exactly the wrappers of what goes or is of another type afterwards (`ImplementsWrapperRemoval`); XPath methods return wrappers of nodes only (`ReturnedUsable`) | The document, its DTD, its root and 3 more nodes: the shortest cycle is an entity that refers to itself, a declaration with a reference in it, and one more node is the reference that leads there. A longer cycle would take other nodes through the same steps. XPath selects at most one node (`MaxHits`); one inclusion at a time |
| `namespaces` | No node outlives the `xmlNs` it points to (`NsInv`); all methods agree on which attribute a prefix names (`AttributesAgree`); no call makes a name that would be read back as another one (`NamesStayFaithful`); a call that throws leaves the tree as it was, but for two (`FailureLeavesNoTrace`) | 3 nodes: an element in an element, with an attribute or a third element; prefixes `p`, the default and `xml`; URIs `u`, the empty and the predefined one; at most 3 declarations in the tree (`MaxDeclarations`) |
| `validator` | One owner for every schema object and for what it wraps (`Ownership`), the context is of the present schema (`ContextCurrent`), what is thrown tells of this document only, of every message and of the last exception of a handler (`ThrowsOwnReport`) | 3 schemas: the validator's, the caller's next and one deleted; 4 addresses for what they wrap: two things of an `XsdSchema`'s and two new ones; three exceptions of handlers, one of them foreign: one replaced by another, of either family; `Uses` empty |
| `input_output` | The text reader: every error has been thrown, is next to be thrown, or has been replaced by a later report (`ErrorsAccounted`); none is thrown twice (`ThrownOnce`) | 3 reports: one thrown, one pending, one that replaces it |
| | `Dtd`s: links agree (`DtdInv`), each `xmlDtd` and each `Dtd` has one owner (`OneOwner`), a document keeps its `Dtd` (`StableSubset`), and a stream is parsed to its last byte, unless it fails before (`WholeStream`) | 3 of each: the document's, the validator's and the caller's; streams of up to 5 bytes (`Length`), read 2 at a time (`ReadLen`): empty, even and odd ones |
| | Writing: the settings come back as they were, whatever ran in between (`SettingsRestored`); a write to a stream that has lost something throws (`WriteReported`), with a libxml2 that returns -1 | 2 streams, 2 levels (`MaxDepth`): one write, parse or guard object in another, on the same stream or another; a frame sees of those below it only the settings, and the theorems hold for any depth |

Each passing run also checks the inductive invariant of its module (`IInv`, `DomInv`,
`NodeInv`, `GraphInv`, `NsInv`, `DtdInv`, `ValidatorInv`, `TextReaderInv`, `OutputInv`), or a part of it, which has
type correctness as its first part. `GraphInv` is what matters to a reader of the inductive invariant of
`NodeGraph`; the whole of it, `Inv`, is in `NodeGraphProofs` and has been model-checked on the same instance before it
was proved, but it quantifies over sets of nodes and would make the run several times as long. Symmetry is used for sets of addresses and names, which are only compared for equality, and
never together with liveness. `NodeAttributeText` does not check for deadlock: with so few nodes the
heap may fill up, and the run is about one state only.

Each property has a mutant: a definition of the model changed as a slip in the code would change it,
with which the property no longer holds. The mutated forms stand in the modules, next to the
definitions, and are used nowhere else.

### Findings

Five runs end with a counterexample: there the code does otherwise than its documentation says.

- `sax_routing`: `SaxParser::parse()` makes the context use the parser's own handler table, in which
  `Parser::initialize_context()` overwrites the error slots (`parsers/parser.cc:187`) when messages are to
  be collected. They are never written back, so that after `set_throw_messages(false)` the
  `on_*()` methods are still not called, against `parsers/parser.h:86`.
- `node_attribute_text`: a wrapper of the text below an attribute, which `get_first_child()` hands out, is
  left dangling when the attribute is set again (`nodes/element.cc:120`): nodes are to be managed by the
  library (`nodes/node.h:49`).
- `validator_reparse`: an `XsdSchema` or `RelaxNGSchema` that is parsed again, as `schemabase.h:41` allows,
  leaves a validator that has already validated with a context for the freed schema
  (`validators/xsdvalidator.cc:140`).
- `text_reader_false`: `TextReader` keeps the last report only (`parsers/textreader.cc:492`). When a warning
  follows a fatal error within one `read()`, nothing is thrown, and `read()` returns false, which
  means that there are no more nodes (`parsers/textreader.h:114`): a document that is cut off in the middle looks
  complete. Once the error has been thrown, a later false is no surprise; `FalseMeansNoMoreNodes`
  leaves that case out.
- `write_unreported`: `do_write_to_stream()` takes -1 for failure and nothing else (`document.cc:427`), and so
  does `do_write_to_file()`. With libxml2 2.13 or later, a stream that fails is reported to libxml2, as
  `io/ostreamoutputbuffer.cc:27` intends, and by libxml2 to libxml++, and the caller hears
  nothing. `meson.build` accepts all versions since 2.7.7.

## 5. Fairness

Two runs check liveness. `ContextReleased`, of `sax_parser`, is checked under `FairSpec`. What it
assumes is about the environment, for the library has no scheduler of its own:

- libxml2 gets to the beginning and the end of a document and returns from a call: documents are
  finite. These are strong, because between any two of its steps an `on_*()` method may have
  control and disable them for a while, and it may do so any number of times.
- An `on_*()` method returns or throws (weak: nothing disables that).
- The caller calls `finish_chunk_parsing()` in the end, as `saxparser.h` asks of it after
  `parse_chunk()` (strong: every call of `parse_chunk()` disables it for a while).

Nothing is assumed of messages, of allocations or of which error comes: the context is released
whatever is thrown.

`CallsEnd`, of `node_graph`, assumes only that a call that has begun goes on (`WF_vars(Continue)`):
the steps are the code's own, in one thread, and nothing else happens until the call ends. That the
recursion does end is what is checked. Both are model-checked only; TLAPS does not handle fairness. What
`CallsEnd` rests on is proved, though: `WalksEnd` says that no walk can make infinitely many steps.

## 6. What is proved

The theorems hold for every value of the constants: any number of contexts, nodes, wrappers,
schemas, reports, any depth of nesting. The proofs rest on the named assumptions of the modules, which
say that addresses and names that are different in the code are different here, and on what is said
below. Each is by an inductive invariant, with a step per action.

- `SaxParserProofs`: `IInv` (`Invariance`), and from it `ContextOwnership`, `Consistency`, `Delivery`,
  `FreshEntities`, the action properties `OnlyMessagesAfterExceptionHolds` and `EntitiesStay`, and the
  refinement `SaxImplementsParseCall`. `ConsistentAfterCall` is not inductive: it needs to know that an
  exception is pending exactly while the context is being stopped, and that then only `on_warning()` can be
  running (`PendingStops`), that the handler table is
  lent only during a whole-document parse (`InCall`), that what libxml2 has reported is also in the
  context's last error (`DiagnosisKept`), that what was collected is in the buffers until the end
  (`MessagesKept`), and that what is pending is one of the exceptions thrown (`CauseKept`). All this
  holds with collectors that throw and without.
- `DomParserProofs`: `DomInv` (`DomInvariance`), and from it `DomOwnership`, `DomOutcome` and
  `DomImplementsParseCall`. The strengthening (`Parsing`) is what holds while libxml2 has control.
- The two refinements are proved step by step: each action maps to a step of `ParseCall` or to a
  stutter, by what the invariant says of the buffers and of the last error.
- `NodeWrappersProofs`: `NodeInvHolds`, `LinkedHolds`, `ResultUsableHolds` and `PointersStayValidHolds`,
  all with `Uses = {}`. `Linked` needs that the nodes are a forest (`Forest`), so that what is left when
  a subtree goes is in order; where declarations and attributes are (`Placed`), so that what
  `xmlHasNsProp()` finds is known; and that nothing below an attribute is wrapped. Each heap operator
  has a lemma that says what it preserves, and each method one that says what it leaves; the theorems
  put these together.
- `NodeGraphProofs`: `GraphInvHolds`, the refinement `ImplementsWrapperRemovalHolds` and `WalksEnd`, as long as no
  declaration is outside the internal subset; `ReturnedUsableHolds` with `Uses = {}`. The inductive
  invariant `Inv` says that the nodes are a tree, and no node below itself (`Placed`); that each active call
  has yet to visit children or attributes of its own node, and is for a node below those of the calls that led
  to it, so that none is for a node twice (`Nested`); and, for each kind of walk, which nodes have been dealt
  with when only those ahead of the stack are left (`Removing`, `Finding`, `Checking`, `Evaluating`, and
  `AtRest` between calls). From there the refinement follows step by step: what a walk has taken away when it
  ends is what was below its first node, and no more. The references, which make the cycles, appear in
  none of these, since no walk follows them; one that did would break `Nested`.
- `WalksEnd` is the part of liveness that TLAPS can do, for any finite tree: three things are to be done with
  each node (to enter it, to visit it, to leave it), `Work` is the set of those left, and each step of a walk
  makes it strictly smaller. This needs that what is ahead of the active calls has no node for which a call is
  active already (`Once`). The recursion is never deeper than there are nodes.
- `NamespacesProofs`: `NsInvHolds` and `FailureLeavesNoTraceHolds`, for every caller, and
  `AttributesAgreeHolds` and `NamesStayFaithfulHolds`, for callers that give no attribute another namespace.
  The invariant is inductive as it stands; what it needs is that a search which finds anything finds the
  innermost element (`InnermostExists`, where the set of nodes has to be finite), and so a declaration that the
  node asking is in (`SearchFinds`). That the methods agree follows from there: what is found never stands for
  the empty URI, the only one on which their searches differ. `NamesStayFaithfulHolds` is about two readings of a
  name: through the `xmlNs` it points to, and by the innermost declaration of its prefix, as a parser would
  read it. Its key lemma is `SearchReadsBack`: where the names in scope are right and no declaration takes
  a namespace away, a search finds what the prefix is read back as. Each method then either asks such a search,
  or copies the namespace of an element that is itself right.
- `DtdOwnershipProofs`: `DtdInvHolds`, `OneOwnerHolds`, `WholeStreamHolds` and `StableSubsetHolds`, with
  `Uses = {}`. The inductive invariant says of each `Dtd` and each `xmlDtd` who it belongs to instead of
  collecting owners in sets, so that a step has to be looked at only for the objects it names, and of a
  stream that one that is no longer good has failed or has been read to its end.
- `ValidatorProofs`: `OwnershipHolds`, for callers and handlers that do what they like, as long as libxml2
  has memory for its parser contexts; `ValidatorInvHolds`, `ContextCurrentHolds` and `ThrowsOwnReportHolds`
  with `Uses = {}`: no schema is parsed again under a kept context, and no handler of warnings
  throws. While libxml2 validates, the messages in the buffers are those collected and `exception_` is the
  exception thrown last (`Pending`); that is all that the end of `validate()` can tell of.
- `ReadWriteProofs`, about the text reader: `TextReaderInvHolds`, `ErrorsAccountedHolds` and
  `ThrownOnceHolds`. The invariant adds that an error is in one place only. About writing:
  `OutputInvHolds` and `SettingsRestoredHolds`, and `WriteReportedHolds` if libxml2 returns -1 after
  every error. The invariant is over all frames of the
  stack: what a frame saved is what it found, and what it lost it has reported.

Every invariant, every action property and every refinement that a passing run checks is proved in one of
these. Model-checked only are the two liveness properties, `ContextReleased` and `CallsEnd`, which assume
fairness, and the five counterexamples.

## 7. What is not modelled

- The content of documents: text, attributes' values, encodings, the layout of what is written, the
  wording of messages. Nothing above depends on them.
- Lack of memory inside libxml2, except where a function of the library tests for it on its main path.
- Removing declarations or the DTD with `remove_node()`; import below nodes that are neither elements
  nor texts, and what an import makes of namespaces; declarations of attributes in `Namespaces`.
- External subsets, except as the declarations outside the document's children in `NodeGraph`.
- `EntityReference::get_original_text()` and `get_resolved_text()`, which follow an entity's
  declarations and build a string, and change nothing.
- A push parser entered again by its own callbacks, or a validator by its handlers: unlike
  `parse_file()`, these methods do not refuse, and libxml2 itself forbids it.
- Streams with `exceptions()` enabled: what they throw would go through C frames of libxml2
  (`parsers/saxparser.cc:27`, `io/outputbuffer.cc:20`).
- Wrappers that `TextReader::get_current_node()` and `expand()` make (`parsers/textreader.cc:431`) for nodes the
  reader frees, of which `textreader.h` warns, and the values its methods allocate, which are not freed
  if a pending error is thrown before (`parsers/textreader.cc:536`).
- Classes of the user's that are derived from `xmlpp::exception` but do not override `clone()` and
  `raise()`: what reaches the caller is then a copy of their base class.
- `ustring` and `NonCopyable`, which have no state.

Some behaviours are in the models as the code has them, although a reader of the documentation may be
surprised by them:

- a foreign exception loses its type, and its text, when messages are collected beside it
  (`NothingLost` says "except");
- nothing stops a validation when a handler has thrown: of several exceptions the last one is kept and
  the others are lost (`validators/validator.cc:198`), and so it is with what `on_warning()` or a collector
  of a parser throws after another exception (`parsers/parser.cc:359`, `parsers/saxparser.cc:486`);
- the warnings of a document that is valid are dropped by `validate()` (`validators/validator.cc:74`);
- of several reports during one call of a `TextReader` the last one wins (`parsers/textreader.cc:492`), and
  `read()` looks at it only if libxml2 has failed (`parsers/textreader.cc:523`), so that an error of
  validity found by `read()` is thrown by a later method;
- a DTD given to `DtdValidator` with `set_dtd()` is deleted with it only if the validator owns it, and
  giving a validator the `Dtd` it already owns deletes it first: the models leave that call out;
- `create_root_node()` with a prefix that is not declared throws when the old root has gone
  already (`document.cc:281`);
- an `istream` that fails in the middle of a document looks to libxml2 like one that has ended;
- when libxml2 closes an input buffer, `do_close()` is called directly (`io/parserinputbuffer.cc:30`), not the
  `on_close()` that would reset the pointer to it; nothing in the library reads the pointer after that;
- `write_to_stream()` does not set up a `KeepBlanks` as `write_to_file()` does (`document.cc:419`), so that what
  the caller has set decides.
