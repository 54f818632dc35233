----------------------------- MODULE DtdOwnership -----------------------------
(***************************************************************************)
(* xmlpp::Dtd objects and the xmlDtds they wrap, as they are made, parsed, *)
(* shared and deleted by a caller, a Document and a DtdValidator, and the  *)
(* stream that Dtd::parse_stream() reads.  An xmlDtd and its Dtd refer to  *)
(* each other: by Dtd::Impl::dtd and xmlDtd::_private.                     *)
(***************************************************************************)
EXTENDS Naturals

CONSTANTS
  Dtds,     \* addresses of xmlDtds
  Objects,  \* addresses of xmlpp::Dtds
  Uses,     \* what else the caller does, of the next two
  Length,   \* bound: no stream is longer
  ReadLen,  \* what libxml2 asks a stream for at a time
  NULL

\* The caller parses with the Dtd that a document has given to it.
ParseDocumentsDtd == "ParseDocumentsDtd"
\* The caller makes a Dtd of an xmlDtd that has one.
WrapAgain == "WrapAgain"

ASSUME DtdNamesAssumption ==
  /\ NULL \notin Dtds \cup Objects \cup {"free"}
  /\ Objects \cap {"free", "document", "caller", "validator"} = {}
ASSUME DtdUsesAssumption  == Uses \subseteq {ParseDocumentsDtd, WrapAgain}
ASSUME StreamAssumption   == Length \in Nat /\ ReadLen \in Nat \ {0}

VARIABLES
  heap,       \* private: xmlDtd::_private or "free"; live: the Dtd objects; dtd, isOwner: Dtd::Impl
  document,   \* live, and intSubset: the xmlDtd of a Document
  caller,     \* what the caller has to delete: objects, and xmlDtds of its own
  validator,  \* DtdValidator::Impl: dtd, isOwner
  stream      \* the stream that is being read, or NULL

dtdVars == <<heap, document, caller, validator, stream>>

Heap == [private : [Dtds -> Objects \cup {NULL, "free"}], live : SUBSET Objects,
         dtd : [Objects -> Dtds \cup {NULL}], isOwner : [Objects -> BOOLEAN]]
FreshDtds(h)    == {x \in Dtds : h.private[x] = "free"}
FreshObjects(h) == Objects \ h.live

\* Dtd::Dtd(), and Dtd::Dtd(_xmlDtd*, bool) without ownership.
Construct(h, o, x) ==
  [private |-> [y \in Dtds |-> IF y = x THEN o ELSE h.private[y]],
   live    |-> h.live \cup {o},
   dtd     |-> [h.dtd EXCEPT ![o] = x],
   isOwner |-> [h.isOwner EXCEPT ![o] = FALSE]]

\* Mutant of ReleaseUnderlying: an xmlDtd that stays still refers to the object.
ReleaseUnderlyingOnly(h, o) ==
  IF h.dtd[o] = NULL THEN h
  ELSE [h EXCEPT !.private[h.dtd[o]] = IF h.isOwner[o] THEN "free" ELSE @,
                 !.isOwner[o] = FALSE, !.dtd[o] = NULL]

ReleaseUnderlying(h, o) ==
  IF h.dtd[o] = NULL THEN h
  ELSE [h EXCEPT !.private[h.dtd[o]] = IF h.isOwner[o] THEN "free" ELSE NULL,
                 !.isOwner[o] = FALSE, !.dtd[o] = NULL]

Delete(h, o) ==
  LET r == ReleaseUnderlying(h, o) IN [r EXCEPT !.live = @ \ {o}]

\* What parse_subset() and parse_stream() assign when libxml2 has made an xmlDtd.
Assign(h, o, x) == [h EXCEPT !.dtd[o] = x, !.private[x] = o, !.isOwner[o] = TRUE]

-----------------------------------------------------------------------------
NoDocument == [live |-> FALSE, intSubset |-> NULL]

DtdInit ==
  /\ heap = [private |-> [x \in Dtds |-> "free"], live |-> {},
             dtd |-> [o \in Objects |-> NULL], isOwner |-> [o \in Objects |-> FALSE]]
  /\ document = NoDocument
  /\ caller = [objects |-> {}, dtds |-> {}]
  /\ validator = [dtd |-> NULL, isOwner |-> FALSE]
  /\ stream = NULL

\* Nothing else is called while a stream is read.
Idle == stream = NULL

\* The Dtd that the document has made and will delete.
DocumentsDtd(h) == IF document.intSubset = NULL THEN NULL ELSE h.private[document.intSubset]

\* The Dtds that a caller may use: its own, the document's and the validator's.
Known == heap.live \cap (caller.objects \cup {DocumentsDtd(heap), validator.dtd})

(* Document.                                                               *)

\* Document::Document(), of no xmlDoc or of one that has been parsed, with a DTD or without.
NewDocument ==
  /\ Idle /\ ~document.live
  /\ \E x \in FreshDtds(heap) \cup {NULL} :
       /\ document' = [live |-> TRUE, intSubset |-> x]
       /\ heap' = [heap EXCEPT !.private = [y \in Dtds |-> IF y = x THEN NULL ELSE @[y]]]
  /\ UNCHANGED <<caller, validator, stream>>

\* Mutant of GetInternalSubset: a Dtd is made each time.
GetNewInternalSubset ==
  /\ Idle /\ document.intSubset # NULL
  /\ \E o \in FreshObjects(heap) : heap' = Construct(heap, o, document.intSubset)
  /\ UNCHANGED <<document, caller, validator, stream>>

GetInternalSubset ==
  /\ Idle /\ document.intSubset # NULL
  /\ IF heap.private[document.intSubset] # NULL THEN UNCHANGED heap
     ELSE \E o \in FreshObjects(heap) : heap' = Construct(heap, o, document.intSubset)
  /\ UNCHANGED <<document, caller, validator, stream>>

\* xmlCreateIntSubset() makes nothing if there is one.
SetInternalSubset ==
  /\ Idle /\ document.live
  /\ IF document.intSubset # NULL THEN UNCHANGED <<heap, document>>
     ELSE \E x \in FreshDtds(heap), o \in FreshObjects(heap) :
            /\ heap' = Construct(heap, o, x)
            /\ document' = [document EXCEPT !.intSubset = x]
  /\ UNCHANGED <<caller, validator, stream>>

\* Document::~Document(): free_wrappers() deletes the Dtd, xmlFreeDoc() the xmlDtd.  The caller
\* does not delete a document whose Dtd the validator is to use.
DeleteDocument ==
  /\ Idle /\ document.live
  /\ LET o == DocumentsDtd(heap)
         h == IF o = NULL THEN heap ELSE Delete(heap, o) IN
     /\ o = NULL \/ o # validator.dtd
     /\ heap' = [h EXCEPT !.private =
                   [y \in Dtds |-> IF y = document.intSubset THEN "free" ELSE @[y]]]
  /\ document' = NoDocument
  /\ UNCHANGED <<caller, validator, stream>>

(* The caller's Dtds.                                                      *)

NewDtd ==
  /\ Idle
  /\ \E o \in FreshObjects(heap) :
       heap' = Construct(heap, o, NULL) /\ caller' = [caller EXCEPT !.objects = @ \cup {o}]
  /\ UNCHANGED <<document, validator, stream>>

\* The constructors that parse: nothing is left if they throw.
NewParsedDtd ==
  /\ Idle
  /\ \E o \in FreshObjects(heap), x \in FreshDtds(heap) :
       \/ /\ heap' = Assign(Construct(heap, o, NULL), o, x)
          /\ caller' = [caller EXCEPT !.objects = @ \cup {o}]
       \/ UNCHANGED <<heap, caller>>
  /\ UNCHANGED <<document, validator, stream>>

\* The caller has an xmlDtd from libxml2.
OwnXmlDtd ==
  /\ Idle
  /\ \E x \in FreshDtds(heap) :
       heap' = [heap EXCEPT !.private[x] = NULL] /\ caller' = [caller EXCEPT !.dtds = @ \cup {x}]
  /\ UNCHANGED <<document, validator, stream>>

\* The caller makes a Dtd of its xmlDtd, which it may give away, or of the document's.
WrapXmlDtd(own) ==
  /\ Idle
  /\ \E o \in FreshObjects(heap), x \in caller.dtds \cup ({document.intSubset} \ {NULL}) :
       /\ own => x \in caller.dtds
       /\ (heap.private[x] = NULL /\ x # document.intSubset) \/ WrapAgain \in Uses
       /\ heap' = [Construct(heap, o, x) EXCEPT !.isOwner[o] = own]
       /\ caller' = [objects |-> caller.objects \cup {o},
                     dtds |-> IF own THEN caller.dtds \ {x} ELSE caller.dtds]
  /\ UNCHANGED <<document, validator, stream>>

\* The caller frees its xmlDtd when no Dtd has it.
FreeXmlDtd(x) ==
  /\ Idle /\ x \in caller.dtds /\ heap.private[x] = NULL
  /\ heap' = [heap EXCEPT !.private[x] = "free"] /\ caller' = [caller EXCEPT !.dtds = @ \ {x}]
  /\ UNCHANGED <<document, validator, stream>>

\* Dtd::~Dtd(), of one that the validator is not to use.
DeleteDtd(o) ==
  /\ Idle /\ o \in caller.objects /\ o # validator.dtd
  /\ heap' = Delete(heap, o)
  /\ caller' = [caller EXCEPT !.objects = @ \ {o}]
  /\ UNCHANGED <<document, validator, stream>>

MayParse(o) == o \in Known /\ (o # DocumentsDtd(heap) \/ ParseDocumentsDtd \in Uses)

\* Mutant of ParseSubset: the old xmlDtd is not released.
ParseSubsetOver(o) ==
  /\ Idle /\ MayParse(o)
  /\ \/ \E x \in FreshDtds(heap) : heap' = Assign(heap, o, x)
     \/ heap' = heap
  /\ UNCHANGED <<document, caller, validator, stream>>

\* parse_file() and parse_subset(); the old xmlDtd is gone when they throw.
ParseSubset(o) ==
  /\ Idle /\ MayParse(o)
  /\ LET h == ReleaseUnderlying(heap, o) IN
     \/ \E x \in FreshDtds(h) : heap' = Assign(h, o, x)
     \/ heap' = h
  /\ UNCHANGED <<document, caller, validator, stream>>

(* parse_stream() and parse_memory().                                      *)

\* A stream of so many units: left to read, got by libxml2; good: std::istream's state, lost: it
\* failed before its end; more: libxml2 will ask for more.
ParseStream(o, n) ==
  /\ Idle /\ MayParse(o)
  /\ heap' = ReleaseUnderlying(heap, o)
  /\ stream' = [into |-> o, length |-> n, left |-> n, got |-> 0,
                good |-> TRUE, lost |-> FALSE, more |-> TRUE]
  /\ UNCHANGED <<document, caller, validator>>

\* istream::read() of so many units: eofbit and failbit if there were fewer.
StreamRead(s, count) ==
  [s EXCEPT !.left = @ - count, !.good = count = ReadLen,
            !.lost = @ \/ (count < ReadLen /\ count < s.left)]

\* Mutant of DoRead: the state of the stream is looked at after read().
DoReadThenLook(s, count) ==
  LET r == StreamRead(s, count) IN
  IF r.good THEN [r EXCEPT !.got = @ + count, !.more = count > 0] ELSE [r EXCEPT !.more = FALSE]

\* IStreamParserInputBuffer::do_read(): what gcount() says, if the stream has been good.
DoRead(s, count) ==
  IF s.good
  THEN LET r == StreamRead(s, count) IN [r EXCEPT !.got = @ + count, !.more = count > 0]
  ELSE [s EXCEPT !.more = FALSE]

\* A stream gives what it has, up to ReadLen, or less if it fails.
OnRead ==
  /\ stream # NULL /\ stream.more
  /\ \E count \in 0..ReadLen : count <= stream.left /\ stream' = DoRead(stream, count)
  /\ UNCHANGED <<heap, document, caller, validator>>

\* xmlIOParseDTD() has made an xmlDtd of all that it could read.
ParsedStream ==
  /\ stream # NULL /\ ~stream.more
  /\ \E x \in FreshDtds(heap) : heap' = Assign(heap, stream.into, x)
  /\ stream' = NULL
  /\ UNCHANGED <<document, caller, validator>>

\* It gives up at any time.
StreamParseError ==
  /\ stream # NULL
  /\ stream' = NULL
  /\ UNCHANGED <<heap, document, caller, validator>>

(* DtdValidator.                                                           *)

\* Mutant of Dropped: the validator forgets a Dtd of its own.
DroppedOnly(h) == h

\* release_underlying().
Dropped(h) ==
  IF validator.dtd # NULL /\ validator.isOwner THEN Delete(h, validator.dtd) ELSE h

\* set_dtd(), also by the constructor.  The caller may give a Dtd away that is its own; the
\* same Dtd is not given twice.
SetDtd(o, own) ==
  /\ Idle /\ o \in Known \ {validator.dtd}
  /\ own => o \in caller.objects
  /\ heap' = Dropped(heap)
  /\ validator' = [dtd |-> o, isOwner |-> own]
  /\ caller' = IF own THEN [caller EXCEPT !.objects = @ \ {o}] ELSE caller
  /\ UNCHANGED <<document, stream>>

\* parse_file(), parse_subset(), parse_memory() and parse_stream(): the new Dtd is parsed before
\* the old one is let go, and deleted if that fails.
ParseIntoValidator ==
  /\ Idle
  /\ \/ \E o \in FreshObjects(heap), x \in FreshDtds(heap) :
          /\ heap' = Dropped(Assign(Construct(heap, o, NULL), o, x))
          /\ validator' = [dtd |-> o, isOwner |-> TRUE]
     \/ UNCHANGED <<heap, validator>>
  /\ UNCHANGED <<document, caller, stream>>

\* DtdValidator::~DtdValidator(), and another validator.
DeleteValidator ==
  /\ Idle /\ validator.dtd # NULL
  /\ heap' = Dropped(heap)
  /\ validator' = [dtd |-> NULL, isOwner |-> FALSE]
  /\ UNCHANGED <<document, caller, stream>>

-----------------------------------------------------------------------------
DtdNext ==
  \/ NewDocument \/ GetInternalSubset \/ SetInternalSubset \/ DeleteDocument
  \/ NewDtd \/ NewParsedDtd \/ OwnXmlDtd
  \/ \E own \in BOOLEAN : WrapXmlDtd(own)
  \/ \E x \in Dtds : FreeXmlDtd(x)
  \/ \E o \in Objects : DeleteDtd(o) \/ ParseSubset(o)
  \/ \E o \in Objects, n \in 0..Length : ParseStream(o, n)
  \/ OnRead \/ ParsedStream \/ StreamParseError
  \/ \E o \in Objects, own \in BOOLEAN : SetDtd(o, own)
  \/ ParseIntoValidator \/ DeleteValidator

DtdSpec == DtdInit /\ [][DtdNext]_dtdVars

-----------------------------------------------------------------------------
(* Properties.                                                             *)

StreamStates == [into : Objects, length : 0..Length, left : 0..Length, got : 0..Length,
                 good : BOOLEAN, lost : BOOLEAN, more : BOOLEAN]

DtdTypeOK ==
  /\ heap \in Heap
  /\ document \in [live : BOOLEAN, intSubset : Dtds \cup {NULL}]
  /\ caller \in [objects : SUBSET Objects, dtds : SUBSET Dtds]
  /\ validator \in [dtd : Objects \cup {NULL}, isOwner : BOOLEAN]
  /\ stream \in StreamStates \cup {NULL}

\* Who will free an xmlDtd: the document, the caller, or the Dtd that owns it.
Owners(x) ==
  (IF x = document.intSubset THEN {"document"} ELSE {})
    \cup (IF x \in caller.dtds THEN {"caller"} ELSE {})
    \cup {o \in heap.live : heap.isOwner[o] /\ heap.dtd[o] = x}

\* Who will delete a Dtd: the caller, the validator, or the document that made it.
Deleters(o) ==
  (IF o \in caller.objects THEN {"caller"} ELSE {})
    \cup (IF o = validator.dtd /\ validator.isOwner THEN {"validator"} ELSE {})
    \cup (IF o = DocumentsDtd(heap) THEN {"document"} ELSE {})

ExactlyOne(S) == \E e \in S : S = {e}

\* Every xmlDtd is freed by one of Dtd, document and caller.
XmlDtdOwnership ==
  \A x \in Dtds :
    IF heap.private[x] = "free" THEN Owners(x) = {} ELSE ExactlyOne(Owners(x))

\* Every Dtd is deleted by its caller, the validator it has been given to, or the document.
DtdDeletion ==
  \A o \in Objects : IF o \in heap.live THEN ExactlyOne(Deleters(o)) ELSE Deleters(o) = {}

\* Nothing leaks and nothing is deleted twice, whichever parse fails and whoever is given what:
\* every Dtd and every xmlDtd has one owner (Dtd::release_underlying, Dtd::parse_subset,
\* DtdValidator::release_underlying, Document::~Document).
OneOwner == XmlDtdOwnership /\ DtdDeletion

\* A Dtd and its xmlDtd refer to each other, and to nothing that is gone.
LinksAgree ==
  /\ \A o \in heap.live : heap.dtd[o] # NULL => heap.private[heap.dtd[o]] = o
  /\ \A x \in Dtds : heap.private[x] \in Objects =>
       heap.private[x] \in heap.live /\ heap.dtd[heap.private[x]] = x
  /\ validator.dtd # NULL => validator.dtd \in heap.live
  /\ stream # NULL => stream.into \in heap.live /\ heap.dtd[stream.into] = NULL

\* The inductive invariant.
DtdInv ==
  /\ DtdTypeOK
  /\ LinksAgree
  /\ \A o \in Objects \ heap.live : heap.dtd[o] = NULL
  /\ \A o \in Objects : heap.isOwner[o] => heap.dtd[o] # NULL
  /\ ~document.live => document.intSubset = NULL
  /\ validator.isOwner => validator.dtd # NULL

\* libxml2 parses all that the stream had, to the last byte, unless the stream itself fails
\* before its end: nothing is lost between a short read and the end of data (do_read).
WholeStream ==
  stream # NULL =>
    /\ stream.got + stream.left = stream.length
    /\ ~stream.more /\ ~stream.lost => stream.got = stream.length

\* A document gives the same Dtd, of the same xmlDtd, for as long as it lives, so that a pointer
\* from get_internal_subset() may be kept (get_internal_subset, set_internal_subset).
StableSubset ==
  [][document.live /\ document'.live =>
       /\ document.intSubset # NULL => document'.intSubset = document.intSubset
       /\ DocumentsDtd(heap) # NULL => DocumentsDtd(heap)' = DocumentsDtd(heap)]_dtdVars

=============================================================================
