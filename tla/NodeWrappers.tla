---------------------------- MODULE NodeWrappers ----------------------------
(***************************************************************************)
(* xmlpp::Document, Node, Element, AttributeNode and Dtd as owners of C++  *)
(* wrappers: the calls that look at a document, change it and delete it.   *)
(* libxml2 frees and merges nodes by itself; every wrapper of such a node  *)
(* must be deleted first, and no other wrapper may be, because the caller  *)
(* keeps pointers to all of them.                                          *)
(***************************************************************************)
EXTENDS NodeHeap

CONSTANT
  Uses  \* what else the caller does or the document has, of the next two

\* The caller asks an attribute node for its children.
AttributeText == "the children of an attribute"
\* The caller asks a top-level node for a sibling that is the DTD.
DtdSibling == "the DTD as a sibling"

ASSUME UsesAssumption == Uses \subseteq {AttributeText, DtdSibling}

VARIABLES
  document,  \* the Document exists
  heap,      \* its nodes and their wrappers
  result     \* what the last call returned: a pointer and its static type

vars == <<document, heap, result>>

Nothing == [ptr |-> NULL, type |-> "Node"]

Wrapped(n)    == n \in Allocated(heap) /\ heap.private[n] # NULL
Roots         == {n \in OfKind(heap, {"element"}) : heap.above[n] = {}}
Dtds          == OfKind(heap, {"dtd"})

\* A document is created empty or by a parser, with the default value of an attribute
\* declared in its internal subset.
Init ==
  /\ document = TRUE /\ result = Nothing
  /\ \/ heap = EmptyHeap
     \/ \E t \in Nodes : \E d \in Nodes \ {t} :
          heap = NewNode(NewNode(EmptyHeap, t, "dtd", NULL), d, "attribute_decl", t)

\* The end of most methods: node n of heap h has a wrapper, w, or is given one; it is returned.
Return(h, n, type) ==
  \E w \in IF h.private[n] = NULL THEN Wrappers \ Live(h) ELSE {h.private[n]} :
    /\ heap' = CreateWrapper(h, n, w)
    /\ result' = [ptr |-> w, type |-> type]

ReturnNothing(h) == heap' = h /\ result' = Nothing

\* A method that returns nothing asks for the wrapper of n.
Wrap(h, n) ==
  \E w \in IF h.private[n] = NULL THEN Wrappers \ Live(h) ELSE {h.private[n]} :
    ReturnNothing(CreateWrapper(h, n, w))

-----------------------------------------------------------------------------
(* Looking at the document.                                                *)

MayLookAt(n) ==
  /\ document /\ n \in Allocated(heap)
  /\ InAttribute(heap, n) => AttributeText \in Uses

\* find(), get_children(), get_first_child() and the siblings.
GetNode(n) ==
  /\ MayLookAt(n)
  /\ heap.kind[n] = "dtd" => DtdSibling \in Uses
  /\ Return(heap, n, "Node")
  /\ UNCHANGED document

GetParent(n) ==
  /\ document /\ Wrapped(n)
  /\ \E p \in OfKind(heap, {"element"}) :
       ChildOf(heap, n, p) /\ Return(heap, p, "Element")
  /\ UNCHANGED document

\* Mutant of GetRootNode: a child of the document, whatever its type.
GetTopLevelNode ==
  /\ document
  /\ \E n \in Allocated(heap) : heap.above[n] = {} /\ Return(heap, n, "Element")
  /\ UNCHANGED document

TextsOf(p) == {t \in OfKind(heap, {"text"}) : ChildOf(heap, t, p)}

GetFirstChildText(p) ==
  /\ document /\ Wrapped(p) /\ heap.kind[p] = "element"
  /\ \E t \in TextsOf(p) : Return(heap, t, "TextNode")
  /\ UNCHANGED document

GetRootNode ==
  /\ document
  /\ \E r \in Roots : Return(heap, r, "Element")
  /\ UNCHANGED document

\* xmlHasNsProp() finds an attribute of p, or the declaration of one.
AttributesOf(p) == {a \in OfKind(heap, {"attribute"}) : ChildOf(heap, a, p)}
HasNsProp(p) == AttributesOf(p) \cup OfKind(heap, {"attribute_decl"})

GetAttribute(p) ==
  /\ document /\ Wrapped(p) /\ heap.kind[p] = "element"
  /\ \E a \in HasNsProp(p) : Return(heap, a, "Attribute")
  /\ UNCHANGED document

GetInternalSubset ==
  /\ document
  /\ \E t \in Dtds : Return(heap, t, "Dtd")
  /\ UNCHANGED document

-----------------------------------------------------------------------------
(* Adding nodes.                                                           *)

\* add_child_element() and its siblings.
AddChildElement(p) ==
  /\ document /\ Wrapped(p) /\ heap.kind[p] = "element"
  /\ \E n \in Free(heap) : Return(NewNode(heap, n, "element", p), n, "Element")
  /\ UNCHANGED document

\* add_child_comment(), add_child_cdata(), add_child_entity_reference() and
\* add_child_processing_instruction().
AddChildLeaf(p) ==
  /\ document /\ Wrapped(p) /\ heap.kind[p] = "element"
  /\ \E n \in Free(heap) : Return(NewNode(heap, n, "leaf", p), n, "LeafNode")
  /\ UNCHANGED document

\* Document::add_comment() and add_processing_instruction().
AddToDocument ==
  /\ document
  /\ \E n \in Free(heap) : Return(NewNode(heap, n, "leaf", NULL), n, "LeafNode")
  /\ UNCHANGED document

\* The text nodes that libxml2 may merge a new text with.
Mergeable(p) == TextsOf(p) \cup (OfKind(heap, {"text"}) \cap {p})

\* Mutant of AddText: the new node is wrapped, even if it was merged and freed.
AddTextUnmerged(p) ==
  /\ document /\ Wrapped(p) /\ heap.kind[p] = "element"
  /\ \E n \in Free(heap) :
       \/ Return(NewNode(heap, n, "text", p), n, "TextNode")
       \/ /\ Mergeable(p) # {}
          /\ \E w \in Wrappers \ Live(heap) :
               heap' = FreeNodes(CreateWrapper(NewNode(heap, n, "text", p), n, w), {n})
               /\ result' = [ptr |-> w, type |-> "TextNode"]
  /\ UNCHANGED document

\* add_child_text() and add_child_text_before(): a new text node, or an old one that
\* libxml2 has merged it with.
AddText(p) ==
  /\ document /\ Wrapped(p) /\ heap.kind[p] = "element"
  /\ \/ \E n \in Free(heap) : Return(NewNode(heap, n, "text", p), n, "TextNode")
     \/ \E t \in Mergeable(p) : Return(heap, t, "TextNode")
  /\ UNCHANGED document

\* The first text child is given the content, or a text is added: there is none to merge it with.
SetFirstChildText(p) ==
  /\ document /\ Wrapped(p) /\ heap.kind[p] = "element"
  /\ \/ \E t \in TextsOf(p) : Wrap(heap, t)
     \/ TextsOf(p) = {} /\ \E n \in Free(heap) : Wrap(NewNode(heap, n, "text", p), n)
  /\ UNCHANGED document

SetInternalSubset ==
  /\ document /\ Dtds = {}
  /\ \E t \in Free(heap) : Wrap(NewNode(heap, t, "dtd", NULL), t)
  /\ UNCHANGED document

SetEntityDeclaration ==
  /\ document
  /\ \E t \in Dtds, d \in Free(heap) : ReturnNothing(NewNode(heap, d, "entity_decl", t))
  /\ UNCHANGED document

-----------------------------------------------------------------------------
(* Attributes.                                                             *)

\* xmlSetProp() of an attribute that exists: its text is freed and replaced.
NewValue(h, a) == FreeNodes(h, Below(h, a))

AddAttribute(p) ==
  /\ document /\ Wrapped(p) /\ heap.kind[p] = "element"
  /\ \E a \in Free(heap) : \E t \in Free(heap) \ {a} :
       Return(NewAttribute(heap, a, t, p), a, "Attribute")
  /\ UNCHANGED document

\* Element::set_attribute() of an existing attribute, and AttributeNode::set_value().
SetAttribute(a) ==
  /\ document /\ a \in Allocated(heap) /\ heap.kind[a] = "attribute"
  /\ LET h == NewValue(heap, a) IN
     \E t \in Free(h) :
       \/ Return(NewNode(h, t, "text", a), a, "Attribute")
       \/ Wrapped(a) /\ ReturnNothing(NewNode(h, t, "text", a))
  /\ UNCHANGED document

\* free_wrappers() and then xmlFreeNode(), which frees the same subtree.
Remove(h, n) == FreeNodes(FreeWrappers(h, n), Subtree(h, n))

\* Mutant of RemoveAttribute: what xmlHasNsProp() finds may be a declaration.
RemoveFoundAttribute(p) ==
  /\ document /\ Wrapped(p) /\ heap.kind[p] = "element"
  /\ \E a \in HasNsProp(p) :
       ReturnNothing(IF heap.kind[a] = "attribute" THEN Remove(heap, a) ELSE FreeWrappers(heap, a))
  /\ UNCHANGED document

RemoveAttribute(p) ==
  /\ document /\ Wrapped(p) /\ heap.kind[p] = "element"
  /\ \E a \in HasNsProp(p) :
       ReturnNothing(IF heap.kind[a] = "attribute" THEN Remove(heap, a) ELSE heap)
  /\ UNCHANGED document

-----------------------------------------------------------------------------
(* Removing, importing and replacing.                                      *)

Copyable == {"element", "text", "leaf", "include", "attribute"}

RemoveNode(n) ==
  /\ document /\ Wrapped(n) /\ heap.kind[n] \in Copyable
  /\ ReturnNothing(Remove(heap, n))
  /\ UNCHANGED document

\* xmlDocCopyNode() without "recursive" copies one node; an attribute keeps its text.
Copied(s, recursive) ==
  IF recursive \/ heap.kind[s] = "attribute" THEN Subtree(heap, s) ELSE {s}

\* A copy of s, made before anything is freed, goes below p (into the document if p is NULL)
\* of heap h and is returned.
ReturnCopy(h, s, recursive, p, type) ==
  \E N \in SUBSET Free(heap) : \E f \in Bijections(N, Copied(s, recursive)) : \E n \in N :
    f[n] = s /\ Return(Copy(h, heap, N, f, p), n, type)

\* import_node(): text may be merged.
ImportNode(p, s, recursive) ==
  /\ document /\ Wrapped(p) /\ Wrapped(s)
  /\ heap.kind[p] = "element"
  /\ heap.kind[s] \in Copyable \ {"attribute"}
  /\ \/ ReturnCopy(heap, s, recursive, p, "Node")
     \/ heap.kind[s] = "text" /\ \E t \in Mergeable(p) : Return(heap, t, "Node")
  /\ UNCHANGED document

\* import_node() of text below a text, or below the text of an attribute.
ImportText(p, s) ==
  /\ document /\ Wrapped(p) /\ Wrapped(s)
  /\ heap.kind[p] \in {"text"} \cup (IF AttributeText \in Uses THEN {"attribute"} ELSE {})
  /\ heap.kind[s] = "text"
  /\ \E t \in Mergeable(p) : Return(heap, t, "Node")
  /\ UNCHANGED document

\* import_node() of an attribute: xmlAddChild() deletes an attribute of the same name.
ImportAttribute(p, s) ==
  /\ document /\ Wrapped(p) /\ Wrapped(s)
  /\ heap.kind[p] = "element" /\ heap.kind[s] = "attribute"
  /\ \/ ReturnCopy(heap, s, TRUE, p, "Node")
     \/ \E a \in AttributesOf(p) : ReturnCopy(Remove(heap, a), s, TRUE, p, "Node")
  /\ UNCHANGED document

\* The old root is freed after the new one is linked.
ReplaceRoot(h) == IF Roots = {} THEN {h} ELSE {Remove(h, r) : r \in Roots}

CreateRootNode ==
  /\ document
  /\ \E n \in Free(heap) : \E h \in ReplaceRoot(NewNode(heap, n, "element", NULL)) :
       Return(h, n, "Element")
  /\ UNCHANGED document

\* create_root_node_by_import(); the copied node may be in the tree that is replaced.
CreateRootNodeByImport(s, recursive) ==
  /\ document /\ Wrapped(s) /\ heap.kind[s] = "element"
  /\ \E h \in ReplaceRoot(heap) : ReturnCopy(h, s, recursive, NULL, "Element")
  /\ UNCHANGED document

-----------------------------------------------------------------------------
(* Document::process_xinclude().                                           *)

\* Nodes below x that are neither its attributes nor below those.
ContentOf(x) ==
  {m \in Below(heap, x) : \A a \in AttributesOf(x) : m \notin Subtree(heap, a)}

\* External: libxml2 turns the element x into an XIncludeStart, or frees it.
Started(x)  == FreeNodes([heap EXCEPT !.kind[x] = "include"], ContentOf(x))
Replaced(x) == FreeNodes(heap, Subtree(heap, x))

\* Next to x come n, an XIncludeEnd, and the included element e, or nothing if it is n.
Ended(x, n, e) ==
  Graft(Started(x), {n, e}, [m \in {n, e} |-> IF m = n THEN "leaf" ELSE "element"],
        [m \in {n, e} |-> {}], heap.above[x])
\* The included element e comes in place of x.
InPlace(x, e) ==
  Graft(Replaced(x), {e}, [m \in {e} |-> "element"], [m \in {e} |-> {}], heap.above[x])

\* The heaps that the inclusion may leave.  Bound: one inclusion, of at most one element.
Included(x) ==
  {Ended(x, n, e) : n, e \in Free(Started(x))} \cup {InPlace(x, e) : e \in Free(heap)}
    \cup {Replaced(x)}

\* Mutant of DeleteStale: a wrapper is kept although the type of its node has changed.
DeleteUnlinked(h, known) ==
  LET stale == {w \in known : \A n \in Nodes : h.private[n] # w} IN
  [h EXCEPT !.object = [w \in Wrappers |-> IF w \in stale THEN Deleted ELSE @[w]]]

\* remove_found_wrappers() and the deletion of those not found: a wrapper found before is
\* kept if it is found again, at a node of the same type.
DeleteStale(h, known) ==
  LET Changed(n) == h.kind[n] # heap.kind[heap.object[h.private[n]].impl]
      stale == {w \in known : \A n \in Allocated(h) : h.private[n] = w => Changed(n)} IN
  [h EXCEPT !.private = [n \in Nodes |-> IF @[n] \in stale THEN NULL ELSE @[n]],
            !.object  = [w \in Wrappers |-> IF w \in stale THEN Deleted ELSE @[w]]]

\* find_wrappers() looks below the root element only.
ProcessXInclude ==
  /\ document
  /\ \E r \in Roots : \E x \in Subtree(heap, r) :
       /\ heap.kind[x] = "element"
       /\ \E h \in Included(x) :
            ReturnNothing(DeleteStale(h, {heap.private[n] : n \in Subtree(heap, r)} \ {NULL}))
  /\ UNCHANGED document

-----------------------------------------------------------------------------

\* ~Document(): free_wrappers() walks all nodes of the document before xmlFreeDoc() frees them.
Destroy ==
  /\ document
  /\ document' = FALSE
  /\ ReturnNothing(FreeNodes(DeleteWrappers(heap, Allocated(heap)), Nodes))

NewDocument ==
  /\ ~document
  /\ document' = TRUE
  /\ ReturnNothing(heap)

Look ==
  \/ \E n \in Nodes : GetNode(n) \/ GetParent(n) \/ GetAttribute(n) \/ GetFirstChildText(n)
  \/ GetRootNode \/ GetInternalSubset
Add ==
  \/ \E n \in Nodes : AddChildElement(n) \/ AddChildLeaf(n) \/ AddText(n) \/ SetFirstChildText(n)
  \/ \E n \in Nodes : AddAttribute(n) \/ SetAttribute(n)
  \/ AddToDocument \/ SetInternalSubset \/ SetEntityDeclaration
Change ==
  \/ \E n \in Nodes : RemoveAttribute(n) \/ RemoveNode(n)
  \/ \E p, s \in Nodes : ImportText(p, s) \/ ImportAttribute(p, s)
  \/ \E p, s \in Nodes : \E recursive \in BOOLEAN : ImportNode(p, s, recursive)
  \/ \E s \in Nodes : \E recursive \in BOOLEAN : CreateRootNodeByImport(s, recursive)
  \/ CreateRootNode \/ ProcessXInclude

Next == Look \/ Add \/ Change \/ Destroy \/ NewDocument

Spec == Init /\ [][Next]_vars

-----------------------------------------------------------------------------
(* Properties.                                                             *)

NodeTypeOK ==
  /\ document \in BOOLEAN
  /\ heap \in Heap
  /\ result \in [ptr : Wrappers \cup {NULL}, type : DOMAIN Derived]

\* Every C++ object the caller may hold wraps an allocated node, is the only wrapper of that
\* node, and has the class create_wrapper() chooses for the node's present type; every
\* _private points to such an object.  No call leaves a dangling pointer on either side.
Linked == ObjectsLinked(heap) /\ PrivateLinked(heap)

\* What a method returns is an object of the static type it is returned as: the casts of
\* _private are right, for merged text, replaced roots and declared attributes too.
ResultUsable ==
  result.ptr # NULL =>
    result.ptr \in Live(heap) /\ heap.object[result.ptr].class \in Derived[result.type]

\* A pointer to a wrapper stays good until its node is freed or, by XInclude, changes its
\* type: no call deletes the wrapper of a node that stays.
PointersStayValid ==
  [][\A w \in Live(heap) :
       LET n == heap.object[w].impl IN
       n \in Allocated(heap') /\ heap'.kind[n] = heap.kind[n] /\ heap'.above[n] = heap.above[n]
         => heap'.object[w] = heap.object[w]]_vars

\* Nodes are the library's to manage: none outlives its document.
NothingOutlivesDocument == ~document => Live(heap) = {}

\* As long as the caller does not ask for it, nothing below an attribute is wrapped: libxml2
\* frees it when the attribute is set.
AttributeTextUnwrapped ==
  AttributeText \notin Uses => \A n \in Nodes : InAttribute(heap, n) => heap.private[n] = NULL

\* The inductive invariant: the heap is in order, and with the document all of it goes.
NodeInv == /\ NodeTypeOK /\ Forest(heap) /\ Placed(heap) /\ Linked /\ AttributeTextUnwrapped
           /\ NothingOutlivesDocument

=============================================================================
