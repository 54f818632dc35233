------------------------------ MODULE NodeHeap ------------------------------
(***************************************************************************)
(* The xmlNodes of one document and the C++ objects that wrap them.        *)
(* libxml2 owns the nodes; a wrapper points to its node (Node::impl_) and  *)
(* the node to its wrapper (xmlNode::_private).  A heap h is a record:     *)
(*   h.kind[n]     xmlNode::type, or "free" when no node is at n           *)
(*   h.above[n]    the nodes that contain n, from its parent to the root   *)
(*   h.private[n]  xmlNode::_private                                       *)
(*   h.object[w]   the C++ object at w                                     *)
(* The operators are the steps that the functions of libxml++ and libxml2  *)
(* are sequences of; each takes the heap and returns the heap after it.    *)
(***************************************************************************)
EXTENDS Naturals

CONSTANTS
  Nodes,     \* addresses of xmlNodes
  Wrappers,  \* addresses of C++ objects
  NULL

ASSUME HeapAssumption == NULL \notin Nodes \cup Wrappers

\* "leaf" stands for comments, CDATA sections, processing instructions, entity references and
\* XIncludeEnd: all are added in the same way and nothing is ever below them.
Kinds == {"element", "text", "leaf", "include", "attribute", "dtd", "attribute_decl", "entity_decl"}
Classes == {"Element", "TextNode", "LeafNode", "XIncludeStart", "AttributeNode", "Dtd",
            "AttributeDeclaration", "EntityDeclaration"}

\* The class create_wrapper() makes for a node.
ClassOf == [element |-> "Element", text |-> "TextNode", leaf |-> "LeafNode",
            include |-> "XIncludeStart", attribute |-> "AttributeNode", dtd |-> "Dtd",
            attribute_decl |-> "AttributeDeclaration", entity_decl |-> "EntityDeclaration"]

\* The classes whose objects a pointer of a static type may point to.  Dtd is no Node.
Derived == [Node      |-> Classes \ {"Dtd"},
            Element   |-> {"Element"},
            TextNode  |-> {"TextNode"},
            LeafNode  |-> {"LeafNode"},
            Attribute |-> {"AttributeNode", "AttributeDeclaration"},
            Dtd       |-> {"Dtd"}]

Object  == [impl : Nodes, class : Classes]
Deleted == [impl |-> NULL, class |-> "deleted"]

Heap == [kind : [Nodes -> Kinds \cup {"free"}], above : [Nodes -> SUBSET Nodes],
         private : [Nodes -> Wrappers \cup {NULL}], object : [Wrappers -> Object \cup {Deleted}]]

Free(h)      == {n \in Nodes : h.kind[n] = "free"}
Allocated(h) == Nodes \ Free(h)
Live(h)      == {w \in Wrappers : h.object[w] # Deleted}
OfKind(h, K) == {n \in Nodes : h.kind[n] \in K}
Below(h, n)  == {m \in Nodes : n \in h.above[m]}
Subtree(h, n) == {n} \cup Below(h, n)
ChildOf(h, n, p) == h.above[n] = h.above[p] \cup {p}
InAttribute(h, n) == \E a \in h.above[n] : h.kind[a] = "attribute"

EmptyHeap == [kind |-> [n \in Nodes |-> "free"], above |-> [n \in Nodes |-> {}],
              private |-> [n \in Nodes |-> NULL], object |-> [w \in Wrappers |-> Deleted]]

-----------------------------------------------------------------------------
(* Node::create_wrapper() and Node::free_wrappers().                       *)

\* w is the object that "new" returns, if a new one is needed.
CreateWrapper(h, n, w) ==
  IF h.private[n] # NULL THEN h
  ELSE [h EXCEPT !.private[n] = w,
                 !.object[w] = [impl |-> n, class |-> ClassOf[h.kind[n]]]]

\* The wrappers of the nodes in S are deleted.
DeleteWrappers(h, S) ==
  LET gone == {h.private[m] : m \in S} IN
  [h EXCEPT !.private = [m \in Nodes |-> IF m \in S THEN NULL ELSE @[m]],
            !.object  = [w \in Wrappers |-> IF w \in gone THEN Deleted ELSE @[w]]]

\* Mutant of FreeWrappers: the wrapper of the node itself, not those below it.
FreeWrapperOnly(h, n) == DeleteWrappers(h, {n})

\* The wrappers of n and of all that is below it, attributes included.
FreeWrappers(h, n) == DeleteWrappers(h, Subtree(h, n))

-----------------------------------------------------------------------------
(* libxml2's part: nodes come and go without regard to wrappers.           *)

\* xmlFreeNode() and its siblings, for all the nodes in S.
FreeNodes(h, S) ==
  [h EXCEPT !.kind    = [n \in Nodes |-> IF n \in S THEN "free" ELSE @[n]],
            !.above   = [n \in Nodes |-> IF n \in S THEN {} ELSE @[n]],
            !.private = [n \in Nodes |-> IF n \in S THEN NULL ELSE @[n]]]

\* New nodes N, of kinds k and arranged among themselves by a, below the nodes P.
Graft(h, N, k, a, P) ==
  [h EXCEPT !.kind  = [n \in Nodes |-> IF n \in N THEN k[n] ELSE @[n]],
            !.above = [n \in Nodes |-> IF n \in N THEN a[n] \cup P ELSE @[n]]]

\* The nodes that contain a child of p; NULL is the document.
Path(h, p) == IF p = NULL THEN {} ELSE h.above[p] \cup {p}

NewNode(h, n, kind, p) == Graft(h, {n}, [m \in {n} |-> kind], [m \in {n} |-> {}], Path(h, p))

\* An attribute has its value in a text node.
NewAttribute(h, a, t, p) ==
  Graft(h, {a, t}, [m \in {a, t} |-> IF m = a THEN "attribute" ELSE "text"],
        [m \in {a, t} |-> IF m = a THEN {} ELSE {a}], Path(h, p))

\* xmlDocCopyNode(): N are copies of the nodes of heap g that f maps them to.
Copy(h, g, N, f, p) ==
  Graft(h, N, [n \in N |-> g.kind[f[n]]], [n \in N |-> {m \in N : f[m] \in g.above[f[n]]}],
        Path(h, p))

Bijections(N, S) ==
  {f \in [N -> S] : /\ \A s \in S : \E n \in N : f[n] = s
                    /\ \A m, n \in N : f[m] = f[n] => m = n}

-----------------------------------------------------------------------------
(* What every heap between two calls is.                                   *)

\* The nodes form a forest, and what remains of it when a subtree is freed does too.
Forest(h) ==
  \A n \in Nodes :
    /\ h.kind[n] = "free" => h.above[n] = {} /\ h.private[n] = NULL
    /\ n \notin h.above[n]
    /\ \A m \in h.above[n] : h.kind[m] # "free" /\ h.above[m] \subseteq h.above[n]
    /\ \A m, k \in h.above[n] : m = k \/ m \in h.above[k] \/ k \in h.above[m]

\* Declarations are nowhere but in a DTD, that is at the top, and no attribute is below another.
Placed(h) ==
  \A n \in Nodes :
    /\ h.kind[n] = "dtd" => h.above[n] = {}
    /\ h.kind[n] \in {"attribute_decl", "entity_decl"} => \A m \in h.above[n] : h.kind[m] = "dtd"
    /\ h.kind[n] = "attribute" => ~InAttribute(h, n)

\* Every object wraps an allocated node, is its only wrapper, and has the class of its type.
ObjectsLinked(h) ==
  \A w \in Live(h) :
    LET n == h.object[w].impl IN
    n \in Allocated(h) /\ h.private[n] = w /\ h.object[w].class = ClassOf[h.kind[n]]

\* Every _private points to an object that wraps the node.
PrivateLinked(h) ==
  \A n \in Nodes : h.private[n] # NULL =>
    h.private[n] \in Live(h) /\ h.object[h.private[n]].impl = n

=============================================================================
