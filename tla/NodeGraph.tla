------------------------------ MODULE NodeGraph ------------------------------
(***************************************************************************)
(* The three walks that libxml++ makes over the nodes of a document to find *)
(* their wrappers: Node::free_wrappers(), before libxml2 frees nodes, and  *)
(* find_wrappers() and remove_found_wrappers(), before and after libxml2   *)
(* has processed XInclude; and the XPath methods, which make wrappers.     *)
(* The nodes are a graph and no tree: the child of an entity reference is  *)
(* the entity's declaration, and below that there may be references again, *)
(* so that the walks are modelled call by call of the recursive functions. *)
(***************************************************************************)
EXTENDS Integers, Sequences, FiniteSets

CONSTANTS
  Doc, Dtd, Root,  \* the xmlDoc, its internal subset and its root element when it is parsed
  Others,          \* the other addresses of nodes
  Namespace,       \* an xmlNs, which XPath finds like a node
  MaxHits,         \* bound: the size of a node set that XPath finds
  Uses,            \* what else there is, of the next two
  NULL

\* The document has an external subset, whose declarations are no children of the xmlDoc, as
\* those of the predefined entities are not.
OutsideDeclaration == "a declaration outside the internal subset"
\* The caller's XPath expression selects the document.
RootExpression == "the expression /"

Nodes == {Doc, Dtd, Root} \cup Others

ASSUME GraphAssumption ==
  /\ Dtd # Doc /\ Root \notin {Doc, Dtd} /\ Others \cap {Doc, Dtd, Root} = {}
  /\ Namespace \notin Nodes /\ NULL \notin Nodes \cup {Namespace}
  /\ MaxHits \in Nat
  /\ Uses \subseteq {OutsideDeclaration, RootExpression}

VARIABLES
  kind,     \* xmlNode::type, or "free" when no node is at the address
  parent,   \* the node whose list of children or, for an attribute, properties has the node
  refers,   \* the declaration that the children pointer of an entity reference points to
  private,  \* the nodes whose _private is not null
  object,   \* the type of node for which the wrapper of a node was made; NULL: no such object
  found,    \* node_map in process_xinclude(): the type with which a wrapper has been found
  call,     \* the call in progress
  target,   \* the node that it is about
  stack,    \* the active calls of the recursive function, each with its node
  xpath,    \* in the XPath methods: what is allocated, the result, and its nodes to be returned
  returned, \* the nodes whose wrappers the last call, if of an XPath method, has returned
  before    \* history: the types of nodes and the wrappers when the call in progress began

graph   == <<kind, parent, refers>>
objects == <<private, object>>
vars == <<graph, objects, found, call, target, stack, xpath, returned, before>>

\* "element" stands for all that may be freed and included, "start" for XIncludeStart.
Kinds == {"document", "dtd", "element", "start", "attribute", "entity_decl", "entity_ref", "free"}

ASSUME NullAssumption == NULL \notin Kinds

Allocated == {n \in Nodes : kind[n] # "free"}
Wrapped   == {n \in Nodes : object[n] # NULL} \ {Doc}
NoCall    == [kind |-> [n \in Nodes |-> "free"], wrapped |-> {}]
NoResult  == [held |-> {}, type |-> "none", nodes |-> {}]

\* n and the nodes that libxml2 frees with it: the least set that has n and the children of
\* its members.
Closed(S)  == \A m \in Nodes : parent[m] \in S => m \in S
Subtree(n) == {m \in Nodes : \A S \in SUBSET Nodes : n \in S /\ Closed(S) => m \in S}

\* A document as a parser makes it, with nothing wrapped but itself.
Parsed ==
  /\ kind' = [n \in Nodes |-> CASE n = Doc -> "document" [] n = Dtd -> "dtd"
                                [] n = Root -> "element" [] OTHER -> "free"]
  /\ parent' = [n \in Nodes |-> IF n \in {Dtd, Root} THEN Doc ELSE NULL]
  /\ refers' = [n \in Nodes |-> NULL]
  /\ private' = {Doc}
  /\ object' = [n \in Nodes |-> IF n = Doc THEN "document" ELSE NULL]

Idle == call = "none" /\ kind[Doc] # "free"

Init ==
  /\ kind = [n \in Nodes |-> "free"] /\ parent = [n \in Nodes |-> NULL]
  /\ refers = [n \in Nodes |-> NULL] /\ private = {} /\ object = [n \in Nodes |-> NULL]
  /\ found = [n \in Nodes |-> NULL] /\ call = "none" /\ target = NULL /\ stack = <<>>
  /\ xpath = NoResult /\ returned = {}
  /\ before = NoCall

NewDocument ==
  /\ call = "none" /\ kind[Doc] = "free"
  /\ Parsed
  /\ UNCHANGED <<found, call, target, stack, xpath, returned, before>>

-----------------------------------------------------------------------------
(* Nodes and wrappers come.                                                *)

\* Node::create_wrapper() for the nodes of S.
CreateWrappers(S, kinds) ==
  /\ private' = private \cup S
  /\ object' = [n \in Nodes |-> IF n \in S \ private THEN kinds[n] ELSE object[n]]

\* _convert_node() for a node that a sibling, a parent or a reference leads to.
GetNode(n) ==
  /\ Idle /\ n \in Allocated \ {Doc}
  /\ CreateWrappers({n}, kind) /\ returned' = {}
  /\ UNCHANGED <<graph, found, call, target, stack, xpath, before>>

\* libxml2 makes a node of type k below p.
NewNode(n, k, p, d) ==
  /\ kind[n] = "free"
  /\ kind' = [kind EXCEPT ![n] = k]
  /\ parent' = [parent EXCEPT ![n] = p]
  /\ refers' = [refers EXCEPT ![n] = d]
  /\ UNCHANGED <<found, call, target, stack, xpath, before>>

\* Document::set_entity_declaration(), and the DTD that a parser has read; no wrapper is made.
SetEntityDeclaration ==
  /\ Idle
  /\ \E n \in Others, p \in {Dtd} \cup (IF OutsideDeclaration \in Uses THEN {NULL} ELSE {}) :
       NewNode(n, "entity_decl", p, NULL)
  /\ returned' = {}
  /\ UNCHANGED objects

Declarations == {d \in Nodes : kind[d] = "entity_decl"}

\* External: libxml2 parses the replacement text of an entity when the entity is first used, and
\* a reference in it becomes a node below the declaration.
ParseReplacementText ==
  /\ Idle
  /\ \E d \in Declarations, n \in Others, to \in Declarations :
       (\A m \in Nodes : parent[m] # d) /\ NewNode(n, "entity_ref", d, to)
  /\ returned' = {}
  /\ UNCHANGED objects

\* Element::add_child_entity_reference(): to a declared entity, to no entity, to a character.
AddChildEntityReference ==
  /\ Idle
  /\ \E p \in private, n \in Others, to \in Declarations \cup {NULL} :
       /\ kind[p] = "element" /\ NewNode(n, "entity_ref", p, to)
       /\ CreateWrappers({n}, kind') /\ returned' = {}

AddChild ==
  /\ Idle
  /\ \E p \in private, n \in Others, k \in {"element", "attribute"} :
       /\ kind[p] = "element" /\ NewNode(n, k, p, NULL)
       /\ CreateWrappers({n}, kind') /\ returned' = {}

-----------------------------------------------------------------------------
(* The recursion.  A frame is a call of the function for a node: the       *)
(* children that its first loop has yet to visit, then the node itself,    *)
(* then the attributes that its second loop has yet to visit.              *)

\* Mutant of ChildrenOf: the children pointer of an entity reference is followed.
ChildrenOfAll(n) ==
  {m \in Allocated : parent[m] = n /\ kind[m] # "attribute"}
    \cup (IF kind[n] = "entity_ref" THEN {refers[n]} \ {NULL} ELSE {})

\* if (node->type != XML_ENTITY_REF_NODE) for (child = node->children; ...).
ChildrenOf(n) ==
  IF kind[n] = "entity_ref" THEN {}
  ELSE {m \in Allocated : parent[m] = n /\ kind[m] # "attribute"}

\* The node types for which the functions do not return before their second loop.
HasAttributes(n) == kind[n] \in {"element", "start", "entity_ref"}
AttributesOf(n)  == {m \in Nodes : parent[m] = n /\ kind[m] = "attribute"}

\* The caller's stack is finite: with more frames than nodes it has overflowed before long.
StackOverflow == Len(stack) > Cardinality(Nodes)

\* The nodes of a list come in one order, whichever it is.
First(S) == CHOOSE n \in S : TRUE

Frame(n) == [node |-> n, phase |-> "children", todo |-> ChildrenOf(n)]
top == stack[Len(stack)]
Below == SubSeq(stack, 1, Len(stack) - 1)

Walk(n) == stack' = <<Frame(n)>> /\ UNCHANGED xpath

Descend ==
  /\ stack # <<>> /\ top.todo # {}
  /\ IF StackOverflow THEN UNCHANGED stack
     ELSE LET n == First(top.todo) IN
          stack' = Append(Append(Below, [top EXCEPT !.todo = @ \ {n}]), Frame(n))
  /\ UNCHANGED <<graph, objects, found, call, target, xpath, returned, before>>

\* free_wrappers(): the Document is the one who makes the call.
DeleteWrapper(n) ==
  /\ IF n \in private /\ kind[n] # "document"
     THEN private' = private \ {n} /\ object' = [object EXCEPT ![n] = NULL]
     ELSE UNCHANGED objects
  /\ UNCHANGED found

\* find_wrappers().
FindWrapper(n) ==
  /\ found' = IF n \in private THEN [found EXCEPT ![n] = kind[n]] ELSE found
  /\ UNCHANGED objects

\* Mutant of RemoveFoundWrapper: the type is not compared.
RemoveAnyWrapper(n) ==
  /\ found' = IF n \in private THEN [found EXCEPT ![n] = NULL] ELSE found
  /\ UNCHANGED objects

\* remove_found_wrappers(): a node whose type has changed is left without the wrapper.
RemoveFoundWrapper(n) ==
  IF n \in private /\ found[n] # NULL
  THEN IF found[n] = kind[n]
       THEN found' = [found EXCEPT ![n] = NULL] /\ UNCHANGED objects
       ELSE private' = private \ {n} /\ UNCHANGED <<object, found>>
  ELSE UNCHANGED <<objects, found>>

\* The function's own node, between the two loops.
VisitNode ==
  /\ stack # <<>> /\ top.phase = "children" /\ top.todo = {}
  /\ CASE call = "find"  -> FindWrapper(top.node)
       [] call = "check" -> RemoveFoundWrapper(top.node)
       [] OTHER          -> DeleteWrapper(top.node)
  /\ stack' = IF HasAttributes(top.node) /\ AttributesOf(top.node) # {}
              THEN Append(Below, [top EXCEPT !.phase = "attributes", !.todo = AttributesOf(top.node)])
              ELSE Below
  /\ UNCHANGED <<graph, call, target, xpath, returned, before>>

ReturnFromNode ==
  /\ stack # <<>> /\ top.phase = "attributes" /\ top.todo = {}
  /\ stack' = Below
  /\ UNCHANGED <<graph, objects, found, call, target, xpath, returned, before>>

-----------------------------------------------------------------------------
(* The calls that walk.                                                    *)

Begin(name, n) ==
  /\ Idle
  /\ call' = name /\ target' = n
  /\ before' = [kind |-> kind, wrapped |-> Wrapped]
  /\ returned' = {}
  /\ UNCHANGED <<graph, objects, found>>

End == call' = "none" /\ target' = NULL /\ before' = NoCall

\* xmlFreeNode() and xmlFreeDoc(): what libxml2 frees takes its _private with it.
FreeNodes(S) ==
  /\ kind' = [n \in Nodes |-> IF n \in S THEN "free" ELSE kind[n]]
  /\ parent' = [n \in Nodes |-> IF n \in S THEN NULL ELSE parent[n]]
  /\ refers' = [n \in Nodes |-> IF n \in S THEN NULL ELSE refers[n]]
  /\ private' = private \ S

\* Node::remove_node().
RemoveNode(n) ==
  /\ n \in private /\ kind[n] \in {"element", "attribute", "entity_ref"}
  /\ Begin("remove", n) /\ Walk(n)

NodeRemoved ==
  /\ call = "remove" /\ stack = <<>>
  /\ \E gone \in {Subtree(target)} : FreeNodes(gone)
  /\ End
  /\ UNCHANGED <<object, found, stack, xpath, returned>>

\* Document::~Document().
Delete == Begin("delete", Doc) /\ Walk(Doc)

Deleted ==
  /\ call = "delete" /\ stack = <<>>
  /\ FreeNodes(Nodes)
  /\ object' = [object EXCEPT ![Doc] = NULL]
  /\ End
  /\ UNCHANGED <<found, stack, xpath, returned>>

\* Document::process_xinclude(): the first walk is over the root element.
ProcessXInclude ==
  \E r \in Nodes :
    /\ kind[r] = "element" /\ parent[r] = Doc
    /\ Begin("find", r) /\ Walk(r)

\* External: the element x becomes an XIncludeStart or goes, with all but its attributes in
\* either case, and an included element e may come (bound: one, and not where an element was);
\* or the inclusion fails and leaves everything as it was.
Include(x, stays, E) ==
  \E gone \in {Subtree(x) \ IF stays THEN {x} \cup AttributesOf(x) ELSE {}} :
  /\ \A e \in E : e \in Others /\ (kind[e] = "free" \/ (e \in gone /\ kind[e] # "element"))
  /\ kind' = [n \in Nodes |-> CASE n \in E -> "element"
                                [] n \in gone \ E -> "free"
                                [] n = x /\ stays -> "start"
                                [] OTHER -> kind[n]]
  /\ parent' = [n \in Nodes |-> CASE n \in E -> parent[x]
                                  [] n \in gone \ E -> NULL [] OTHER -> parent[n]]
  /\ refers' = [n \in Nodes |-> IF n \in gone THEN NULL ELSE refers[n]]
  /\ private' = private \ gone

\* The second walk, over the whole document, follows in the same step.
Included ==
  /\ call = "find" /\ stack = <<>>
  /\ \/ \E x \in Subtree(target), stays \in BOOLEAN, E \in {{}} \cup {{e} : e \in Others} :
          kind[x] = "element" /\ Include(x, stays, E)
     \/ UNCHANGED <<graph, private>>
  /\ call' = "check" /\ target' = Doc
  /\ UNCHANGED <<object, found, stack, xpath, returned, before>>

WalkDocument ==
  /\ call = "check" /\ target = Doc /\ stack = <<>>
  /\ Walk(Doc)
  /\ target' = NULL
  /\ UNCHANGED <<graph, objects, found, call, returned, before>>

\* Wrappers of nodes that have been deleted or have had their type changed.
DeleteRest ==
  /\ call = "check" /\ target = NULL /\ stack = <<>>
  /\ object' = [n \in Nodes |-> IF found[n] # NULL THEN NULL ELSE object[n]]
  /\ found' = [n \in Nodes |-> NULL]
  /\ End
  /\ UNCHANGED <<graph, private, stack, xpath, returned>>

-----------------------------------------------------------------------------
(* The XPath methods: find(), eval_xpath() and eval_to_boolean(), _number() *)
(* and _string().                                                          *)

Methods == {"find()", "eval_xpath()", "eval_to()"}

\* xmlXPathNewContext(); without one the method throws.
NewXPathContext(method) ==
  /\ private \ {Doc} # {} /\ Begin(method, NULL)
  /\ xpath' = [NoResult EXCEPT !.held = {"context"}]
  /\ UNCHANGED stack

Selectable ==
  {n \in Allocated : kind[n] \in {"element", "attribute"}} \cup {Namespace}
    \cup (IF RootExpression \in Uses THEN {Doc} ELSE {})

\* xmlXPathFreeObject(), and the method returns or throws.
FreeResult(nodes) ==
  /\ xpath' = NoResult /\ returned' = nodes
  /\ End
  /\ UNCHANGED <<graph, found, stack>>

\* xmlXPathEval() and xmlXPathFreeContext(); an invalid expression has no result.
Evaluate ==
  /\ call \in Methods /\ xpath.held = {"context"}
  /\ \/ FreeResult({})
     \/ /\ \E type \in {"nodeset", "value", "unsupported"}, S \in SUBSET Selectable :
             /\ S # {} => type = "nodeset" /\ Cardinality(S) <= MaxHits
             /\ xpath' = [held |-> {"object"}, type |-> type, nodes |-> S]
        /\ UNCHANGED <<graph, found, call, target, stack, returned, before>>
  /\ UNCHANGED objects

\* Mutant of ReturnNodes: a namespace is returned like a node.
ReturnNodesAndNamespaces ==
  /\ call \in {"find()", "eval_xpath()"} /\ xpath.type = "nodeset"
  /\ CreateWrappers(xpath.nodes \ {Namespace}, kind)
  /\ FreeResult(xpath.nodes)

\* find_common2().
ReturnNodes ==
  /\ call \in {"find()", "eval_xpath()"} /\ xpath.type = "nodeset"
  /\ CreateWrappers(xpath.nodes \ {Namespace}, kind)
  /\ FreeResult(xpath.nodes \ {Namespace})

\* find() throws; eval_xpath() returns a value, or throws if it is of an unsupported type.
ReturnNoNodes ==
  /\ call \in {"find()", "eval_xpath()"} /\ xpath.type \notin {"none", "nodeset"}
  /\ FreeResult({})
  /\ UNCHANGED objects

\* eval_to_boolean(), eval_to_number() and eval_to_string() convert what they get.
ReturnConverted ==
  /\ call = "eval_to()" /\ xpath.type # "none"
  /\ FreeResult({})
  /\ UNCHANGED objects

-----------------------------------------------------------------------------

\* What goes on in a call until it ends.
Continue ==
  \/ Descend \/ VisitNode \/ ReturnFromNode
  \/ NodeRemoved \/ Deleted \/ Included \/ WalkDocument \/ DeleteRest
  \/ Evaluate \/ ReturnNodes \/ ReturnNoNodes \/ ReturnConverted

Next ==
  \/ NewDocument \/ Delete \/ ProcessXInclude
  \/ \E n \in Nodes : GetNode(n) \/ RemoveNode(n)
  \/ SetEntityDeclaration \/ ParseReplacementText \/ AddChildEntityReference \/ AddChild
  \/ \E method \in Methods : NewXPathContext(method)
  \/ Continue

Spec == Init /\ [][Next]_vars /\ WF_vars(Continue)

-----------------------------------------------------------------------------
(* Properties.                                                             *)

GraphTypeOK ==
  /\ kind \in [Nodes -> Kinds] /\ parent \in [Nodes -> Nodes \cup {NULL}]
  /\ refers \in [Nodes -> Nodes \cup {NULL}]
  /\ private \subseteq Allocated /\ object \in [Nodes -> Kinds \cup {NULL}]
  /\ found \in [Nodes -> Kinds \cup {NULL}]
  /\ call \in {"none", "remove", "delete", "find", "check"} \cup Methods
  /\ target \in Nodes \cup {NULL} /\ returned \subseteq Nodes \cup {Namespace}
  /\ stack \in Seq([node : Nodes, phase : {"children", "attributes"}, todo : SUBSET Nodes])
  /\ xpath.held \subseteq {"context", "object"} /\ (call \notin Methods => xpath = NoResult)
  /\ call # "none" =>
       before.kind \in [Nodes -> Kinds] /\ before.wrapped \subseteq Nodes \ {Doc}

\* Between two calls _private leads from each node to a wrapper made for its present type, and
\* from no wrapper anywhere else: none is left when its node or the whole document is gone
\* (Node::free_wrappers(), Document::process_xinclude()).
Linked == private = {n \in Nodes : object[n] # NULL} /\ \A n \in private : object[n] = kind[n]
GraphLinked == call = "none" => Linked

\* The recursive functions are in no node twice, whatever cycle entities refer to each other in.
NoNodeTwice == \A i, j \in DOMAIN stack : stack[i].node = stack[j].node => i = j

GraphInv == GraphTypeOK /\ GraphLinked /\ NoNodeTwice

\* What find() and its siblings return is the wrapper of a node of the document, made for that
\* node's type, and nothing but the document is returned as something that is no Node.
ReturnedUsable ==
  call = "none" =>
    \A n \in returned : n \in private /\ object[n] = kind[n] /\ kind[n] # "document"

\* As the caller sees them from one call to the next, exactly those wrappers go whose nodes go or
\* are nodes of another type after the call, among them none of a declaration that a reference in
\* a freed subtree refers to (Node::remove_node(), process_xinclude(), Document::~Document()).
Removal == INSTANCE WrapperRemoval WITH
  kind    <- IF call = "none" THEN kind ELSE before.kind,
  wrapped <- IF call = "none" THEN Wrapped ELSE before.wrapped
ImplementsWrapperRemoval == Removal!Spec

\* Every call ends, whatever cycle entities refer to each other in.
CallsEnd == call # "none" ~> call = "none"

=============================================================================
