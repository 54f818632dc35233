------------------------------ MODULE Namespaces ------------------------------
(***************************************************************************)
(* Namespaces of elements and attributes: xmlpp::Element, AttributeNode    *)
(* and Node::set_namespace().  An xmlNs belongs to the element that        *)
(* declares it; nodes below point to it.  Methods are given a prefix and   *)
(* search the element and what is above it for the declaration.            *)
(* All attributes have one local name: only namespaces tell them apart.    *)
(***************************************************************************)
EXTENDS FiniteSets

CONSTANTS
  Nodes,     \* addresses of xmlNodes
  Prefixes,  \* prefixes that can be declared, the empty one aside
  Uris,      \* namespace URIs, the predefined one and the empty one aside
  Uses,      \* what else the caller does, of the next one
  NULL

\* The caller gives an attribute that exists another namespace.
AttributeNamespace == "AttributeNamespace"

Default == ""
Xml     == "xml"
Empty   == ""
XmlUri  == "http://www.w3.org/XML/1998/namespace"

ASSUME NamesAssumption ==
  /\ IsFiniteSet(Nodes)
  /\ NULL \notin Nodes /\ NULL \notin Uris \cup {Empty, XmlUri}
  /\ Default \notin Prefixes /\ Xml \notin Prefixes /\ Empty \notin Uris /\ XmlUri \notin Uris
ASSUME NamespaceUsesAssumption == Uses \subseteq {AttributeNamespace}

Declarable == Prefixes \cup {Default}
AnyPrefix  == Declarable \cup {Xml}
AnyUri     == Uris \cup {Empty, XmlUri}

\* An xmlNs is known by the element that declares it and its prefix; that of "xml" is the
\* document's.
XmlNs      == <<NULL, Xml>>
Pointers   == (Nodes \X Declarable) \cup {XmlNs, NULL}

ASSUME PointersAssumption == \A n \in Nodes \cup {NULL}, p \in AnyPrefix : <<n, p>> # NULL

VARIABLES
  tree,   \* kind: xmlNode::type or "free", above: the elements that contain a node,
          \* nsDef: the URIs an element declares, ns: xmlNode::ns
  threw   \* the last call threw an exception

vars == <<tree, threw>>

Kinds == {"element", "attribute"}
Tree  == [kind : [Nodes -> Kinds \cup {"free"}], above : [Nodes -> SUBSET Nodes],
          nsDef : [Nodes -> [Declarable -> AnyUri \cup {NULL}]], ns : [Nodes -> Pointers]]
NoDeclaration == [p \in Declarable |-> NULL]
EmptyTree == [kind |-> [n \in Nodes |-> "free"], above |-> [n \in Nodes |-> {}],
              nsDef |-> [n \in Nodes |-> NoDeclaration], ns |-> [n \in Nodes |-> NULL]]

Allocated(t)     == {n \in Nodes : t.kind[n] # "free"}
Elements(t)      == {n \in Nodes : t.kind[n] = "element"}
Attributes(t)    == {n \in Nodes : t.kind[n] = "attribute"}
AttributesOf(t, e) == {a \in Attributes(t) : t.above[a] = t.above[e] \cup {e}}
Subtree(t, n)    == {n} \cup {m \in Nodes : n \in t.above[m]}

\* get_namespace_prefix2() and get_namespace_uri2(); no value is "".
Href(t, ns)      == IF ns = XmlNs THEN XmlUri ELSE t.nsDef[ns[1]][ns[2]]
PrefixOf(t, n)   == IF t.ns[n] = NULL THEN Default ELSE t.ns[n][2]
UriOf(t, n)      == IF t.ns[n] = NULL THEN Empty ELSE Href(t, t.ns[n])

-----------------------------------------------------------------------------
(* libxml2's part.                                                         *)

\* xmlSearchNs() looks at what an element declares and then, except for the element it
\* starts at, at the namespace that the element itself is in.  Empty URIs count for nothing.
Declares(t, m, p)    == t.nsDef[m][p] \notin {NULL, Empty}
IsIn(t, n, m, p)     == m # n /\ t.ns[m] # NULL /\ t.ns[m][2] = p /\ UriOf(t, m) # Empty
Scope(t, n)          == Elements(t) \cap ({n} \cup t.above[n])
Innermost(t, S)      == CHOOSE m \in S : \A k \in S \ {m} : k \in t.above[m]
SearchNs(t, n, p) ==
  LET found == {m \in Scope(t, n) : p \in Declarable /\ (Declares(t, m, p) \/ IsIn(t, n, m, p))}
      m == Innermost(t, found) IN
  IF p = Xml THEN XmlNs
  ELSE IF found = {} THEN NULL
  ELSE IF Declares(t, m, p) THEN <<m, p>> ELSE t.ns[m]

\* xmlNewNs() fails if the element declares the prefix already, or if that is "xml".
CanDeclare(t, n, p)   == p # Xml /\ t.nsDef[n][p] = NULL
NewNs(t, n, uri, p)   == [t EXCEPT !.nsDef[n][p] = uri]
SetNs(t, n, ns)       == [t EXCEPT !.ns[n] = ns]

\* A node n below e, or at the top.
AddNode(t, n, kind, e) ==
  [t EXCEPT !.kind[n] = kind, !.above[n] = IF e = NULL THEN {} ELSE t.above[e] \cup {e}]

FreeNodes(t, S) ==
  [kind  |-> [n \in Nodes |-> IF n \in S THEN "free" ELSE t.kind[n]],
   above |-> [n \in Nodes |-> IF n \in S THEN {} ELSE t.above[n]],
   nsDef |-> [n \in Nodes |-> IF n \in S THEN NoDeclaration ELSE t.nsDef[n]],
   ns    |-> [n \in Nodes |-> IF n \in S THEN NULL ELSE t.ns[n]]]

\* xmlHasNsProp(): the attributes of e whose namespace has this URI, none if it is empty.
HasNsProp(t, e, uri) == {a \in AttributesOf(t, e) : UriOf(t, a) = uri}

-----------------------------------------------------------------------------
Init ==
  /\ \E r \in Nodes : tree = AddNode(EmptyTree, r, "element", NULL)
  /\ threw = FALSE

Ends(t)   == tree' = t /\ threw' = FALSE
Throws(t) == tree' = t /\ threw' = TRUE

(* Node::set_namespace().                                                  *)

\* Mutant of SetNamespace: the namespace need not be declared.
SetNamespaceUnchecked(n, p) ==
  /\ n \in Elements(tree) \/ (AttributeNamespace \in Uses /\ n \in Attributes(tree))
  /\ \/ Ends(SetNs(tree, n, SearchNs(tree, n, p)))
     \/ p # Xml /\ Ends(SetNs(tree, n, <<n, p>>))

SetNamespace(n, p) ==
  /\ n \in Elements(tree) \/ (AttributeNamespace \in Uses /\ n \in Attributes(tree))
  /\ LET ns == SearchNs(tree, n, p) IN
     IF ns = NULL THEN Throws(tree)
     ELSE Ends(SetNs(tree, n, ns))

(* Element::set_namespace_declaration().                                   *)

\* The tree and, with the same URI as before, no exception if the prefix is declared already.
Declared(t, n, uri, p) ==
  LET old == SearchNs(t, n, p) IN
  IF CanDeclare(t, n, p) THEN [tree |-> NewNs(t, n, uri, p), ok |-> TRUE]
  ELSE [tree |-> t, ok |-> old # NULL /\ Href(t, old) = uri]

\* The element's own namespace is changed if it has the prefix.
Redirected(t, n, p) ==
  LET ns == SearchNs(t, n, p) IN
  IF p # PrefixOf(t, n) THEN [tree |-> t, ok |-> TRUE]
  ELSE IF ns = NULL THEN [tree |-> t, ok |-> FALSE]
  ELSE [tree |-> SetNs(t, n, ns), ok |-> TRUE]

Declaration(t, n, uri, p) ==
  LET d == Declared(t, n, uri, p) IN IF d.ok THEN Redirected(d.tree, n, p) ELSE d

SetNamespaceDeclaration(n, uri, p) ==
  /\ n \in Elements(tree)
  /\ LET d == Declaration(tree, n, uri, p) IN
     IF d.ok THEN Ends(d.tree)
     ELSE Throws(d.tree)

(* Elements.                                                               *)

\* Mutant of AddChildElement: an empty prefix means no namespace, as for attributes.
AddUnqualifiedChild(e, p) ==
  /\ e \in Elements(tree)
  /\ LET ns == IF p = Default THEN NULL ELSE SearchNs(tree, e, p) IN
     IF ns = NULL /\ p # Default THEN Throws(tree)
     ELSE \E n \in Nodes \ Allocated(tree) :
            Ends(SetNs(AddNode(tree, n, "element", e), n, ns))

\* Mutant of AddChildElement: the namespace is looked for when the child is there.
AddChildFirst(e, p) ==
  /\ e \in Elements(tree)
  /\ \E n \in Nodes \ Allocated(tree) :
       LET t == AddNode(tree, n, "element", e)
           ns == SearchNs(t, n, p) IN
       IF ns = NULL /\ p # Default THEN Throws(t)
       ELSE Ends(SetNs(t, n, ns))

\* add_child_element() and its variants: the namespace is searched for from the parent.
AddChildElement(e, p) ==
  /\ e \in Elements(tree)
  /\ LET ns == SearchNs(tree, e, p) IN
     IF ns = NULL /\ p # Default THEN Throws(tree)
     ELSE \E n \in Nodes \ Allocated(tree) :
            Ends(SetNs(AddNode(tree, n, "element", e), n, ns))

\* add_child_element_with_new_ns() and its variants.
AddChildElementWithNewNs(e, uri, p) ==
  /\ e \in Elements(tree)
  /\ IF p = Xml /\ uri # XmlUri THEN Throws(tree)
     ELSE \E n \in Nodes \ Allocated(tree) :
            LET t == AddNode(tree, n, "element", e) IN
            Ends(
                 IF p = Xml THEN SetNs(t, n, XmlNs) ELSE SetNs(NewNs(t, n, uri, p), n, <<n, p>>))

\* Document::create_root_node(): the old root is gone when the namespace is looked at.
CreateRootNode(uri, p) ==
  \E n \in Nodes \ Allocated(tree) :
    LET t == FreeNodes(AddNode(tree, n, "element", NULL), Allocated(tree))
        d == Declaration(t, n, uri, p) IN
    IF uri = Empty THEN Ends(t)
    ELSE IF d.ok THEN Ends(SetNs(d.tree, n, SearchNs(d.tree, n, p)))
    ELSE Throws(d.tree)

\* Node::remove_node(), of an element or an attribute.
RemoveNode(n) ==
  /\ n \in Allocated(tree)
  /\ Ends(FreeNodes(tree, Subtree(tree, n)))

(* Attributes.                                                             *)

\* get_namespace_uri_for_prefix().
UriForPrefix(t, e, p) ==
  LET ns == SearchNs(t, e, p) IN IF ns = NULL THEN Empty ELSE Href(t, ns)

\* What get_attribute() finds; an empty prefix means no namespace.
Gets(t, e, p) ==
  IF p = Default THEN HasNsProp(t, e, Empty)
  ELSE IF UriForPrefix(t, e, p) = Empty THEN {} ELSE HasNsProp(t, e, UriForPrefix(t, e, p))

\* What set_attribute() finds: xmlSetProp() and xmlSetNsProp().
Sets(t, e, p) ==
  IF p = Default THEN HasNsProp(t, e, Empty)
  ELSE IF SearchNs(t, e, p) = NULL THEN {} ELSE HasNsProp(t, e, Href(t, SearchNs(t, e, p)))

\* Mutant of Removes: the second test of the namespace is missing.
RemovesFound(t, e, p) ==
  LET ns == IF p = Default THEN NULL ELSE SearchNs(t, e, p) IN
  HasNsProp(t, e, IF ns = NULL THEN Empty ELSE Href(t, ns))

\* What remove_attribute() removes.
Removes(t, e, p) ==
  LET ns == IF p = Default THEN NULL ELSE SearchNs(t, e, p) IN
  IF p # Default /\ ns = NULL THEN {}
  ELSE HasNsProp(t, e, IF ns = NULL THEN Empty ELSE Href(t, ns))

\* Mutant of SetAttribute: an attribute that exists is not looked for.
SetAttributeAnew(e, p) ==
  /\ e \in Elements(tree)
  /\ LET ns == IF p = Default THEN NULL ELSE SearchNs(tree, e, p) IN
     IF p # Default /\ ns = NULL THEN Throws(tree)
     ELSE \E a \in Nodes \ Allocated(tree) :
            Ends(SetNs(AddNode(tree, a, "attribute", e), a, ns))

\* An attribute that exists is given the xmlNs found, which has the same URI.
SetAttribute(e, p) ==
  /\ e \in Elements(tree)
  /\ LET ns == IF p = Default THEN NULL ELSE SearchNs(tree, e, p)
         old == Sets(tree, e, p) IN
     IF p # Default /\ ns = NULL THEN Throws(tree)
     ELSE \/ \E a \in old : Ends(SetNs(tree, a, ns))
          \/ old = {} /\ \E a \in Nodes \ Allocated(tree) :
               Ends(SetNs(AddNode(tree, a, "attribute", e), a, ns))

RemoveAttribute(e, p) ==
  /\ e \in Elements(tree)
  /\ \/ \E a \in Removes(tree, e, p) : Ends(FreeNodes(tree, {a}))
     \/ Removes(tree, e, p) = {} /\ Ends(tree)

\* The attributes that AttributeNode::get_value() and set_value() may find for a: they ask
\* its parent for one with its name and namespace.
FoundAs(t, a) ==
  {b \in Attributes(t) : t.above[b] = t.above[a] /\ UriOf(t, b) = UriOf(t, a)}

-----------------------------------------------------------------------------
Next ==
  \/ \E n \in Nodes, p \in AnyPrefix : SetNamespace(n, p) \/ AddChildElement(n, p)
  \/ \E n \in Nodes, uri \in AnyUri, p \in AnyPrefix :
       SetNamespaceDeclaration(n, uri, p) \/ AddChildElementWithNewNs(n, uri, p)
  \/ \E uri \in AnyUri, p \in AnyPrefix : CreateRootNode(uri, p)
  \/ \E n \in Nodes : RemoveNode(n)
  \/ \E n \in Nodes, p \in AnyPrefix : SetAttribute(n, p) \/ RemoveAttribute(n, p)

Spec == Init /\ [][Next]_vars

-----------------------------------------------------------------------------
(* Properties.                                                             *)

NsTypeOK == tree \in Tree /\ threw \in BOOLEAN

\* The nodes form a tree of elements, with attributes as leaves.
Nested(t) ==
  \A n \in Nodes :
    /\ n \notin t.above[n] /\ t.above[n] \subseteq Elements(t)
    /\ \A m \in t.above[n] : t.above[m] \subseteq t.above[n]
    /\ \A m, k \in t.above[n] : m = k \/ m \in t.above[k] \/ k \in t.above[m]
    /\ n \notin Elements(t) => t.nsDef[n] = NoDeclaration
    /\ n \notin Allocated(t) => t.above[n] = {} /\ t.ns[n] = NULL

\* The xmlNs that a node points to is declared by the node itself or by an element it is in, so
\* that no call frees it before the node (create_new_child_element_node, set_attribute).
InScope ==
  \A n \in Allocated(tree) : tree.ns[n] \notin {NULL, XmlNs} =>
    tree.ns[n][1] \in Scope(tree, n) /\ Href(tree, tree.ns[n]) # NULL

NsInv == NsTypeOK /\ Nested(tree) /\ InScope

\* The three methods that are given the name and prefix of an attribute search in three ways,
\* and yet all find the same one.
SameAttribute ==
  \A e \in Elements(tree), p \in AnyPrefix :
    Gets(tree, e, p) = Removes(tree, e, p) /\ Gets(tree, e, p) = Sets(tree, e, p)

\* An attribute's value is its own: what get_value() and set_value() find by its name is the
\* attribute itself.
OwnValue == \A a \in Attributes(tree) : FoundAs(tree, a) = {a}

\* Every way to ask for an attribute comes to the same one, although each searches for it by
\* name and namespace again (Element::get_attribute, set_attribute, remove_attribute,
\* AttributeNode::get_value2, set_value).
AttributesAgree == SameAttribute /\ OwnValue

\* What a parser will make of the prefix where it is written: the innermost declaration counts,
\* also one that takes a namespace away.
ReadBack(t, n, p) ==
  LET declaring == {m \in Scope(t, n) : t.nsDef[m][p] # NULL} IN
  IF p = Xml THEN XmlUri
  ELSE IF declaring = {} THEN Empty ELSE t.nsDef[Innermost(t, declaring)][p]
Faithful(t, n) ==
  UriOf(t, n) = IF n \in Attributes(t) /\ PrefixOf(t, n) = Default THEN Empty
                ELSE ReadBack(t, n, PrefixOf(t, n))

\* No namespace is taken away by a declaration without URI, which xmlSearchNs() does not see.
Plain(t, m) == \A p \in Declarable : t.nsDef[m][p] # Empty

\* A document that is written and parsed again has the namespaces it had, as long as no
\* declaration is added where it may be in use, or takes a namespace away: no call makes a name
\* that would be read back right into one that would not, or adds a wrong one below names that are
\* right (Node::set_namespace, create_new_child_element_node, set_attribute).
NamesStayFaithful ==
  [][\A n \in Allocated(tree') : ~Faithful(tree', n) =>
       \E m \in ({n} \cup tree'.above[n]) \cap Allocated(tree) :
         ~Faithful(tree, m) \/ ~Plain(tree, m) \/ tree'.nsDef[m] # tree.nsDef[m]]_vars

\* A call that throws leaves the tree as it was, but for two: a root that could not be put into
\* its namespace has replaced the old one, and a declaration that was to take a namespace away
\* is there (create_root_node, set_namespace_declaration).
FailureLeavesNoTrace ==
  [][threw' =>
       \/ tree' = tree
       \/ \E n \in Nodes : Allocated(tree') = {n} /\ n \notin Allocated(tree)
       \/ \E n \in Elements(tree), p \in Declarable : tree' = NewNs(tree, n, Empty, p)]_vars

=============================================================================
