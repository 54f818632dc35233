--------------------------- MODULE NamespacesProofs ---------------------------
(* Proofs about Namespaces, for every finite set of nodes, any prefixes    *)
(* and any URIs.                                                           *)
EXTENDS Namespaces, Integers, FiniteSetTheorems, WellFoundedInduction, TLAPS

USE NamesAssumption, PointersAssumption

-----------------------------------------------------------------------------
(* Trees in order.                                                         *)

\* The pointer ns, of n, is to a declaration that is there and in scope.
Points(t, n, ns) ==
  ns \notin {NULL, XmlNs} => ns[1] \in Scope(t, n) /\ Href(t, ns) # NULL

\* What NsInv says of a tree.
InOrder(t) == t \in Tree /\ Nested(t) /\ \A n \in Allocated(t) : Points(t, n, t.ns[n])

\* What OwnValue says of a tree.
Distinct(t) ==
  \A a, b \in Attributes(t) : t.above[a] = t.above[b] /\ UriOf(t, a) = UriOf(t, b) => a = b

LEMMA TreeTypes ==
  ASSUME NEW t \in Tree
  PROVE  /\ \A n \in Nodes : t.kind[n] \in Kinds \cup {"free"}
         /\ \A n \in Nodes : t.above[n] \subseteq Nodes
         /\ \A n \in Nodes, p \in Declarable : t.nsDef[n][p] \in AnyUri \cup {NULL}
         /\ \A n \in Nodes : t.ns[n] \in Pointers
  BY DEF Tree

LEMMA ScopeOfAbove ==
  ASSUME NEW t, Nested(t), NEW n \in Nodes, NEW m \in Scope(t, n)
  PROVE  Scope(t, m) \subseteq Scope(t, n)
  BY DEF Scope, Nested

\* A set of elements one in another has an innermost one.
LEMMA InnermostExists ==
  ASSUME NEW t, t \in Tree, Nested(t), NEW n \in Nodes, NEW S, S \subseteq Scope(t, n), S # {}
  PROVE  /\ Innermost(t, S) \in S
         /\ \A k \in S \ {Innermost(t, S)} : k \in t.above[Innermost(t, S)]
<1> DEFINE size(m) == Cardinality(t.above[m])
           outside(m) == Cardinality(Nodes) - size(m)
           T == {outside(m) : m \in S}
<1>1. S \subseteq Nodes /\ \A m \in S : t.above[m] \subseteq Nodes
  BY TreeTypes DEF Scope, Elements
<1>2. Cardinality(Nodes) \in Nat
  BY FS_CardinalityType
<1>3. \A m \in S : /\ IsFiniteSet(t.above[m])
                   /\ size(m) \in Nat /\ size(m) <= Cardinality(Nodes)
  <2> SUFFICES ASSUME NEW m \in S
               PROVE  /\ IsFiniteSet(t.above[m])
                      /\ size(m) \in Nat /\ size(m) <= Cardinality(Nodes)
    OBVIOUS
  <2>1. t.above[m] \in SUBSET Nodes
    BY <1>1
  <2>2. IsFiniteSet(t.above[m]) /\ size(m) <= Cardinality(Nodes)
    BY <2>1, FS_Subset
  <2> QED BY <2>2, FS_CardinalityType
<1>4. \A m \in S : outside(m) \in Nat
  BY <1>2, <1>3
<1>5. T \subseteq Nat /\ T # {}
  BY <1>4
<1>6. PICK x \in T : \A y \in T : ~(<<y, x>> \in OpToRel(<, Nat))
  BY <1>5, NatLessThanWellFounded, WFMin
<1>7. PICK m \in S : x = outside(m)
  OBVIOUS
<1>8. \A k \in S : ~(outside(k) < outside(m))
  BY <1>4, <1>6, <1>7 DEF OpToRel
<1>9. \A k \in S \ {m} : k \in t.above[m]
  <2> SUFFICES ASSUME NEW k \in S \ {m}, k \notin t.above[m]
               PROVE  FALSE
    OBVIOUS
  <2>1. m \in t.above[k]
    BY <1>1 DEF Scope, Nested
  <2>2. t.above[m] \subseteq t.above[k] /\ m \notin t.above[m]
    BY <1>1, <2>1 DEF Nested
  <2>3. size(m) <= size(k) /\ size(k) # size(m)
    BY <1>3, <2>1, <2>2, FS_Subset
  <2>4. outside(k) < outside(m)
    BY <1>2, <1>3, <2>3
  <2> QED BY <1>8, <2>4
<1> QED BY <1>9 DEF Innermost

\* What a search finds can be pointed to, and stands for a URI.
LEMMA SearchFinds ==
  ASSUME NEW t, InOrder(t), NEW n \in Allocated(t), NEW p \in AnyPrefix
  PROVE  LET ns == SearchNs(t, n, p) IN
         /\ ns \in Pointers /\ Points(t, n, ns)
         /\ ns # NULL => Href(t, ns) \notin {NULL, Empty}
         /\ \A m \in Scope(t, n) : p \in Declarable /\ Declares(t, m, p) => ns # NULL
<1> DEFINE found == {m \in Scope(t, n) : p \in Declarable /\ (Declares(t, m, p) \/ IsIn(t, n, m, p))}
           m == Innermost(t, found)
           ns == SearchNs(t, n, p)
<1>0. n \in Nodes /\ t \in Tree /\ Nested(t)
  BY DEF Allocated, InOrder
<1>1. CASE p = Xml
  BY <1>1 DEF SearchNs, Points, XmlNs, Href, Pointers, Declarable, AnyPrefix, Default, Xml, XmlUri, Empty
<1>2. CASE p # Xml /\ found = {}
  BY <1>2 DEF SearchNs, Points, Pointers
<1>3. CASE p # Xml /\ found # {}
  <2>1. m \in found
    BY <1>0, <1>3, InnermostExists
  <2>2. m \in Scope(t, n) /\ p \in Declarable /\ m \in Nodes /\ m \in Allocated(t)
    BY <2>1 DEF Scope, Elements, Allocated
  <2>3. CASE Declares(t, m, p)
    <3>1. ns = <<m, p>>
      BY <1>3, <2>3 DEF SearchNs
    <3>2. <<m, p>> # XmlNs /\ <<m, p>> # NULL /\ <<m, p>> \in Pointers
      BY <2>2 DEF XmlNs, Pointers, AnyPrefix
    <3>3. Href(t, <<m, p>>) = t.nsDef[m][p]
      BY <3>2 DEF Href
    <3>4. <<m, p>>[1] = m
      OBVIOUS
    <3>5. Href(t, ns) \notin {NULL, Empty}
      BY <2>3, <3>1, <3>3 DEF Declares
    <3>6. Points(t, n, ns)
      BY <2>2, <3>1, <3>4, <3>5 DEF Points
    <3> QED BY <3>1, <3>2, <3>5, <3>6
  <2>4. CASE ~Declares(t, m, p)
    <3>1. ns = t.ns[m] /\ IsIn(t, n, m, p)
      BY <1>3, <2>1, <2>4 DEF SearchNs
    <3>2. ns # NULL /\ Href(t, ns) # Empty /\ Points(t, m, ns)
      BY <2>2, <3>1 DEF IsIn, UriOf, InOrder
    <3>3. Scope(t, m) \subseteq Scope(t, n)
      BY <1>0, <2>2, ScopeOfAbove
    <3>4. ns \in Pointers
      BY <1>0, <2>2, <3>1, TreeTypes
    <3>5. Href(t, ns) # NULL
      BY <3>2 DEF Points, Href
    <3> QED BY <3>2, <3>3, <3>4, <3>5 DEF Points
  <2> QED BY <2>3, <2>4
<1> QED BY <1>1, <1>2, <1>3

-----------------------------------------------------------------------------
(* What libxml2 does to a tree keeps it in order.                          *)

LEMMA SetNsInOrder ==
  ASSUME NEW t, InOrder(t), NEW n \in Allocated(t), NEW ns \in Pointers, Points(t, n, ns)
  PROVE  LET g == SetNs(t, n, ns) IN
         /\ InOrder(g) /\ g.kind = t.kind /\ g.above = t.above /\ g.nsDef = t.nsDef
         /\ g.ns[n] = ns /\ \A m \in Nodes \ {n} : UriOf(g, m) = UriOf(t, m)
<1> DEFINE g == SetNs(t, n, ns)
<1>1. n \in Nodes /\ t \in Tree /\ Nested(t) /\ \A m \in Allocated(t) : Points(t, m, t.ns[m])
  BY DEF Allocated, InOrder
<1>2. /\ g.kind = t.kind /\ g.above = t.above /\ g.nsDef = t.nsDef /\ g \in Tree
      /\ \A m \in Nodes : g.ns[m] = IF m = n THEN ns ELSE t.ns[m]
  BY <1>1 DEF SetNs, Tree
<1> HIDE DEF g
<1>3. Nested(g)
  BY <1>1, <1>2 DEF Nested, Allocated, Elements
<1>4. \A m \in Allocated(g) : Points(g, m, g.ns[m])
  BY <1>1, <1>2 DEF Points, Scope, Elements, Allocated, Href
<1>5. InOrder(g)
  BY <1>2, <1>3, <1>4 DEF InOrder
<1>6. \A m \in Nodes \ {n} : UriOf(g, m) = UriOf(t, m)
  BY <1>1, <1>2 DEF UriOf, Href
<1> QED BY <1>1, <1>2, <1>5, <1>6 DEF g

LEMMA NewNsInOrder ==
  ASSUME NEW t, InOrder(t), NEW n \in Elements(t), NEW p \in AnyPrefix, NEW uri \in AnyUri,
         CanDeclare(t, n, p)
  PROVE  LET g == NewNs(t, n, uri, p) IN
         /\ InOrder(g) /\ g.kind = t.kind /\ g.above = t.above /\ g.ns = t.ns
         /\ g.nsDef[n][p] = uri
         /\ \A m \in Allocated(t) : UriOf(g, m) = UriOf(t, m)
<1> DEFINE g == NewNs(t, n, uri, p)
<1>1. /\ n \in Nodes /\ p \in Declarable /\ t.nsDef[n][p] = NULL
      /\ t \in Tree /\ Nested(t) /\ \A m \in Allocated(t) : Points(t, m, t.ns[m])
  BY DEF Elements, InOrder, CanDeclare, AnyPrefix
<1>2. /\ g.kind = t.kind /\ g.above = t.above /\ g.ns = t.ns
      /\ g.nsDef[n][p] = uri
  BY <1>1 DEF NewNs, Tree
<1>3. g \in Tree
  BY <1>1 DEF NewNs, Tree
<1>4. \A m \in Nodes, q \in Declarable :
        g.nsDef[m][q] = IF m = n /\ q = p THEN uri ELSE t.nsDef[m][q]
  BY <1>1 DEF NewNs, Tree
<1>5. \A m \in Nodes : m # n => g.nsDef[m] = t.nsDef[m]
  BY <1>1 DEF NewNs, Tree
<1> HIDE DEF g
<1>6. Nested(g)
  BY <1>1, <1>2, <1>5 DEF Nested, Allocated, Elements
<1>7. \A m \in Allocated(t) : t.ns[m] # NULL => Href(g, t.ns[m]) = Href(t, t.ns[m])
  <2> SUFFICES ASSUME NEW m \in Allocated(t), t.ns[m] # NULL, t.ns[m] # XmlNs
               PROVE  Href(g, t.ns[m]) = Href(t, t.ns[m])
    BY DEF Href
  <2>1. t.ns[m] \in Nodes \X Declarable
    BY <1>1, TreeTypes DEF Pointers, Allocated
  <2>2. Href(t, t.ns[m]) # NULL
    BY <1>1 DEF Points
  <2>3. t.ns[m][1] # n \/ t.ns[m][2] # p
    BY <1>1, <2>2 DEF Href
  <2>4. t.ns[m][1] \in Nodes /\ t.ns[m][2] \in Declarable
    BY <2>1
  <2> QED BY <1>4, <2>3, <2>4 DEF Href
<1>8. \A m \in Allocated(g) : Points(g, m, g.ns[m])
  BY <1>1, <1>2, <1>7 DEF Points, Scope, Elements, Allocated
<1>9. \A m \in Allocated(t) : UriOf(g, m) = UriOf(t, m)
  BY <1>2, <1>7 DEF UriOf
<1>10. InOrder(g)
  BY <1>3, <1>6, <1>8 DEF InOrder
<1> QED BY <1>2, <1>9, <1>10 DEF g

LEMMA AddNodeInOrder ==
  ASSUME NEW t, InOrder(t), NEW n \in Nodes \ Allocated(t), NEW kind \in Kinds,
         NEW e \in Elements(t) \cup {NULL}
  PROVE  LET g == AddNode(t, n, kind, e) IN
         /\ InOrder(g) /\ Allocated(g) = Allocated(t) \cup {n}
         /\ g.nsDef = t.nsDef /\ g.ns = t.ns
         /\ t.ns[n] = NULL /\ t.nsDef[n] = NoDeclaration
         /\ g.kind[n] = kind
         /\ e = NULL => g.above[n] = {}
         /\ e # NULL => g.above[n] = t.above[e] \cup {e} /\ Scope(t, e) \subseteq Scope(g, n)
         /\ \A m \in Nodes \ {n} : g.kind[m] = t.kind[m] /\ g.above[m] = t.above[m]
<1> DEFINE g == AddNode(t, n, kind, e)
<1>1. t \in Tree /\ Nested(t) /\ \A m \in Allocated(t) : Points(t, m, t.ns[m])
  BY DEF InOrder
<1>2. /\ g.nsDef = t.nsDef /\ g.ns = t.ns
      /\ g.kind[n] = kind /\ g.above[n] = IF e = NULL THEN {} ELSE t.above[e] \cup {e}
      /\ \A m \in Nodes \ {n} : g.kind[m] = t.kind[m] /\ g.above[m] = t.above[m]
  BY <1>1 DEF AddNode, Tree
<1>3. e # NULL => e \in Nodes /\ e \in Elements(t) /\ t.above[e] \subseteq Elements(t)
  BY <1>1 DEF Elements, Nested
<1>4. g \in Tree
  BY <1>1, <1>3 DEF AddNode, Tree, Elements
<1>5. t.ns[n] = NULL /\ t.nsDef[n] = NoDeclaration /\ n \notin Elements(t)
  BY <1>1 DEF Nested, Elements, Allocated, Kinds
<1> HIDE DEF g
<1>6. Allocated(g) = Allocated(t) \cup {n} /\ Elements(t) \subseteq Elements(g)
  BY <1>2, <1>5 DEF Allocated, Elements, Kinds
<1>6a. Elements(g) \subseteq Elements(t) \cup {n}
  BY <1>2 DEF Elements
<1>7. Nested(g)
  <2> SUFFICES ASSUME NEW m \in Nodes
               PROVE  /\ m \notin g.above[m] /\ g.above[m] \subseteq Elements(g)
                      /\ \A k \in g.above[m] : g.above[k] \subseteq g.above[m]
                      /\ \A k, l \in g.above[m] : k = l \/ k \in g.above[l] \/ l \in g.above[k]
                      /\ m \notin Elements(g) => g.nsDef[m] = NoDeclaration
                      /\ m \notin Allocated(g) => g.above[m] = {} /\ g.ns[m] = NULL
    BY DEF Nested
  <2>1. \A k \in Elements(t) : k \in Nodes /\ k # n /\ g.above[k] = t.above[k]
    BY <1>2, <1>5 DEF Elements
  <2>2. CASE m = n
    <3>1. g.above[m] \subseteq Elements(t)
      BY <1>2, <1>3, <2>2
    <3>2. \A k \in g.above[m] : g.above[k] = t.above[k] /\ g.above[k] \subseteq g.above[m]
      BY <1>1, <1>2, <1>3, <2>1, <2>2, <3>1 DEF Nested
    <3>3. \A k, l \in g.above[m] : k = l \/ k \in g.above[l] \/ l \in g.above[k]
      BY <1>1, <1>2, <1>3, <2>1, <2>2, <3>1 DEF Nested
    <3> QED BY <1>2, <1>5, <1>6, <2>1, <2>2, <3>1, <3>2, <3>3
  <2>3. CASE m # n
    <3>1. g.above[m] = t.above[m] /\ t.above[m] \subseteq Elements(t)
      BY <1>1, <1>2, <2>3 DEF Nested
    <3> QED BY <1>1, <1>2, <1>6, <2>1, <2>3, <3>1 DEF Nested
  <2> QED BY <2>2, <2>3
<1>8. e # NULL => Scope(t, e) \subseteq Scope(g, n)
  BY <1>2, <1>3, <1>6 DEF Scope
<1>9. \A m \in Allocated(g) : Points(g, m, g.ns[m])
  <2> SUFFICES ASSUME NEW m \in Allocated(t), m # n
               PROVE  Points(g, m, t.ns[m])
    BY <1>2, <1>5, <1>6 DEF Points
  <2>1. Scope(t, m) \subseteq Scope(g, m)
    BY <1>2, <1>6 DEF Scope, Allocated
  <2>2. Href(g, t.ns[m]) = Href(t, t.ns[m])
    BY <1>2 DEF Href
  <2> QED BY <1>1, <2>1, <2>2 DEF Points
<1>10. InOrder(g)
  BY <1>4, <1>7, <1>9 DEF InOrder
<1> QED BY <1>2, <1>5, <1>6, <1>8, <1>10 DEF g

\* Whole subtrees are freed.
LEMMA FreeNodesInOrder ==
  ASSUME NEW t, InOrder(t), NEW S \in SUBSET Nodes,
         \A m \in Nodes \ S : t.above[m] \cap S = {}
  PROVE  LET g == FreeNodes(t, S) IN
         /\ InOrder(g) /\ Allocated(g) = Allocated(t) \ S /\ Attributes(g) = Attributes(t) \ S
         /\ \A m \in Allocated(g) : g.kind[m] = t.kind[m] /\ g.above[m] = t.above[m]
                                     /\ UriOf(g, m) = UriOf(t, m)
         /\ \A m \in Nodes \ S : g.nsDef[m] = t.nsDef[m] /\ g.ns[m] = t.ns[m]
<1> DEFINE g == FreeNodes(t, S)
<1>1. t \in Tree /\ Nested(t) /\ \A m \in Allocated(t) : Points(t, m, t.ns[m])
  BY DEF InOrder
<1>2. /\ \A m \in Nodes \ S : /\ g.kind[m] = t.kind[m] /\ g.above[m] = t.above[m]
                              /\ g.nsDef[m] = t.nsDef[m] /\ g.ns[m] = t.ns[m]
      /\ \A m \in S : g.kind[m] = "free" /\ g.above[m] = {} /\ g.nsDef[m] = NoDeclaration
                     /\ g.ns[m] = NULL
  BY DEF FreeNodes
<1>3. g \in Tree
  <2>1. NoDeclaration \in [Declarable -> AnyUri \cup {NULL}]
    BY DEF NoDeclaration
  <2> QED BY <1>1, <2>1 DEF FreeNodes, Tree, Pointers
<1> HIDE DEF g
<1>4. /\ Allocated(g) = Allocated(t) \ S /\ Attributes(g) = Attributes(t) \ S
      /\ Elements(g) = Elements(t) \ S
  BY <1>2 DEF Allocated, Attributes, Elements
<1>5. \A m \in Nodes \ S : g.above[m] = t.above[m] /\ t.above[m] \subseteq Elements(g)
  BY <1>1, <1>2, <1>4 DEF Nested
<1>6. Nested(g)
  <2> SUFFICES ASSUME NEW m \in Nodes
               PROVE  /\ m \notin g.above[m] /\ g.above[m] \subseteq Elements(g)
                      /\ \A k \in g.above[m] : g.above[k] \subseteq g.above[m]
                      /\ \A k, l \in g.above[m] : k = l \/ k \in g.above[l] \/ l \in g.above[k]
                      /\ m \notin Elements(g) => g.nsDef[m] = NoDeclaration
                      /\ m \notin Allocated(g) => g.above[m] = {} /\ g.ns[m] = NULL
    BY DEF Nested
  <2>1. CASE m \in S
    BY <1>2, <2>1
  <2>2. CASE m \notin S
    <3>1. \A k \in g.above[m] : k \in Nodes \ S /\ g.above[k] = t.above[k]
      BY <1>4, <1>5, <2>2 DEF Elements
    <3>2. \A k \in g.above[m] : g.above[k] \subseteq g.above[m]
      BY <1>1, <1>5, <2>2, <3>1 DEF Nested
    <3>3. \A k, l \in g.above[m] : k = l \/ k \in g.above[l] \/ l \in g.above[k]
      BY <1>1, <1>5, <2>2, <3>1 DEF Nested
    <3> QED BY <1>1, <1>2, <1>4, <1>5, <2>2, <3>2, <3>3 DEF Nested
  <2> QED BY <2>1, <2>2
<1>7. \A m \in Allocated(g) : g.ns[m] = t.ns[m] /\ Points(g, m, t.ns[m])
                             /\ UriOf(g, m) = UriOf(t, m)
  <2> SUFFICES ASSUME NEW m \in Allocated(g)
               PROVE  Points(g, m, t.ns[m]) /\ UriOf(g, m) = UriOf(t, m)
    BY <1>2, <1>4 DEF Allocated
  <2>0. m \in Nodes \ S /\ m \in Allocated(t) /\ g.ns[m] = t.ns[m]
    BY <1>2, <1>4 DEF Allocated
  <2>1. CASE t.ns[m] \in {NULL, XmlNs}
    BY <2>0, <2>1 DEF Points, UriOf, Href
  <2>2. CASE t.ns[m] \notin {NULL, XmlNs}
    <3>1. t.ns[m][1] \in Scope(t, m) /\ Href(t, t.ns[m]) # NULL
      BY <1>1, <2>0, <2>2 DEF Points
    <3>2. Scope(t, m) = Scope(g, m)
      BY <1>4, <1>5, <2>0 DEF Scope
    <3>3. t.ns[m][1] \in Nodes \ S
      BY <1>4, <3>1, <3>2 DEF Scope, Elements
    <3>4. Href(g, t.ns[m]) = Href(t, t.ns[m])
      BY <1>2, <3>3 DEF Href
    <3> QED BY <2>0, <3>1, <3>2, <3>4 DEF Points, UriOf
  <2> QED BY <2>1, <2>2
<1>8. InOrder(g)
  BY <1>3, <1>6, <1>7 DEF InOrder
<1> QED BY <1>2, <1>4, <1>7, <1>8 DEF g, Allocated

-----------------------------------------------------------------------------
(* What the methods do to it.                                              *)

\* Attributes that keep their names stay distinct.
LEMMA DistinctKept ==
  ASSUME NEW t, NEW g, Distinct(t), Attributes(g) \subseteq Attributes(t),
         \A a \in Attributes(g) : g.above[a] = t.above[a] /\ UriOf(g, a) = UriOf(t, a)
  PROVE  Distinct(g)
  BY DEF Distinct

\* A call takes t to g and keeps the tree in order.
Keeps(t, g) == InOrder(g) /\ (AttributeNamespace \notin Uses /\ Distinct(t) => Distinct(g))

\* What a call that throws may have changed.
Trace(t, g) ==
  \/ g = t
  \/ \E n \in Nodes : Allocated(g) = {n} /\ n \notin Allocated(t)
  \/ \E n \in Elements(t), p \in Declarable : g = NewNs(t, n, Empty, p)

LEMMA TreeUnchanged ==
  ASSUME NEW t, InOrder(t)
  PROVE  Keeps(t, t) /\ Trace(t, t)
  BY DEF Keeps, Trace

\* A pointer to nothing or to a declaration found is given to an element.
LEMMA SetNsOfElement ==
  ASSUME NEW t, InOrder(t), NEW n \in Elements(t), NEW ns \in Pointers, Points(t, n, ns)
  PROVE  LET g == SetNs(t, n, ns) IN
         Keeps(t, g) /\ \A a \in Attributes(t) : UriOf(g, a) = UriOf(t, a)
<1> DEFINE g == SetNs(t, n, ns)
<1>1. n \in Allocated(t) /\ n \notin Attributes(t) /\ Attributes(t) \subseteq Nodes
  BY DEF Elements, Allocated, Attributes
<1>2. /\ InOrder(g) /\ g.kind = t.kind /\ g.above = t.above
      /\ \A m \in Nodes \ {n} : UriOf(g, m) = UriOf(t, m)
  BY <1>1, SetNsInOrder
<1> HIDE DEF g
<1>3. Attributes(g) = Attributes(t)
  BY <1>2 DEF Attributes
<1>4. \A a \in Attributes(t) : UriOf(g, a) = UriOf(t, a)
  BY <1>1, <1>2
<1>5. Distinct(t) => Distinct(g)
  BY <1>2, <1>3, <1>4, DistinctKept
<1> QED BY <1>2, <1>4, <1>5 DEF Keeps, g

LEMMA SetNamespaceKeeps ==
  ASSUME InOrder(tree), NEW n \in Nodes, NEW p \in AnyPrefix, SetNamespace(n, p)
  PROVE  Keeps(tree, tree') /\ (threw' => Trace(tree, tree'))
<1> DEFINE ns == SearchNs(tree, n, p)
<1>1. CASE ns = NULL
  BY <1>1, TreeUnchanged DEF SetNamespace, Throws
<1>2. CASE ns # NULL
  <2>1. tree' = SetNs(tree, n, ns) /\ threw' = FALSE
    BY <1>2 DEF SetNamespace, Ends
  <2>2. n \in Allocated(tree)
    BY DEF SetNamespace, Elements, Attributes, Allocated
  <2>3. ns \in Pointers /\ Points(tree, n, ns)
    BY <2>2, SearchFinds
  <2>4. CASE n \in Elements(tree)
    BY <2>1, <2>3, <2>4, SetNsOfElement
  <2>5. CASE n \notin Elements(tree)
    <3>1. AttributeNamespace \in Uses
      BY <2>5 DEF SetNamespace
    <3>2. InOrder(tree')
      BY <2>1, <2>2, <2>3, SetNsInOrder
    <3> QED BY <2>1, <3>1, <3>2 DEF Keeps
  <2> QED BY <2>4, <2>5
<1> QED BY <1>1, <1>2

\* A declaration, also when it fails: it then leaves at most one without URI.
LEMMA DeclarationKeeps ==
  ASSUME NEW t, InOrder(t), NEW n \in Elements(t), NEW uri \in AnyUri, NEW p \in AnyPrefix
  PROVE  LET d == Declaration(t, n, uri, p) IN
         /\ Keeps(t, d.tree) /\ d.tree.kind = t.kind
         /\ ~d.ok => d.tree = t \/ (p \in Declarable /\ d.tree = NewNs(t, n, Empty, p))
<1> DEFINE d == Declaration(t, n, uri, p)
           g == Declared(t, n, uri, p).tree
           ok == Declared(t, n, uri, p).ok
           ns == SearchNs(g, n, p)
<1>1. n \in Allocated(t) /\ n \in Nodes
  BY DEF Elements, Allocated
<1>2. /\ InOrder(g) /\ g.kind = t.kind /\ g.above = t.above
      /\ \A m \in Allocated(t) : UriOf(g, m) = UriOf(t, m)
  <2>1. CASE CanDeclare(t, n, p)
    <3>1. g = NewNs(t, n, uri, p)
      BY <2>1 DEF Declared
    <3> QED BY <2>1, <3>1, NewNsInOrder
  <2>2. CASE ~CanDeclare(t, n, p)
    <3>1. g = t
      BY <2>2 DEF Declared
    <3> QED BY <3>1
  <2> QED BY <2>1, <2>2
<1>3. ~ok => g = t
  BY DEF Declared
<1>4. n \in Elements(g) /\ n \in Allocated(g) /\ Attributes(g) = Attributes(t)
      /\ Attributes(t) \subseteq Allocated(t)
  BY <1>1, <1>2 DEF Elements, Allocated, Attributes
<1>5. Keeps(t, g)
  BY <1>2, <1>4, DistinctKept DEF Keeps
<1>6. ns \in Pointers /\ Points(g, n, ns)
  BY <1>2, <1>4, SearchFinds
<1>7. ok /\ ns = NULL /\ p = PrefixOf(g, n) => g = t \/ (p \in Declarable /\ g = NewNs(t, n, Empty, p))
  <2> SUFFICES ASSUME ns = NULL, g # t
               PROVE  p \in Declarable /\ g = NewNs(t, n, Empty, p)
    OBVIOUS
  <2>1. CanDeclare(t, n, p) /\ g = NewNs(t, n, uri, p)
    BY DEF Declared
  <2>2. p \in Declarable
    BY <2>1 DEF CanDeclare, AnyPrefix
  <2>3. g.nsDef[n][p] = uri
    BY <2>1, NewNsInOrder
  <2>4. n \in Scope(g, n)
    BY <1>4 DEF Scope
  <2>5. ~Declares(g, n, p)
    BY <1>2, <1>4, <2>2, <2>4, SearchFinds
  <2>6. uri = Empty
    BY <2>3, <2>5 DEF Declares, AnyUri
  <2> QED BY <2>1, <2>2, <2>6
<1>8. CASE ~ok
  <2>1. d = Declared(t, n, uri, p)
    BY <1>8 DEF Declaration
  <2> QED BY <1>2, <1>3, <1>5, <1>8, <2>1
<1>9. CASE ok /\ p # PrefixOf(g, n)
  <2>1. d.tree = g /\ d.ok
    BY <1>9 DEF Declaration, Redirected
  <2> QED BY <1>2, <1>5, <2>1
<1>10. CASE ok /\ p = PrefixOf(g, n) /\ ns = NULL
  <2>1. d.tree = g
    BY <1>10 DEF Declaration, Redirected
  <2> QED BY <1>2, <1>5, <1>7, <1>10, <2>1
<1>11. CASE ok /\ p = PrefixOf(g, n) /\ ns # NULL
  <2>1. d.tree = SetNs(g, n, ns) /\ d.ok
    BY <1>11 DEF Declaration, Redirected
  <2>2. Keeps(g, d.tree) /\ d.tree.kind = g.kind
    BY <1>2, <1>4, <1>6, <2>1, SetNsOfElement, SetNsInOrder
  <2> QED BY <1>2, <1>5, <2>1, <2>2 DEF Keeps
<1> HIDE DEF d
<1> QED BY <1>8, <1>9, <1>10, <1>11 DEF d

LEMMA SetNamespaceDeclarationKeeps ==
  ASSUME InOrder(tree), NEW n \in Nodes, NEW uri \in AnyUri, NEW p \in AnyPrefix,
         SetNamespaceDeclaration(n, uri, p)
  PROVE  Keeps(tree, tree') /\ (threw' => Trace(tree, tree'))
<1> DEFINE d == Declaration(tree, n, uri, p)
<1>1. n \in Elements(tree) /\ tree' = d.tree /\ (threw' => ~d.ok)
  BY DEF SetNamespaceDeclaration, Ends, Throws
<1>2. Keeps(tree, d.tree)
  BY <1>1, DeclarationKeeps
<1>3. ~d.ok => d.tree = tree \/ (p \in Declarable /\ d.tree = NewNs(tree, n, Empty, p))
  BY <1>1, DeclarationKeeps
<1> HIDE DEF d
<1>4. threw' => Trace(tree, tree')
  BY <1>1, <1>3 DEF Trace
<1> QED BY <1>1, <1>2, <1>4

\* A new element is put into a tree.
LEMMA NewElementKeeps ==
  ASSUME NEW t, InOrder(t), NEW n \in Nodes \ Allocated(t), NEW e \in Elements(t) \cup {NULL}
  PROVE  LET g == AddNode(t, n, "element", e) IN Keeps(t, g) /\ n \in Elements(g)
<1> DEFINE g == AddNode(t, n, "element", e)
<1>1. "element" \in Kinds /\ "element" # "attribute"
  BY DEF Kinds
<1>2. /\ InOrder(g) /\ g.nsDef = t.nsDef /\ g.ns = t.ns /\ g.kind[n] = "element"
      /\ \A m \in Nodes \ {n} : g.kind[m] = t.kind[m] /\ g.above[m] = t.above[m]
  BY <1>1, AddNodeInOrder
<1> HIDE DEF g
<1>3. Attributes(g) \subseteq Attributes(t) /\ n \in Elements(g) /\ n \notin Attributes(g)
      /\ Attributes(t) \subseteq Nodes
  BY <1>1, <1>2 DEF Attributes, Elements
<1>4. \A a \in Attributes(g) : g.above[a] = t.above[a] /\ UriOf(g, a) = UriOf(t, a)
  BY <1>2, <1>3 DEF UriOf, Href
<1>5. Distinct(t) => Distinct(g)
  BY <1>3, <1>4, DistinctKept
<1> QED BY <1>2, <1>3, <1>5 DEF Keeps, g

\* What is found from a parent, or nothing, can be pointed to by its new child.
LEMMA ChildPoints ==
  ASSUME NEW t, InOrder(t), NEW e \in Elements(t), NEW n \in Nodes \ Allocated(t),
         NEW kind \in Kinds, NEW ns, Points(t, e, ns)
  PROVE  Points(AddNode(t, n, kind, e), n, ns)
<1>1. e # NULL
  BY DEF Elements
<1> DEFINE g == AddNode(t, n, kind, e)
<1>2. g.nsDef = t.nsDef /\ Scope(t, e) \subseteq Scope(g, n)
  BY <1>1, AddNodeInOrder
<1> HIDE DEF g
<1>3. Points(g, n, ns)
  BY <1>2 DEF Points, Href
<1> QED BY <1>3 DEF g

LEMMA AddChildElementKeeps ==
  ASSUME InOrder(tree), NEW e \in Nodes, NEW p \in AnyPrefix, AddChildElement(e, p)
  PROVE  Keeps(tree, tree') /\ (threw' => Trace(tree, tree'))
<1> DEFINE ns == SearchNs(tree, e, p)
<1>1. CASE ns = NULL /\ p # Default
  BY <1>1, TreeUnchanged DEF AddChildElement, Throws
<1>2. CASE ~(ns = NULL /\ p # Default)
  <2>1. e \in Elements(tree) /\ e \in Allocated(tree)
    BY DEF AddChildElement, Elements, Allocated
  <2>2. PICK n \in Nodes \ Allocated(tree) :
          tree' = SetNs(AddNode(tree, n, "element", e), n, ns) /\ threw' = FALSE
    BY <1>2 DEF AddChildElement, Ends
  <2>3. ns \in Pointers /\ Points(tree, e, ns)
    BY <2>1, SearchFinds
  <2> DEFINE g == AddNode(tree, n, "element", e)
  <2>4. Keeps(tree, g) /\ n \in Elements(g)
    BY <2>1, NewElementKeeps
  <2>5. Points(g, n, ns)
    BY <2>1, <2>3, ChildPoints DEF Kinds
  <2> HIDE DEF g, ns
  <2>6. Keeps(g, SetNs(g, n, ns))
    BY <2>3, <2>4, <2>5, SetNsOfElement DEF Keeps
  <2> QED BY <2>2, <2>4, <2>6 DEF Keeps, g
<1> QED BY <1>1, <1>2

LEMMA AddChildElementWithNewNsKeeps ==
  ASSUME InOrder(tree), NEW e \in Nodes, NEW uri \in AnyUri, NEW p \in AnyPrefix,
         AddChildElementWithNewNs(e, uri, p)
  PROVE  Keeps(tree, tree') /\ (threw' => Trace(tree, tree'))
<1>1. CASE p = Xml /\ uri # XmlUri
  BY <1>1, TreeUnchanged DEF AddChildElementWithNewNs, Throws
<1>2. CASE ~(p = Xml /\ uri # XmlUri)
  <2>1. e \in Elements(tree)
    BY DEF AddChildElementWithNewNs
  <2>2. PICK n \in Nodes \ Allocated(tree) :
          LET t == AddNode(tree, n, "element", e) IN
          Ends(IF p = Xml THEN SetNs(t, n, XmlNs) ELSE SetNs(NewNs(t, n, uri, p), n, <<n, p>>))
    BY <1>2 DEF AddChildElementWithNewNs
  <2> DEFINE t == AddNode(tree, n, "element", e)
             g == NewNs(t, n, uri, p)
  <2>3. Keeps(tree, t) /\ n \in Elements(t)
    BY <2>1, NewElementKeeps
  <2>4. t.nsDef[n] = NoDeclaration
    BY <2>1, AddNodeInOrder DEF Kinds
  <2>5. CASE p = Xml
    <3>1. tree' = SetNs(t, n, XmlNs) /\ threw' = FALSE
      BY <2>2, <2>5 DEF Ends
    <3> HIDE DEF t
    <3>2. Keeps(t, SetNs(t, n, XmlNs))
      BY <2>3, SetNsOfElement DEF Keeps, Points, Pointers
    <3> QED BY <2>3, <3>1, <3>2 DEF Keeps
  <2>6. CASE p # Xml
    <3>1. tree' = SetNs(g, n, <<n, p>>) /\ threw' = FALSE
      BY <2>2, <2>6 DEF Ends
    <3> HIDE DEF t
    <3>2. p \in Declarable /\ CanDeclare(t, n, p)
      BY <2>4, <2>6 DEF CanDeclare, NoDeclaration, AnyPrefix
    <3>3. /\ InOrder(t)
          /\ InOrder(g) /\ g.kind = t.kind /\ g.above = t.above /\ g.nsDef[n][p] = uri
          /\ \A m \in Allocated(t) : UriOf(g, m) = UriOf(t, m)
      BY <2>3, <3>2, NewNsInOrder DEF Keeps
    <3> HIDE DEF g
    <3>4. Attributes(g) = Attributes(t) /\ Attributes(t) \subseteq Allocated(t) /\ n \in Elements(g)
      BY <2>3, <3>3 DEF Attributes, Allocated, Elements
    <3>5. Keeps(t, g)
      BY <3>3, <3>4, DistinctKept DEF Keeps
    <3>6. <<n, p>> \in Pointers /\ <<n, p>>[1] = n /\ <<n, p>>[2] = p /\ <<n, p>> # XmlNs
      BY <3>2 DEF Pointers, XmlNs
    <3>7. Href(g, <<n, p>>) = uri /\ n \in Scope(g, n)
      BY <3>3, <3>4, <3>6 DEF Href, Scope
    <3>8. Points(g, n, <<n, p>>)
      BY <3>6, <3>7 DEF Points, AnyUri
    <3>9. Keeps(g, SetNs(g, n, <<n, p>>))
      BY <3>3, <3>4, <3>6, <3>8, SetNsOfElement
    <3> QED BY <2>3, <3>1, <3>5, <3>9 DEF Keeps
  <2> QED BY <2>5, <2>6
<1> QED BY <1>1, <1>2

LEMMA CreateRootNodeKeeps ==
  ASSUME InOrder(tree), NEW uri \in AnyUri, NEW p \in AnyPrefix, CreateRootNode(uri, p)
  PROVE  Keeps(tree, tree') /\ (threw' => Trace(tree, tree'))
<1>1. PICK n \in Nodes \ Allocated(tree) :
        LET t == FreeNodes(AddNode(tree, n, "element", NULL), Allocated(tree))
            d == Declaration(t, n, uri, p) IN
        IF uri = Empty THEN Ends(t)
        ELSE IF d.ok THEN Ends(SetNs(d.tree, n, SearchNs(d.tree, n, p)))
        ELSE Throws(d.tree)
  BY DEF CreateRootNode
<1> DEFINE s == AddNode(tree, n, "element", NULL)
           t == FreeNodes(s, Allocated(tree))
           d == Declaration(t, n, uri, p)
           ns == SearchNs(d.tree, n, p)
<1>2. /\ InOrder(s) /\ Allocated(s) = Allocated(tree) \cup {n} /\ s.kind[n] = "element"
      /\ s.above[n] = {}
      /\ \A m \in Nodes \ {n} : s.above[m] = tree.above[m]
  BY AddNodeInOrder DEF Kinds
<1>3. \A m \in Nodes \ Allocated(tree) : s.above[m] \cap Allocated(tree) = {}
  BY <1>2 DEF InOrder, Nested
<1> HIDE DEF s
<1>4. /\ InOrder(t) /\ Allocated(t) = {n} /\ t.kind[n] = "element"
  <2>1. Allocated(tree) \in SUBSET Nodes
    BY DEF Allocated
  <2>2. InOrder(t) /\ Allocated(t) = Allocated(s) \ Allocated(tree)
    BY <1>2, <1>3, <2>1, FreeNodesInOrder
  <2>3. \A m \in Allocated(t) : t.kind[m] = s.kind[m]
    BY <1>2, <1>3, <2>1, FreeNodesInOrder
  <2> QED BY <1>2, <2>2, <2>3
<1> HIDE DEF t
<1>5. n \in Elements(t) /\ Attributes(t) = {}
  BY <1>4 DEF Elements, Attributes, Allocated
<1>6. InOrder(d.tree) /\ d.tree.kind = t.kind
  BY <1>4, <1>5, DeclarationKeeps DEF Keeps
<1>7. CASE uri = Empty
  <2>1. tree' = t /\ threw' = FALSE
    BY <1>1, <1>7 DEF Ends, s, t
  <2> QED BY <1>4, <1>5, <2>1 DEF Keeps, Distinct
<1>8. CASE uri # Empty /\ d.ok
  <2>1. tree' = SetNs(d.tree, n, ns) /\ threw' = FALSE
    BY <1>1, <1>8 DEF Ends, s, t
  <2> HIDE DEF d
  <2>2. n \in Allocated(d.tree)
    BY <1>4, <1>6 DEF Allocated
  <2>3. ns \in Pointers /\ Points(d.tree, n, ns)
    BY <1>6, <2>2, SearchFinds
  <2>4. InOrder(tree') /\ tree'.kind = t.kind
    BY <1>6, <2>1, <2>2, <2>3, SetNsInOrder
  <2> QED BY <1>5, <2>1, <2>4 DEF Keeps, Distinct, Attributes
<1>9. CASE uri # Empty /\ ~d.ok
  <2>1. tree' = d.tree
    BY <1>1, <1>9 DEF Throws, s, t
  <2> HIDE DEF d
  <2>2. Allocated(tree') = {n} /\ Attributes(tree') = {}
    BY <1>4, <1>5, <1>6, <2>1 DEF Allocated, Attributes
  <2> QED BY <1>6, <2>1, <2>2 DEF Keeps, Distinct, Trace
<1> QED BY <1>7, <1>8, <1>9

LEMMA RemoveNodeKeeps ==
  ASSUME InOrder(tree), NEW n \in Nodes, RemoveNode(n)
  PROVE  Keeps(tree, tree') /\ ~threw'
<1> DEFINE S == Subtree(tree, n)
<1>1. tree' = FreeNodes(tree, S) /\ threw' = FALSE
  BY DEF RemoveNode, Ends
<1>2. S \in SUBSET Nodes /\ \A m \in Nodes \ S : tree.above[m] \cap S = {}
  BY DEF Subtree, InOrder, Nested
<1> HIDE DEF S
<1>3. /\ InOrder(tree') /\ Attributes(tree') = Attributes(tree) \ S
      /\ \A m \in Allocated(tree') : tree'.above[m] = tree.above[m] /\ UriOf(tree', m) = UriOf(tree, m)
  BY <1>1, <1>2, FreeNodesInOrder
<1>4. Attributes(tree') \subseteq Allocated(tree')
  BY DEF Attributes, Allocated
<1>5. Distinct(tree) => Distinct(tree')
  BY <1>3, <1>4, DistinctKept
<1> QED BY <1>1, <1>3, <1>5 DEF Keeps

LEMMA RemoveAttributeKeeps ==
  ASSUME InOrder(tree), NEW e \in Nodes, NEW p \in AnyPrefix, RemoveAttribute(e, p)
  PROVE  Keeps(tree, tree') /\ ~threw'
<1>1. CASE tree' = tree /\ threw' = FALSE
  BY <1>1, TreeUnchanged
<1>2. CASE \E a \in Removes(tree, e, p) : Ends(FreeNodes(tree, {a}))
  <2>1. PICK a \in Removes(tree, e, p) : tree' = FreeNodes(tree, {a}) /\ threw' = FALSE
    BY <1>2 DEF Ends
  <2>2. a \in Attributes(tree)
    BY DEF Removes, HasNsProp, AttributesOf
  <2>3. a \in Nodes /\ a \notin Elements(tree)
    BY <2>2 DEF Attributes, Elements
  <2>4. \A m \in Nodes \ {a} : tree.above[m] \cap {a} = {}
    BY <2>3 DEF InOrder, Nested
  <2>5. /\ InOrder(tree') /\ Attributes(tree') = Attributes(tree) \ {a}
        /\ \A m \in Allocated(tree') :
             tree'.above[m] = tree.above[m] /\ UriOf(tree', m) = UriOf(tree, m)
    BY <2>1, <2>3, <2>4, FreeNodesInOrder
  <2>6. Attributes(tree') \subseteq Allocated(tree')
    BY DEF Attributes, Allocated
  <2>7. Distinct(tree) => Distinct(tree')
    BY <2>5, <2>6, DistinctKept
  <2> QED BY <2>1, <2>5, <2>7 DEF Keeps
<1> QED BY <1>1, <1>2 DEF RemoveAttribute, Ends

\* The URI of the pointer that set_attribute() gives an attribute.
UriOfPointer(t, ns) == IF ns = NULL THEN Empty ELSE Href(t, ns)

\* What set_attribute() finds is what has that URI.
LEMMA SetsWithUri ==
  ASSUME NEW t, InOrder(t), NEW e \in Elements(t), NEW p \in AnyPrefix,
         NEW ns, ns = (IF p = Default THEN NULL ELSE SearchNs(t, e, p)), p = Default \/ ns # NULL
  PROVE  Sets(t, e, p) = HasNsProp(t, e, UriOfPointer(t, ns))
  BY DEF Sets, UriOfPointer

LEMMA SetAttributeKeeps ==
  ASSUME InOrder(tree), NEW e \in Nodes, NEW p \in AnyPrefix, SetAttribute(e, p)
  PROVE  Keeps(tree, tree') /\ (threw' => Trace(tree, tree'))
<1> DEFINE ns == IF p = Default THEN NULL ELSE SearchNs(tree, e, p)
           old == Sets(tree, e, p)
<1>1. e \in Elements(tree) /\ e \in Allocated(tree)
  BY DEF SetAttribute, Elements, Allocated
<1>2. ns \in Pointers /\ Points(tree, e, ns)
  BY <1>1, SearchFinds DEF Points, Pointers
<1>3. CASE p # Default /\ ns = NULL
  BY <1>3, TreeUnchanged DEF SetAttribute, Throws
<1>4. CASE p = Default \/ ns # NULL
  <2>1. old = HasNsProp(tree, e, UriOfPointer(tree, ns))
    BY <1>1, <1>4, SetsWithUri
  <2>2. CASE \E a \in old : Ends(SetNs(tree, a, ns))
    <3>1. PICK a \in old : tree' = SetNs(tree, a, ns) /\ threw' = FALSE
      BY <2>2 DEF Ends
    <3> HIDE DEF old, ns
    <3>2. /\ a \in Attributes(tree) /\ tree.above[a] = tree.above[e] \cup {e}
          /\ UriOf(tree, a) = UriOfPointer(tree, ns)
      BY <2>1 DEF HasNsProp, AttributesOf
    <3>3. a \in Allocated(tree) /\ a \in Nodes
      BY <3>2 DEF Attributes, Allocated
    <3>4. Points(tree, a, ns)
      BY <1>2, <3>2 DEF Points, Scope
    <3>5. /\ InOrder(tree') /\ tree'.kind = tree.kind /\ tree'.above = tree.above
          /\ tree'.nsDef = tree.nsDef /\ tree'.ns[a] = ns
          /\ \A m \in Nodes \ {a} : UriOf(tree', m) = UriOf(tree, m)
      BY <1>2, <3>1, <3>3, <3>4, SetNsInOrder
    <3>6. UriOf(tree', a) = UriOf(tree, a)
      BY <3>2, <3>5 DEF UriOf, UriOfPointer, Href
    <3>7. Attributes(tree') = Attributes(tree) /\ Attributes(tree) \subseteq Nodes
      BY <3>5 DEF Attributes
    <3>8. Distinct(tree) => Distinct(tree')
      BY <3>5, <3>6, <3>7, DistinctKept
    <3> QED BY <3>1, <3>5, <3>8 DEF Keeps
  <2>3. CASE /\ old = {}
             /\ \E a \in Nodes \ Allocated(tree) :
                  Ends(SetNs(AddNode(tree, a, "attribute", e), a, ns))
    <3>1. PICK a \in Nodes \ Allocated(tree) :
            tree' = SetNs(AddNode(tree, a, "attribute", e), a, ns) /\ threw' = FALSE
      BY <2>3 DEF Ends
    <3> DEFINE t == AddNode(tree, a, "attribute", e)
    <3>2. /\ InOrder(t) /\ Allocated(t) = Allocated(tree) \cup {a}
          /\ t.nsDef = tree.nsDef /\ t.ns = tree.ns
          /\ t.kind[a] = "attribute" /\ t.above[a] = tree.above[e] \cup {e}
          /\ \A m \in Nodes \ {a} : t.kind[m] = tree.kind[m] /\ t.above[m] = tree.above[m]
      BY <1>1, AddNodeInOrder DEF Kinds, Elements
    <3>3. Points(t, a, ns)
      BY <1>1, <1>2, ChildPoints DEF Kinds
    <3> HIDE DEF t, ns, old
    <3>4. a \in Allocated(t)
      BY <3>2
    <3>5. /\ InOrder(tree') /\ tree'.kind = t.kind /\ tree'.above = t.above
          /\ tree'.nsDef = t.nsDef /\ tree'.ns[a] = ns
          /\ \A m \in Nodes \ {a} : UriOf(tree', m) = UriOf(t, m)
      BY <1>2, <3>1, <3>2, <3>3, <3>4, SetNsInOrder DEF t
    <3>6. \A m \in Nodes \ {a} : UriOf(tree', m) = UriOf(tree, m)
      BY <3>2, <3>5 DEF UriOf, Href
    <3>7. UriOf(tree', a) = UriOfPointer(tree, ns)
      BY <3>2, <3>5 DEF UriOf, UriOfPointer, Href
    <3>8. /\ Attributes(tree') = Attributes(tree) \cup {a} /\ Attributes(tree) \subseteq Nodes
          /\ a \notin Attributes(tree)
      BY <3>2, <3>5 DEF Attributes, Allocated
    <3>9. \A b \in Attributes(tree) :
            tree.above[b] # tree.above[e] \cup {e} \/ UriOf(tree, b) # UriOfPointer(tree, ns)
      BY <2>1, <2>3 DEF HasNsProp, AttributesOf
    <3>10. Distinct(tree) => Distinct(tree')
      <4> SUFFICES ASSUME Distinct(tree), NEW b \in Attributes(tree'), NEW c \in Attributes(tree'),
                          tree'.above[b] = tree'.above[c], UriOf(tree', b) = UriOf(tree', c)
                   PROVE  b = c
        BY DEF Distinct
      <4>1. CASE b # a /\ c # a
        BY <3>2, <3>5, <3>6, <3>8, <4>1 DEF Distinct
      <4>2. CASE b = a /\ c # a
        BY <3>2, <3>5, <3>6, <3>7, <3>8, <3>9, <4>2
      <4>3. CASE b # a /\ c = a
        BY <3>2, <3>5, <3>6, <3>7, <3>8, <3>9, <4>3
      <4> QED BY <4>1, <4>2, <4>3
    <3> QED BY <3>1, <3>5, <3>10 DEF Keeps
  <2> QED BY <1>4, <2>2, <2>3 DEF SetAttribute
<1> QED BY <1>3, <1>4

\* Every step.
LEMMA StepKeeps ==
  ASSUME InOrder(tree), [Next]_vars
  PROVE  Keeps(tree, tree') /\ (Next /\ threw' => Trace(tree, tree'))
<1>1. CASE UNCHANGED vars
  BY <1>1, TreeUnchanged DEF vars
<1>2. CASE Next
  <2>1. ASSUME NEW n \in Nodes, NEW p \in AnyPrefix,
               \/ SetNamespace(n, p) \/ AddChildElement(n, p)
               \/ SetAttribute(n, p) \/ RemoveAttribute(n, p)
        PROVE  Keeps(tree, tree') /\ (threw' => Trace(tree, tree'))
    BY <2>1, SetNamespaceKeeps, AddChildElementKeeps, SetAttributeKeeps, RemoveAttributeKeeps
  <2>2. ASSUME NEW n \in Nodes, NEW uri \in AnyUri, NEW p \in AnyPrefix,
               SetNamespaceDeclaration(n, uri, p) \/ AddChildElementWithNewNs(n, uri, p)
        PROVE  Keeps(tree, tree') /\ (threw' => Trace(tree, tree'))
    BY <2>2, SetNamespaceDeclarationKeeps, AddChildElementWithNewNsKeeps
  <2>3. ASSUME NEW uri \in AnyUri, NEW p \in AnyPrefix, CreateRootNode(uri, p)
        PROVE  Keeps(tree, tree') /\ (threw' => Trace(tree, tree'))
    BY <2>3, CreateRootNodeKeeps
  <2>4. ASSUME NEW n \in Nodes, RemoveNode(n)
        PROVE  Keeps(tree, tree') /\ (threw' => Trace(tree, tree'))
    BY <2>4, RemoveNodeKeeps
  <2> QED BY <1>2, <2>1, <2>2, <2>3, <2>4 DEF Next
<1> QED BY <1>1, <1>2

LEMMA InitInOrder ==
  ASSUME Init
  PROVE  InOrder(tree) /\ Distinct(tree)
<1>1. PICK r \in Nodes : tree = AddNode(EmptyTree, r, "element", NULL)
  BY DEF Init
<1>2. NoDeclaration \in [Declarable -> AnyUri \cup {NULL}]
  BY DEF NoDeclaration
<1>3. /\ EmptyTree \in Tree /\ Allocated(EmptyTree) = {}
      /\ Elements(EmptyTree) = {} /\ Attributes(EmptyTree) = {}
      /\ \A n \in Nodes : EmptyTree.above[n] = {} /\ EmptyTree.nsDef[n] = NoDeclaration
                          /\ EmptyTree.ns[n] = NULL
  BY <1>2 DEF EmptyTree, Tree, Kinds, Pointers, Allocated, Elements, Attributes
<1> HIDE DEF EmptyTree
<1>4. InOrder(EmptyTree) /\ Distinct(EmptyTree)
  BY <1>3 DEF InOrder, Nested, Distinct
<1>5. Keeps(EmptyTree, tree)
  BY <1>1, <1>3, <1>4, NewElementKeeps
<1>6. InOrder(tree) /\ tree.kind[r] = "element" /\ \A m \in Nodes \ {r} : tree.kind[m] = EmptyTree.kind[m]
  BY <1>1, <1>3, <1>4, AddNodeInOrder DEF Kinds
<1>7. Attributes(tree) = {}
  BY <1>3, <1>6 DEF Attributes
<1> QED BY <1>6, <1>7 DEF Distinct

-----------------------------------------------------------------------------
(* What a tree reads back as.                                              *)

\* A set of elements one in another has one innermost.
LEMMA InnermostUnique ==
  ASSUME NEW t, Nested(t), NEW S \in SUBSET Nodes, NEW m \in S, \A k \in S \ {m} : k \in t.above[m]
  PROVE  Innermost(t, S) = m
<1> DEFINE inner(x) == \A k \in S \ {x} : k \in t.above[x]
<1>1. ASSUME NEW x \in S, inner(x)
      PROVE  x = m
  <2> SUFFICES ASSUME x # m
               PROVE  FALSE
    OBVIOUS
  <2>1. x \in t.above[m] /\ m \in t.above[x]
    BY <1>1
  <2>2. t.above[x] \subseteq t.above[m] /\ m \notin t.above[m]
    BY <2>1 DEF Nested
  <2> QED BY <2>1, <2>2
<1>2. Innermost(t, S) \in S /\ inner(Innermost(t, S))
  BY DEF Innermost
<1> QED BY <1>1, <1>2

\* The elements in scope that declare a prefix, with or without a URI.
Declaring(t, n, p) == {m \in Scope(t, n) : t.nsDef[m][p] # NULL}

LEMMA ReadBackNone ==
  ASSUME NEW t, NEW n, NEW p, p # Xml, Declaring(t, n, p) = {}
  PROVE  ReadBack(t, n, p) = Empty
  BY DEF ReadBack, Declaring

LEMMA ReadBackInner ==
  ASSUME NEW t, InOrder(t), NEW n \in Nodes, NEW p, p # Xml, NEW m \in Declaring(t, n, p),
         \A k \in Declaring(t, n, p) \ {m} : k \in t.above[m]
  PROVE  ReadBack(t, n, p) = t.nsDef[m][p]
<1>1. Declaring(t, n, p) \in SUBSET Nodes
  BY DEF Declaring, Scope, Elements
<1>2. Innermost(t, Declaring(t, n, p)) = m
  BY <1>1, InnermostUnique DEF InOrder
<1>3. ReadBack(t, n, p) = t.nsDef[Innermost(t, Declaring(t, n, p))][p]
  BY DEF ReadBack, Declaring
<1> QED BY <1>2, <1>3

\* What declares a prefix decides how it is read.
LEMMA ReadBackSame ==
  ASSUME NEW t, InOrder(t), NEW g, InOrder(g), NEW n \in Nodes, NEW k \in Nodes, NEW p,
         Declaring(g, k, p) = Declaring(t, n, p),
         \A m \in Declaring(t, n, p) : g.above[m] = t.above[m] /\ g.nsDef[m][p] = t.nsDef[m][p]
  PROVE  ReadBack(g, k, p) = ReadBack(t, n, p)
<1>1. CASE p = Xml
  BY <1>1 DEF ReadBack
<1>2. CASE p # Xml /\ Declaring(t, n, p) = {}
  BY <1>2, ReadBackNone
<1>3. CASE p # Xml /\ Declaring(t, n, p) # {}
  <2> DEFINE m == Innermost(t, Declaring(t, n, p))
  <2>1. m \in Declaring(t, n, p) /\ \A j \in Declaring(t, n, p) \ {m} : j \in t.above[m]
    BY <1>3, InnermostExists DEF InOrder, Declaring
  <2> HIDE DEF m
  <2>2. ReadBack(t, n, p) = t.nsDef[m][p]
    BY <1>3, <2>1, ReadBackInner
  <2>3. ReadBack(g, k, p) = g.nsDef[m][p]
    BY <1>3, <2>1, ReadBackInner
  <2> QED BY <2>1, <2>2, <2>3
<1> QED BY <1>1, <1>2, <1>3

\* Where the names in scope are right, a search finds what the prefix is read as.
LEMMA SearchReadsBack ==
  ASSUME NEW t, InOrder(t), NEW n \in Allocated(t), NEW p \in AnyPrefix,
         \A m \in Scope(t, n) : Faithful(t, m) /\ Plain(t, m)
  PROVE  LET ns == SearchNs(t, n, p) IN
         /\ ns = NULL => ReadBack(t, n, p) = Empty
         /\ ns # NULL => ns[2] = p /\ Href(t, ns) = ReadBack(t, n, p)
<1> DEFINE found == {m \in Scope(t, n) : p \in Declarable /\ (Declares(t, m, p) \/ IsIn(t, n, m, p))}
           m == Innermost(t, found)
           ns == SearchNs(t, n, p)
<1>0. n \in Nodes /\ t \in Tree /\ Nested(t)
  BY DEF Allocated, InOrder
<1>1. CASE p = Xml
  <2>1. ns = XmlNs /\ XmlNs # NULL
    BY <1>1 DEF SearchNs, XmlNs, AnyPrefix
  <2>2. XmlNs[2] = Xml /\ Href(t, XmlNs) = XmlUri /\ ReadBack(t, n, p) = XmlUri
    BY <1>1 DEF XmlNs, Href, ReadBack
  <2> QED BY <1>1, <2>1, <2>2
<1>2. CASE p # Xml
  <2>0. p \in Declarable
    BY <1>2 DEF AnyPrefix
  <2>1. Declaring(t, n, p) = {k \in Scope(t, n) : Declares(t, k, p)}
    BY <2>0 DEF Declaring, Declares, Plain
  <2>2. Declaring(t, n, p) \subseteq found
    BY <2>0, <2>1
  <2>3. CASE found = {}
    <3>1. ns = NULL
      BY <1>2, <2>3 DEF SearchNs
    <3>2. Declaring(t, n, p) = {}
      BY <2>2, <2>3
    <3>3. ReadBack(t, n, p) = Empty
      BY <1>2, <3>2, ReadBackNone
    <3> QED BY <3>1, <3>3
  <2>4. CASE found # {}
    <3>1. m \in found /\ \A k \in found \ {m} : k \in t.above[m]
      BY <1>0, <2>4, InnermostExists
    <3>2. m \in Scope(t, n) /\ m \in Nodes /\ m \in Elements(t)
      BY <3>1 DEF Scope, Elements
    <3>3. CASE Declares(t, m, p)
      <4>1. ns = <<m, p>>
        BY <1>2, <2>4, <3>3 DEF SearchNs
      <4> HIDE DEF ns, m, found
      <4>2. <<m, p>> # XmlNs /\ <<m, p>> # NULL /\ <<m, p>>[1] = m /\ <<m, p>>[2] = p
        BY <1>2, <3>2 DEF XmlNs
      <4>3. Href(t, <<m, p>>) = t.nsDef[m][p]
        BY <4>2 DEF Href
      <4>4. m \in Declaring(t, n, p) /\ \A k \in Declaring(t, n, p) \ {m} : k \in t.above[m]
        BY <2>1, <2>2, <3>1, <3>2, <3>3
      <4>5. ReadBack(t, n, p) = t.nsDef[m][p]
        BY <1>0, <1>2, <4>4, ReadBackInner
      <4> QED BY <4>1, <4>2, <4>3, <4>5 DEF ns
    <3>4. CASE ~Declares(t, m, p)
      <4>1. ns = t.ns[m] /\ IsIn(t, n, m, p)
        BY <1>2, <2>4, <3>1, <3>4 DEF SearchNs
      <4> HIDE DEF ns, m, found
      <4>2. ns # NULL /\ ns[2] = p /\ Href(t, ns) = UriOf(t, m) /\ PrefixOf(t, m) = p
        BY <4>1 DEF IsIn, UriOf, PrefixOf
      <4>3. m \notin Attributes(t)
        BY <3>2 DEF Elements, Attributes
      <4>4. UriOf(t, m) = ReadBack(t, m, p)
        BY <3>2, <4>2, <4>3 DEF Faithful
      <4>5. Scope(t, m) \subseteq Scope(t, n)
        BY <1>0, <3>2, ScopeOfAbove
      <4>6. \A k \in Declaring(t, n, p) : k \in t.above[m]
        BY <2>1, <2>2, <3>1, <3>4
      <4>7. Declaring(t, n, p) = Declaring(t, m, p)
        BY <4>5, <4>6 DEF Declaring, Scope
      <4>8. ReadBack(t, m, p) = ReadBack(t, n, p)
        BY <1>0, <3>2, <4>7, ReadBackSame
      <4> QED BY <4>2, <4>4, <4>8 DEF ns
    <3> QED BY <3>3, <3>4
  <2> QED BY <2>3, <2>4
<1> QED BY <1>1, <1>2

-----------------------------------------------------------------------------
(* Names stay faithful.                                                    *)

\* What a step does to a tree: only names at or below wrong ones, or at or below a change of the
\* declarations, may become wrong.
Right(t, m) == Faithful(t, m) /\ Plain(t, m)
Stays(t, g) ==
  \A n \in Allocated(g) :
    (\A m \in ({n} \cup g.above[n]) \cap Allocated(t) : Right(t, m) /\ g.nsDef[m] = t.nsDef[m])
    => Faithful(g, n)

\* The nodes that are in both trees are in the same place.
SamePlaces(t, g) ==
  \A m \in Allocated(t) \cap Allocated(g) : g.kind[m] = t.kind[m] /\ g.above[m] = t.above[m]

LEMMA PrefixIsOne ==
  ASSUME NEW t, InOrder(t), NEW n \in Nodes
  PROVE  PrefixOf(t, n) \in AnyPrefix
<1>1. t.ns[n] \in Pointers
  BY TreeTypes DEF InOrder
<1>2. XmlNs[2] = Xml
  BY DEF XmlNs
<1>3. t.ns[n] \in Nodes \X Declarable => t.ns[n][2] \in Declarable
  OBVIOUS
<1> QED BY <1>1, <1>2, <1>3 DEF PrefixOf, Pointers, AnyPrefix, Declarable

LEMMA ScopeKept ==
  ASSUME NEW t, InOrder(t), NEW g, InOrder(g), SamePlaces(t, g),
         NEW n \in Allocated(t) \cap Allocated(g)
  PROVE  /\ Scope(g, n) = Scope(t, n)
         /\ \A m \in {n} \cup t.above[n] : m \in Allocated(t) \cap Allocated(g)
         /\ \A m \in Scope(t, n) : g.above[m] = t.above[m]
<1>1. n \in Nodes /\ g.above[n] = t.above[n] /\ g.kind[n] = t.kind[n]
  BY DEF SamePlaces, Allocated
<1>2. t.above[n] \subseteq Elements(t) /\ g.above[n] \subseteq Elements(g)
  BY <1>1 DEF InOrder, Nested
<1>3. \A m \in {n} \cup t.above[n] : m \in Allocated(t) \cap Allocated(g)
  BY <1>1, <1>2 DEF Elements, Allocated
<1>4. \A m \in {n} \cup t.above[n] : m \in Elements(t) <=> m \in Elements(g)
  BY <1>3 DEF SamePlaces, Elements, Allocated
<1> QED BY <1>1, <1>3, <1>4 DEF Scope, SamePlaces

LEMMA ReadBackKept ==
  ASSUME NEW t, InOrder(t), NEW g, InOrder(g), SamePlaces(t, g),
         NEW n \in Allocated(t) \cap Allocated(g), NEW p,
         \A m \in {n} \cup t.above[n] : g.nsDef[m] = t.nsDef[m]
  PROVE  ReadBack(g, n, p) = ReadBack(t, n, p)
<1>1. n \in Nodes
  BY DEF Allocated
<1>2. Scope(g, n) = Scope(t, n) /\ \A m \in Scope(t, n) : g.above[m] = t.above[m]
  BY ScopeKept
<1>3. \A m \in Scope(t, n) : g.nsDef[m] = t.nsDef[m]
  BY DEF Scope
<1>4. Declaring(g, n, p) = Declaring(t, n, p)
  BY <1>2, <1>3 DEF Declaring
<1>5. \A m \in Declaring(t, n, p) : g.above[m] = t.above[m] /\ g.nsDef[m][p] = t.nsDef[m][p]
  BY <1>2, <1>3 DEF Declaring
<1> QED BY <1>1, <1>4, <1>5, ReadBackSame

\* A name that is left alone, with the declarations it may be read by, stays right.
LEMMA FaithfulKept ==
  ASSUME NEW t, InOrder(t), NEW g, InOrder(g), SamePlaces(t, g),
         NEW n \in Allocated(t) \cap Allocated(g), g.ns[n] = t.ns[n],
         \A m \in {n} \cup t.above[n] : g.nsDef[m] = t.nsDef[m], Faithful(t, n)
  PROVE  Faithful(g, n)
<1>1. n \in Attributes(g) <=> n \in Attributes(t)
  BY DEF SamePlaces, Attributes, Allocated
<1>2. PrefixOf(g, n) = PrefixOf(t, n)
  BY DEF PrefixOf
<1>3. ReadBack(g, n, PrefixOf(t, n)) = ReadBack(t, n, PrefixOf(t, n))
  BY ReadBackKept
<1>4. UriOf(g, n) = UriOf(t, n)
  <2>1. CASE t.ns[n] \in {NULL, XmlNs}
    BY <2>1 DEF UriOf, Href
  <2>2. CASE t.ns[n] \notin {NULL, XmlNs}
    <3>1. t.ns[n][1] \in {n} \cup t.above[n]
      BY <2>2 DEF InOrder, Points, Scope
    <3> QED BY <2>2, <3>1 DEF UriOf, Href
  <2> QED BY <2>1, <2>2
<1> QED BY <1>1, <1>2, <1>3, <1>4 DEF Faithful

\* A child without declarations, or an attribute, reads every prefix as its parent does.
LEMMA ReadBackOfChild ==
  ASSUME NEW t, InOrder(t), NEW g, InOrder(g), SamePlaces(t, g), NEW e \in Elements(t),
         e \in Allocated(g), NEW n \in Nodes, NEW p \in AnyPrefix,
         g.above[n] = t.above[e] \cup {e}, g.nsDef[n] = NoDeclaration,
         \A m \in {e} \cup t.above[e] : g.nsDef[m] = t.nsDef[m]
  PROVE  ReadBack(g, n, p) = ReadBack(t, e, p)
<1>1. e \in Nodes /\ e \in Allocated(t)
  BY DEF Elements, Allocated
<1>2. Scope(g, e) = Scope(t, e) /\ \A m \in Scope(t, e) : g.above[m] = t.above[m]
  BY <1>1, ScopeKept
<1>3. \A m \in Scope(t, e) : g.nsDef[m] = t.nsDef[m]
  BY DEF Scope
<1>4. g.above[e] = t.above[e]
  BY <1>1 DEF SamePlaces
<1>5. Scope(g, n) \ {n} \subseteq Scope(g, e) /\ Scope(g, e) \subseteq Scope(g, n)
  BY <1>4 DEF Scope
<1>6. CASE p = Xml
  BY <1>6 DEF ReadBack
<1>7. CASE p # Xml
  <2>1. p \in Declarable
    BY <1>7 DEF AnyPrefix
  <2>2. g.nsDef[n][p] = NULL
    BY <2>1 DEF NoDeclaration
  <2>3. Declaring(g, n, p) = Declaring(t, e, p)
    BY <1>2, <1>3, <1>5, <2>2 DEF Declaring
  <2>4. \A m \in Declaring(t, e, p) : g.above[m] = t.above[m] /\ g.nsDef[m][p] = t.nsDef[m][p]
    BY <1>2, <1>3 DEF Declaring
  <2> QED BY <1>1, <2>3, <2>4, ReadBackSame
<1> QED BY <1>6, <1>7

\* A name with the xmlNs that was searched for is right, if its prefix is read the same there; an
\* attribute is not given the default one.
LEMMA SearchedIsFaithful ==
  ASSUME NEW t, InOrder(t), NEW e \in Allocated(t), NEW p \in AnyPrefix,
         \A m \in Scope(t, e) : Right(t, m),
         NEW g, NEW n, g.ns[n] = SearchNs(t, e, p), SearchNs(t, e, p) = NULL => p = Default,
         n \in Attributes(g) => p # Default,
         ReadBack(g, n, p) = ReadBack(t, e, p),
         \A m \in {e} \cup t.above[e] : g.nsDef[m] = t.nsDef[m]
  PROVE  Faithful(g, n)
<1> DEFINE ns == SearchNs(t, e, p)
<1>1. /\ ns = NULL => ReadBack(t, e, p) = Empty
      /\ ns # NULL => ns[2] = p /\ Href(t, ns) = ReadBack(t, e, p)
  BY SearchReadsBack DEF Right
<1>2. Points(t, e, ns)
  BY SearchFinds
<1> HIDE DEF ns
<1>3. g.ns[n] = ns /\ (ns = NULL => p = Default)
  BY DEF ns
<1>4. CASE ns = NULL
  BY <1>1, <1>3, <1>4 DEF Faithful, UriOf, PrefixOf
<1>5. CASE ns # NULL
  <2>1. Href(g, ns) = Href(t, ns)
    BY <1>2, <1>5 DEF Points, Href, Scope
  <2>2. PrefixOf(g, n) = p /\ UriOf(g, n) = ReadBack(g, n, p)
    BY <1>1, <1>3, <1>5, <2>1 DEF PrefixOf, UriOf
  <2> QED BY <2>2 DEF Faithful
<1> QED BY <1>4, <1>5

\* An element is given the xmlNs searched for from it.
LEMMA SearchedStays ==
  ASSUME NEW t, InOrder(t), NEW n \in Elements(t), NEW p \in AnyPrefix,
         SearchNs(t, n, p) = NULL => p = Default
  PROVE  Stays(t, SetNs(t, n, SearchNs(t, n, p)))
<1> DEFINE ns == SearchNs(t, n, p)
           g == SetNs(t, n, ns)
<1>1. n \in Allocated(t) /\ n \in Nodes /\ n \notin Attributes(t)
  BY DEF Elements, Allocated, Attributes
<1>2. ns \in Pointers /\ Points(t, n, ns)
  BY <1>1, SearchFinds
<1>3. InOrder(g) /\ g.kind = t.kind /\ g.above = t.above /\ g.nsDef = t.nsDef /\ g.ns[n] = ns
  BY <1>1, <1>2, SetNsInOrder
<1>4. \A m \in Nodes \ {n} : g.ns[m] = t.ns[m]
  BY DEF SetNs, InOrder, Tree
<1> HIDE DEF g
<1>5. SamePlaces(t, g) /\ Allocated(g) = Allocated(t) /\ n \notin Attributes(g)
  BY <1>1, <1>3 DEF SamePlaces, Allocated, Attributes
<1>6. ASSUME NEW m \in Allocated(g),
             \A k \in ({m} \cup g.above[m]) \cap Allocated(t) : Right(t, k)
      PROVE  Faithful(g, m)
  <2>1. m \in Allocated(t) \cap Allocated(g) /\ m \in Nodes
    BY <1>5, <1>6 DEF Allocated
  <2>2. \A k \in {m} \cup t.above[m] : Right(t, k)
    BY <1>3, <1>5, <1>6, <2>1, ScopeKept
  <2>3. CASE m # n
    BY <1>3, <1>4, <1>5, <2>1, <2>2, <2>3, FaithfulKept DEF Right
  <2>4. CASE m = n
    <3>1. ReadBack(g, n, p) = ReadBack(t, n, p)
      BY <1>3, <1>5, <2>1, <2>4, ReadBackKept
    <3>2. \A k \in Scope(t, n) : Right(t, k)
      BY <2>2, <2>4 DEF Scope
    <3> QED BY <1>1, <1>3, <1>5, <2>4, <3>1, <3>2, SearchedIsFaithful
  <2> QED BY <2>3, <2>4
<1> QED BY <1>6 DEF Stays, g

LEMMA SetNamespaceStays ==
  ASSUME AttributeNamespace \notin Uses, InOrder(tree),
         NEW n \in Nodes, NEW p \in AnyPrefix, SetNamespace(n, p)
  PROVE  tree' = tree \/ Stays(tree, tree')
<1>1. n \in Elements(tree)
  BY DEF SetNamespace
<1>2. CASE SearchNs(tree, n, p) = NULL
  BY <1>2 DEF SetNamespace, Throws
<1>3. CASE SearchNs(tree, n, p) # NULL
  <2>1. tree' = SetNs(tree, n, SearchNs(tree, n, p))
    BY <1>3 DEF SetNamespace, Ends
  <2> QED BY <1>1, <1>3, <2>1, SearchedStays
<1> QED BY <1>2, <1>3

\* A declaration that is added is one that the names in its scope may not be right with.
LEMMA DeclarationStays ==
  ASSUME NEW t, InOrder(t), NEW n \in Elements(t), NEW uri \in AnyUri, NEW p \in AnyPrefix
  PROVE  LET d == Declaration(t, n, uri, p) IN d.tree = t \/ Stays(t, d.tree)
<1> DEFINE d == Declaration(t, n, uri, p)
           g == NewNs(t, n, uri, p)
<1>1. n \in Nodes /\ n \in Allocated(t)
  BY DEF Elements, Allocated
<1>2. CASE CanDeclare(t, n, p)
  <2>1. /\ InOrder(g) /\ g.kind = t.kind /\ g.above = t.above /\ g.ns = t.ns
        /\ g.nsDef[n][p] = uri
    BY <1>2, NewNsInOrder
  <2>2. \A m \in Nodes : m # n => g.nsDef[m] = t.nsDef[m]
    BY DEF NewNs, InOrder, Tree
  <2>3. t.nsDef[n][p] = NULL
    BY <1>2 DEF CanDeclare
  <2> HIDE DEF g
  <2>4. g.nsDef[n] # t.nsDef[n]
    BY <2>1, <2>3 DEF AnyUri
  <2>5. n \in Allocated(g) /\ n \in Elements(g)
    BY <1>1, <2>1 DEF Allocated, Elements
  <2>6. SearchNs(g, n, p) \in Pointers /\ Points(g, n, SearchNs(g, n, p))
    BY <2>1, <2>5, SearchFinds
  <2>7. d.tree = g \/ d.tree = SetNs(g, n, SearchNs(g, n, p))
    BY <1>2 DEF Declaration, Declared, Redirected, g
  <2>8. /\ InOrder(d.tree) /\ d.tree.kind = t.kind /\ d.tree.above = t.above
        /\ d.tree.nsDef = g.nsDef
    BY <2>1, <2>5, <2>6, <2>7, SetNsInOrder
  <2>9. \A m \in Nodes \ {n} : d.tree.ns[m] = t.ns[m]
    BY <2>1, <2>7 DEF SetNs, InOrder, Tree
  <2> DEFINE h == d.tree
  <2> HIDE DEF d, h
  <2>10. SamePlaces(t, h) /\ Allocated(h) = Allocated(t)
    BY <2>8 DEF SamePlaces, Allocated, h
  <2>11. ASSUME NEW m \in Allocated(h),
                \A k \in ({m} \cup h.above[m]) \cap Allocated(t) :
                  Right(t, k) /\ h.nsDef[k] = t.nsDef[k]
         PROVE  Faithful(h, m)
    <3>1. m \in Allocated(t) \cap Allocated(h) /\ m \in Nodes
      BY <2>10 DEF Allocated
    <3>2. \A k \in {m} \cup t.above[m] : Right(t, k) /\ h.nsDef[k] = t.nsDef[k]
      BY <2>8, <2>10, <2>11, <3>1, ScopeKept DEF h
    <3>3. m # n
      BY <2>4, <2>8, <3>2 DEF h
    <3>4. h.ns[m] = t.ns[m]
      BY <2>9, <3>1, <3>3 DEF h
    <3> QED BY <2>8, <2>10, <3>1, <3>2, <3>4, FaithfulKept DEF Right, h
  <2> QED BY <2>11 DEF Stays, d, h
<1>3. CASE ~CanDeclare(t, n, p)
  <2>1. \/ d.tree = t
        \/ SearchNs(t, n, p) # NULL /\ d.tree = SetNs(t, n, SearchNs(t, n, p))
    BY <1>3 DEF Declaration, Declared, Redirected
  <2> QED BY <2>1, SearchedStays
<1> QED BY <1>2, <1>3

LEMMA SetNamespaceDeclarationStays ==
  ASSUME InOrder(tree), NEW n \in Nodes, NEW uri \in AnyUri, NEW p \in AnyPrefix,
         SetNamespaceDeclaration(n, uri, p)
  PROVE  tree' = tree \/ Stays(tree, tree')
<1>1. n \in Elements(tree) /\ tree' = Declaration(tree, n, uri, p).tree
  BY DEF SetNamespaceDeclaration, Ends, Throws
<1> QED BY <1>1, DeclarationStays

\* A new node, the others left alone.
LEMMA AddedStays ==
  ASSUME NEW t, InOrder(t), NEW e \in Elements(t), NEW n \in Nodes \ Allocated(t),
         NEW g, InOrder(g), Allocated(g) = Allocated(t) \cup {n}, SamePlaces(t, g),
         g.above[n] = t.above[e] \cup {e},
         \A m \in Nodes \ {n} : g.nsDef[m] = t.nsDef[m] /\ g.ns[m] = t.ns[m],
         (\A m \in {e} \cup t.above[e] : Right(t, m)) => Faithful(g, n)
  PROVE  Stays(t, g)
<1> SUFFICES ASSUME NEW m \in Allocated(g),
                    \A k \in ({m} \cup g.above[m]) \cap Allocated(t) : Right(t, k)
             PROVE  Faithful(g, m)
  BY DEF Stays
<1>1. CASE m = n
  <2>1. {e} \cup t.above[e] \subseteq Allocated(t)
    BY DEF InOrder, Nested, Elements, Allocated
  <2> QED BY <1>1, <2>1
<1>2. CASE m # n
  <2>1. m \in Allocated(t) \cap Allocated(g) /\ m \in Nodes
    BY <1>2 DEF Allocated
  <2>2. \A k \in {m} \cup t.above[m] : k \in Allocated(t) /\ k \in Nodes /\ k # n
    BY <2>1, ScopeKept DEF Allocated
  <2>3. g.above[m] = t.above[m]
    BY <2>1 DEF SamePlaces
  <2>4. \A k \in {m} \cup t.above[m] : Right(t, k) /\ g.nsDef[k] = t.nsDef[k]
    BY <2>2, <2>3
  <2>5. g.ns[m] = t.ns[m]
    BY <1>2, <2>1
  <2> QED BY <2>1, <2>4, <2>5, FaithfulKept DEF Right
<1> QED BY <1>1, <1>2

\* A new child or attribute with the xmlNs searched for from its parent, or with none.
LEMMA ChildStays ==
  ASSUME NEW t, InOrder(t), NEW e \in Elements(t), NEW n \in Nodes \ Allocated(t), NEW kind \in Kinds,
         NEW p \in AnyPrefix, NEW ns,
         \/ kind = "attribute" /\ p = Default /\ ns = NULL
         \/ /\ ns = SearchNs(t, e, p) /\ (ns = NULL => p = Default)
            /\ kind = "attribute" => p # Default
  PROVE  Stays(t, SetNs(AddNode(t, n, kind, e), n, ns))
<1> DEFINE s == AddNode(t, n, kind, e)
           g == SetNs(s, n, ns)
<1>1. e \in Nodes /\ e \in Allocated(t) /\ e # n /\ e # NULL
  BY DEF Elements, Allocated
<1>2. ns \in Pointers /\ Points(t, e, ns)
  BY <1>1, SearchFinds DEF Points, Pointers
<1>3. /\ InOrder(s) /\ Allocated(s) = Allocated(t) \cup {n}
      /\ s.nsDef = t.nsDef /\ s.ns = t.ns /\ t.nsDef[n] = NoDeclaration
      /\ s.kind[n] = kind /\ s.above[n] = t.above[e] \cup {e}
      /\ \A m \in Nodes \ {n} : s.kind[m] = t.kind[m] /\ s.above[m] = t.above[m]
  BY <1>1, AddNodeInOrder
<1>4. Points(s, n, ns)
  BY <1>2, ChildPoints
<1> HIDE DEF s
<1>5. n \in Allocated(s)
  BY <1>3
<1>6. InOrder(g) /\ g.kind = s.kind /\ g.above = s.above /\ g.nsDef = s.nsDef /\ g.ns[n] = ns
  BY <1>2, <1>3, <1>4, <1>5, SetNsInOrder
<1>7. \A m \in Nodes \ {n} : g.ns[m] = t.ns[m]
  BY <1>3 DEF SetNs, InOrder, Tree
<1> HIDE DEF g
<1>8. Allocated(g) = Allocated(t) \cup {n}
  BY <1>3, <1>6 DEF Allocated
<1>9. SamePlaces(t, g)
  BY <1>3, <1>6 DEF SamePlaces, Allocated
<1>10. n \in Attributes(g) <=> kind = "attribute"
  BY <1>3, <1>6 DEF Attributes
<1>11. ASSUME \A m \in {e} \cup t.above[e] : Right(t, m)
       PROVE  Faithful(g, n)
  <2>1. CASE kind = "attribute" /\ p = Default /\ ns = NULL
    BY <1>6, <1>10, <2>1 DEF Faithful, UriOf, PrefixOf
  <2>2. CASE /\ ns = SearchNs(t, e, p) /\ (ns = NULL => p = Default)
             /\ kind = "attribute" => p # Default
    <3>1. e \in Allocated(g)
      BY <1>1, <1>8
    <3>2. ReadBack(g, n, p) = ReadBack(t, e, p)
      BY <1>3, <1>6, <1>9, <3>1, ReadBackOfChild
    <3>3. \A m \in Scope(t, e) : Right(t, m)
      BY <1>11 DEF Scope
    <3> QED BY <1>1, <1>3, <1>6, <1>10, <2>2, <3>2, <3>3, SearchedIsFaithful
  <2> QED BY <2>1, <2>2
<1>12. \A m \in Nodes \ {n} : g.nsDef[m] = t.nsDef[m] /\ g.ns[m] = t.ns[m]
  BY <1>3, <1>6, <1>7
<1>13. g.above[n] = t.above[e] \cup {e}
  BY <1>3, <1>6
<1>14. Stays(t, g)
  BY <1>6, <1>8, <1>9, <1>11, <1>12, <1>13, AddedStays
<1> QED BY <1>14 DEF g, s

LEMMA AddChildElementStays ==
  ASSUME InOrder(tree), NEW e \in Nodes, NEW p \in AnyPrefix, AddChildElement(e, p)
  PROVE  tree' = tree \/ Stays(tree, tree')
<1> DEFINE ns == SearchNs(tree, e, p)
<1>1. CASE ns = NULL /\ p # Default
  BY <1>1 DEF AddChildElement, Throws
<1>2. CASE ~(ns = NULL /\ p # Default)
  <2>1. e \in Elements(tree)
    BY DEF AddChildElement
  <2>2. PICK n \in Nodes \ Allocated(tree) : tree' = SetNs(AddNode(tree, n, "element", e), n, ns)
    BY <1>2 DEF AddChildElement, Ends
  <2> QED BY <1>2, <2>1, <2>2, ChildStays DEF Kinds
<1> QED BY <1>1, <1>2

\* A node is right if its own declaration is the one it points to.
LEMMA OwnIsFaithful ==
  ASSUME NEW g, InOrder(g), NEW n \in Elements(g), NEW p \in Declarable, NEW uri \in AnyUri,
         g.nsDef[n][p] = uri, g.ns[n] = <<n, p>>
  PROVE  Faithful(g, n)
<1>1. n \in Nodes /\ n \notin Attributes(g)
  BY DEF Elements, Attributes
<1>2. p # Xml /\ <<n, p>> # XmlNs /\ <<n, p>> # NULL /\ <<n, p>>[1] = n /\ <<n, p>>[2] = p
  BY <1>1 DEF XmlNs, AnyPrefix, Declarable, Xml, Default
<1>3. PrefixOf(g, n) = p /\ UriOf(g, n) = uri
  BY <1>2 DEF PrefixOf, UriOf, Href
<1>4. n \in Declaring(g, n, p)
  BY DEF Declaring, Scope, AnyUri
<1>5. \A k \in Declaring(g, n, p) \ {n} : k \in g.above[n]
  BY DEF Declaring, Scope
<1>6. ReadBack(g, n, p) = g.nsDef[n][p]
  BY <1>1, <1>2, <1>4, <1>5, ReadBackInner
<1> QED BY <1>1, <1>3, <1>6 DEF Faithful

\* The prefix "xml" is read the same everywhere.
LEMMA XmlIsFaithful ==
  ASSUME NEW g, NEW n, g.ns[n] = XmlNs
  PROVE  Faithful(g, n)
<1>1. XmlNs # NULL /\ XmlNs[2] = Xml
  BY DEF XmlNs, AnyPrefix
<1>2. PrefixOf(g, n) = Xml /\ UriOf(g, n) = XmlUri
  BY <1>1 DEF PrefixOf, UriOf, Href
<1> QED BY <1>2 DEF Faithful, ReadBack, Xml, Default

LEMMA AddChildElementWithNewNsStays ==
  ASSUME InOrder(tree), InOrder(tree'), NEW e \in Nodes, NEW uri \in AnyUri, NEW p \in AnyPrefix,
         AddChildElementWithNewNs(e, uri, p)
  PROVE  tree' = tree \/ Stays(tree, tree')
<1>1. CASE p = Xml /\ uri # XmlUri
  BY <1>1 DEF AddChildElementWithNewNs, Throws
<1>2. CASE ~(p = Xml /\ uri # XmlUri)
  <2>1. e \in Elements(tree) /\ e # NULL
    BY DEF AddChildElementWithNewNs, Elements
  <2>2. PICK n \in Nodes \ Allocated(tree) :
          LET t == AddNode(tree, n, "element", e) IN
          tree' = IF p = Xml THEN SetNs(t, n, XmlNs) ELSE SetNs(NewNs(t, n, uri, p), n, <<n, p>>)
    BY <1>2 DEF AddChildElementWithNewNs, Ends
  <2> DEFINE t == AddNode(tree, n, "element", e)
  <2>3. /\ InOrder(t) /\ Allocated(t) = Allocated(tree) \cup {n}
        /\ t.nsDef = tree.nsDef /\ t.ns = tree.ns
        /\ t.kind[n] = "element" /\ t.above[n] = tree.above[e] \cup {e}
        /\ \A m \in Nodes \ {n} : t.kind[m] = tree.kind[m] /\ t.above[m] = tree.above[m]
    BY <2>1, AddNodeInOrder DEF Kinds
  <2>4. t.nsDef[n] = NoDeclaration
    BY <2>1, AddNodeInOrder DEF Kinds
  <2> HIDE DEF t
  <2>5. tree' = IF p = Xml THEN SetNs(t, n, XmlNs) ELSE SetNs(NewNs(t, n, uri, p), n, <<n, p>>)
    BY <2>2 DEF t
  <2>6. /\ tree'.kind = t.kind /\ tree'.above = t.above
        /\ \A m \in Nodes \ {n} : tree'.nsDef[m] = t.nsDef[m] /\ tree'.ns[m] = t.ns[m]
        /\ p = Xml => tree'.ns[n] = XmlNs
        /\ p # Xml => tree'.ns[n] = <<n, p>> /\ tree'.nsDef[n][p] = uri
    <3>1. t \in Tree /\ n \in Nodes
      BY <2>3 DEF InOrder
    <3>2. CASE p = Xml
      BY <2>5, <3>1, <3>2 DEF SetNs, Tree
    <3>3. CASE p # Xml
      <4>1. p \in Declarable
        BY <3>3 DEF AnyPrefix
      <4> QED BY <2>5, <3>1, <3>3, <4>1 DEF SetNs, NewNs, Tree
    <3> QED BY <3>2, <3>3
  <2>7. Faithful(tree', n)
    <3>1. CASE p = Xml
      BY <2>6, <3>1, XmlIsFaithful
    <3>2. CASE p # Xml
      <4>1. p \in Declarable /\ n \in Elements(tree')
        BY <2>3, <2>6, <3>2 DEF AnyPrefix, Elements
      <4> QED BY <2>6, <3>2, <4>1, OwnIsFaithful
    <3> QED BY <3>1, <3>2
  <2>8. Allocated(tree') = Allocated(tree) \cup {n} /\ SamePlaces(tree, tree')
    BY <2>3, <2>6 DEF Allocated, SamePlaces
  <2>9. \A m \in Nodes \ {n} : tree'.nsDef[m] = tree.nsDef[m] /\ tree'.ns[m] = tree.ns[m]
    BY <2>3, <2>6
  <2>10. tree'.above[n] = tree.above[e] \cup {e}
    BY <2>3, <2>6
  <2> QED BY <2>1, <2>7, <2>8, <2>9, <2>10, AddedStays
<1> QED BY <1>1, <1>2

\* The new root is right whatever is above it: nothing is.
LEMMA CreateRootNodeStays ==
  ASSUME InOrder(tree), InOrder(tree'), NEW uri \in AnyUri, NEW p \in AnyPrefix,
         CreateRootNode(uri, p)
  PROVE  Stays(tree, tree')
<1>1. PICK n \in Nodes \ Allocated(tree) :
        LET t == FreeNodes(AddNode(tree, n, "element", NULL), Allocated(tree))
            d == Declaration(t, n, uri, p) IN
        IF uri = Empty THEN tree' = t
        ELSE IF d.ok THEN tree' = SetNs(d.tree, n, SearchNs(d.tree, n, p))
        ELSE tree' = d.tree
  BY DEF CreateRootNode, Ends, Throws
<1> DEFINE s == AddNode(tree, n, "element", NULL)
           t == FreeNodes(s, Allocated(tree))
           d == Declaration(t, n, uri, p)
<1>2. /\ InOrder(s) /\ Allocated(s) = Allocated(tree) \cup {n} /\ s.kind[n] = "element"
      /\ s.above[n] = {} /\ s.nsDef = tree.nsDef /\ s.ns = tree.ns
      /\ tree.ns[n] = NULL /\ tree.nsDef[n] = NoDeclaration
      /\ \A m \in Nodes \ {n} : s.above[m] = tree.above[m]
  BY AddNodeInOrder DEF Kinds
<1>3. \A m \in Nodes \ Allocated(tree) : s.above[m] \cap Allocated(tree) = {}
  BY <1>2 DEF InOrder, Nested
<1> HIDE DEF s
<1>4. /\ InOrder(t) /\ Allocated(t) = {n} /\ t.kind[n] = "element" /\ t.above[n] = {}
      /\ t.nsDef[n] = NoDeclaration /\ t.ns[n] = NULL
  <2>1. Allocated(tree) \in SUBSET Nodes
    BY DEF Allocated
  <2>2. InOrder(t) /\ Allocated(t) = Allocated(s) \ Allocated(tree)
    BY <1>2, <1>3, <2>1, FreeNodesInOrder
  <2>3. \A m \in Allocated(t) : t.kind[m] = s.kind[m] /\ t.above[m] = s.above[m]
    BY <1>2, <1>3, <2>1, FreeNodesInOrder
  <2>4. t.nsDef[n] = s.nsDef[n] /\ t.ns[n] = s.ns[n]
    BY <1>2, <1>3, <2>1, FreeNodesInOrder
  <2> QED BY <1>2, <2>2, <2>3, <2>4
<1> HIDE DEF t
<1>5. /\ n \in Elements(t) /\ n \in Nodes /\ t \in Tree /\ Scope(t, n) = {n}
  BY <1>4 DEF Elements, InOrder, Scope
<1>6. IF uri = Empty THEN tree' = t
      ELSE IF d.ok THEN tree' = SetNs(d.tree, n, SearchNs(d.tree, n, p))
      ELSE tree' = d.tree
  BY <1>1 DEF s, t
<1>7. d.tree.kind = t.kind /\ d.tree \in Tree
  BY <1>4, <1>5, DeclarationKeeps DEF Keeps, InOrder
<1>8. tree'.kind = t.kind
  <2> HIDE DEF d
  <2>1. tree' \in {t, d.tree, SetNs(d.tree, n, SearchNs(d.tree, n, p))}
    BY <1>6
  <2>2. ASSUME NEW ns
        PROVE  SetNs(d.tree, n, ns).kind = d.tree.kind
    BY <1>7 DEF SetNs, Tree
  <2> QED BY <1>7, <2>1, <2>2
<1>9. Allocated(tree') = {n} /\ n \in Elements(tree')
  BY <1>4, <1>5, <1>8 DEF Allocated, Elements
<1>10. t.ns[n] = NULL /\ \A q \in Declarable : t.nsDef[n][q] = NULL
  BY <1>4 DEF NoDeclaration
<1>11. Faithful(t, n)
  <2>1. Declaring(t, n, Default) = {}
    BY <1>5, <1>10 DEF Declaring, Declarable
  <2>2. ReadBack(t, n, Default) = Empty
    BY <2>1, ReadBackNone DEF Default, Xml
  <2> QED BY <1>10, <2>2 DEF Faithful, UriOf, PrefixOf
<1>12. CASE uri = Empty
  BY <1>6, <1>9, <1>11, <1>12 DEF Stays
<1>13. CASE uri # Empty /\ p = Xml
  <2>1. ~CanDeclare(t, n, p) /\ Xml # Default
    BY <1>13 DEF CanDeclare, Xml, Default
  <2>2. PrefixOf(t, n) = Default
    BY <1>10 DEF PrefixOf
  <2>3. d.tree = t
    BY <1>13, <2>1, <2>2 DEF Declaration, Declared, Redirected
  <2>4. SearchNs(t, n, p) = XmlNs
    BY <1>13 DEF SearchNs
  <2>5. tree' = t \/ tree' = SetNs(t, n, XmlNs)
    BY <1>6, <1>13, <2>3, <2>4
  <2>6. SetNs(t, n, XmlNs).ns[n] = XmlNs
    BY <1>5 DEF SetNs, Tree
  <2>7. Faithful(tree', n)
    BY <1>11, <2>5, <2>6, XmlIsFaithful
  <2> QED BY <1>9, <2>7 DEF Stays
<1>14. CASE uri # Empty /\ p # Xml
  <2> DEFINE g == NewNs(t, n, uri, p)
  <2>1. p \in Declarable /\ CanDeclare(t, n, p)
    BY <1>10, <1>14 DEF AnyPrefix, CanDeclare
  <2>2. /\ InOrder(g) /\ g.kind = t.kind /\ g.above = t.above /\ g.ns = t.ns
        /\ g.nsDef[n][p] = uri
    BY <1>4, <1>5, <2>1, NewNsInOrder
  <2> HIDE DEF g
  <2>3. n \in Elements(g) /\ n \in Allocated(g) /\ Scope(g, n) = {n}
    BY <1>4, <1>5, <2>2 DEF Elements, Allocated, Scope
  <2>4. ASSUME NEW h, InOrder(h), h.kind = t.kind, h.above = t.above, h.nsDef = g.nsDef
        PROVE  SearchNs(h, n, p) = <<n, p>>
    <3>1. n \in Nodes /\ Scope(h, n) = {n} /\ Declares(h, n, p) /\ Nested(h) /\ h \in Tree
      BY <1>4, <1>5, <1>14, <2>2, <2>4 DEF Scope, Elements, Declares, AnyUri, InOrder
    <3> DEFINE found == {m \in Scope(h, n) : p \in Declarable /\ (Declares(h, m, p) \/ IsIn(h, n, m, p))}
    <3>2. found = {n}
      BY <2>1, <3>1
    <3> HIDE DEF found
    <3>3. Innermost(h, found) = n
      BY <3>1, <3>2, InnermostUnique
    <3> QED BY <1>14, <3>1, <3>2, <3>3 DEF SearchNs, found
  <2>5. SearchNs(g, n, p) = <<n, p>> /\ <<n, p>> # NULL
    BY <1>5, <2>2, <2>4
  <2>6. d.ok /\ (d.tree = g \/ d.tree = SetNs(g, n, <<n, p>>))
    BY <2>1, <2>5 DEF Declaration, Declared, Redirected, g
  <2>7. /\ <<n, p>> \in Pointers /\ <<n, p>>[1] = n /\ Points(g, n, <<n, p>>)
    BY <1>5, <2>1, <2>2, <2>3 DEF Pointers, Points, Href, AnyUri
  <2>8. /\ InOrder(d.tree) /\ d.tree.kind = t.kind /\ d.tree.above = t.above
        /\ d.tree.nsDef = g.nsDef
    BY <2>2, <2>3, <2>6, <2>7, SetNsInOrder
  <2>9. tree' = SetNs(d.tree, n, <<n, p>>)
    BY <1>6, <1>14, <2>4, <2>6, <2>8
  <2>10. tree'.ns[n] = <<n, p>> /\ tree'.nsDef = g.nsDef
    BY <1>5, <2>8, <2>9 DEF SetNs, Tree, InOrder
  <2>11. Faithful(tree', n)
    BY <1>9, <2>1, <2>2, <2>10, OwnIsFaithful
  <2> QED BY <1>9, <2>11 DEF Stays
<1> QED BY <1>12, <1>13, <1>14

\* What is left when whole subtrees are freed is as it was.
LEMMA FreedStays ==
  ASSUME NEW t, InOrder(t), NEW S \in SUBSET Nodes,
         \A m \in Nodes \ S : t.above[m] \cap S = {}
  PROVE  Stays(t, FreeNodes(t, S))
<1> DEFINE g == FreeNodes(t, S)
<1>1. /\ InOrder(g) /\ Allocated(g) = Allocated(t) \ S
      /\ \A m \in Allocated(g) : g.kind[m] = t.kind[m] /\ g.above[m] = t.above[m]
      /\ \A m \in Nodes \ S : g.nsDef[m] = t.nsDef[m] /\ g.ns[m] = t.ns[m]
  BY FreeNodesInOrder
<1> HIDE DEF g
<1>2. SamePlaces(t, g)
  BY <1>1 DEF SamePlaces
<1>3. ASSUME NEW m \in Allocated(g),
             \A k \in ({m} \cup g.above[m]) \cap Allocated(t) : Right(t, k)
      PROVE  Faithful(g, m)
  <2>1. m \in Allocated(t) \cap Allocated(g) /\ m \in Nodes \ S /\ g.above[m] = t.above[m]
    BY <1>1 DEF Allocated
  <2>2. \A k \in {m} \cup t.above[m] : k \in Allocated(t) /\ k \in Nodes \ S
    BY <1>1, <1>2, <2>1, ScopeKept DEF Allocated
  <2>3. \A k \in {m} \cup t.above[m] : Right(t, k) /\ g.nsDef[k] = t.nsDef[k]
    BY <1>1, <1>3, <2>1, <2>2
  <2>4. g.ns[m] = t.ns[m]
    BY <1>1, <2>1
  <2> QED BY <1>1, <1>2, <2>1, <2>3, <2>4, FaithfulKept DEF Right
<1> QED BY <1>3 DEF Stays, g

LEMMA RemovedStays ==
  ASSUME InOrder(tree), NEW n \in Nodes, NEW p \in AnyPrefix,
         RemoveNode(n) \/ RemoveAttribute(n, p)
  PROVE  tree' = tree \/ Stays(tree, tree')
<1>1. CASE tree' = FreeNodes(tree, Subtree(tree, n))
  <2> DEFINE S == Subtree(tree, n)
  <2>1. S \in SUBSET Nodes /\ \A m \in Nodes \ S : tree.above[m] \cap S = {}
    BY DEF Subtree, InOrder, Nested
  <2> HIDE DEF S
  <2> QED BY <1>1, <2>1, FreedStays DEF S
<1>2. CASE \E a \in Removes(tree, n, p) : tree' = FreeNodes(tree, {a})
  <2>1. PICK a \in Removes(tree, n, p) : tree' = FreeNodes(tree, {a})
    BY <1>2
  <2>2. a \in Attributes(tree)
    BY DEF Removes, HasNsProp, AttributesOf
  <2>3. a \in Nodes /\ a \notin Elements(tree)
    BY <2>2 DEF Attributes, Elements
  <2>4. \A m \in Nodes \ {a} : tree.above[m] \cap {a} = {}
    BY <2>3 DEF InOrder, Nested
  <2> QED BY <2>1, <2>3, <2>4, FreedStays
<1> QED BY <1>1, <1>2 DEF RemoveNode, RemoveAttribute, Ends

LEMMA SetAttributeStays ==
  ASSUME InOrder(tree), InOrder(tree'), NEW e \in Nodes, NEW p \in AnyPrefix, SetAttribute(e, p)
  PROVE  tree' = tree \/ Stays(tree, tree')
<1> DEFINE ns == IF p = Default THEN NULL ELSE SearchNs(tree, e, p)
           old == Sets(tree, e, p)
<1>1. e \in Elements(tree) /\ e \in Allocated(tree)
  BY DEF SetAttribute, Elements, Allocated
<1>2. CASE p # Default /\ ns = NULL
  BY <1>2 DEF SetAttribute, Throws
<1>3. CASE /\ p = Default \/ ns # NULL
           /\ \E a \in old : tree' = SetNs(tree, a, ns)
  <2>1. old = HasNsProp(tree, e, UriOfPointer(tree, ns))
    BY <1>1, <1>3, SetsWithUri
  <2>2. PICK a \in old : tree' = SetNs(tree, a, ns)
    BY <1>3
  <2> HIDE DEF old
  <2>3. a \in Attributes(tree) /\ tree.above[a] = tree.above[e] \cup {e}
    BY <2>1 DEF HasNsProp, AttributesOf
  <2>4. a \in Nodes /\ a \notin Elements(tree) /\ a \in Allocated(tree)
    BY <2>3 DEF Attributes, Elements, Allocated
  <2>5. /\ tree'.kind = tree.kind /\ tree'.above = tree.above /\ tree'.nsDef = tree.nsDef
        /\ tree'.ns[a] = ns /\ \A m \in Nodes \ {a} : tree'.ns[m] = tree.ns[m]
    BY <2>2, <2>4 DEF SetNs, InOrder, Tree
  <2>6. Allocated(tree') = Allocated(tree) /\ SamePlaces(tree, tree')
    BY <2>5 DEF Allocated, SamePlaces
  <2>7. tree'.nsDef[a] = NoDeclaration
    BY <2>4, <2>5 DEF InOrder, Nested
  <2>8. ReadBack(tree', a, p) = ReadBack(tree, e, p)
    BY <1>1, <2>3, <2>4, <2>5, <2>6, <2>7, ReadBackOfChild
  <2>9. ASSUME NEW m \in Allocated(tree'),
               \A k \in ({m} \cup tree'.above[m]) \cap Allocated(tree) : Right(tree, k)
        PROVE  Faithful(tree', m)
    <3>1. m \in Allocated(tree) \cap Allocated(tree') /\ m \in Nodes
      BY <2>6 DEF Allocated
    <3>2. \A k \in {m} \cup tree.above[m] : Right(tree, k)
      BY <2>5, <2>6, <2>9, <3>1, ScopeKept
    <3>3. CASE m # a
      BY <2>5, <2>6, <3>1, <3>2, <3>3, FaithfulKept DEF Right
    <3>4. CASE m = a /\ p = Default
      BY <2>3, <2>5, <3>4 DEF Faithful, UriOf, PrefixOf, Attributes
    <3>5. CASE m = a /\ p # Default
      <4>1. \A k \in Scope(tree, e) : Right(tree, k)
        BY <2>3, <3>2, <3>5 DEF Scope
      <4>2. tree'.ns[a] = SearchNs(tree, e, p) /\ SearchNs(tree, e, p) # NULL
        BY <1>3, <2>5, <3>5
      <4> QED BY <1>1, <2>5, <2>8, <3>5, <4>1, <4>2, SearchedIsFaithful
    <3> QED BY <3>3, <3>4, <3>5
  <2> QED BY <2>9 DEF Stays
<1>4. CASE /\ p = Default \/ ns # NULL
           /\ \E a \in Nodes \ Allocated(tree) :
                tree' = SetNs(AddNode(tree, a, "attribute", e), a, ns)
  <2>1. PICK a \in Nodes \ Allocated(tree) :
          tree' = SetNs(AddNode(tree, a, "attribute", e), a, ns)
    BY <1>4
  <2>2. CASE p = Default
    BY <1>1, <2>1, <2>2, ChildStays DEF Kinds
  <2>3. CASE p # Default
    BY <1>1, <1>4, <2>1, <2>3, ChildStays DEF Kinds
  <2> QED BY <2>2, <2>3
<1> QED BY <1>2, <1>3, <1>4 DEF SetAttribute, Ends

\* Every step, if attributes keep their namespaces.
LEMMA StepStays ==
  ASSUME AttributeNamespace \notin Uses, InOrder(tree), Next
  PROVE  tree' = tree \/ Stays(tree, tree')
<1>0. InOrder(tree')
  BY StepKeeps DEF Keeps
<1>1. ASSUME NEW n \in Nodes, NEW p \in AnyPrefix,
             \/ SetNamespace(n, p) \/ AddChildElement(n, p)
             \/ SetAttribute(n, p) \/ RemoveAttribute(n, p)
      PROVE  tree' = tree \/ Stays(tree, tree')
  BY <1>0, <1>1, SetNamespaceStays, AddChildElementStays, SetAttributeStays, RemovedStays
<1>2. ASSUME NEW n \in Nodes, NEW uri \in AnyUri, NEW p \in AnyPrefix,
             SetNamespaceDeclaration(n, uri, p) \/ AddChildElementWithNewNs(n, uri, p)
      PROVE  tree' = tree \/ Stays(tree, tree')
  BY <1>0, <1>2, SetNamespaceDeclarationStays, AddChildElementWithNewNsStays
<1>3. ASSUME NEW uri \in AnyUri, NEW p \in AnyPrefix, CreateRootNode(uri, p)
      PROVE  Stays(tree, tree')
  BY <1>0, <1>3, CreateRootNodeStays
<1>4. ASSUME NEW n \in Nodes, RemoveNode(n)
      PROVE  tree' = tree \/ Stays(tree, tree')
  BY <1>4, RemovedStays DEF AnyPrefix
<1> QED BY <1>1, <1>2, <1>3, <1>4 DEF Next

-----------------------------------------------------------------------------
(* Theorems.                                                               *)

\* NsInv is InOrder with threw.
LEMMA NsInvIsInOrder == NsInv <=> InOrder(tree) /\ threw \in BOOLEAN
  BY DEF NsInv, NsTypeOK, InScope, InOrder, Points

\* No node outlives the xmlNs it points to, whatever the caller does
\* (Element::create_new_child_element_node, set_attribute, Node::set_namespace).
THEOREM NsInvHolds == Spec => []NsInv
<1>1. Init => NsInv
  BY InitInOrder, NsInvIsInOrder DEF Init
<1>2. NsInv /\ [Next]_vars => NsInv'
  <2> SUFFICES ASSUME NsInv, [Next]_vars
               PROVE  NsInv'
    OBVIOUS
  <2>1. InOrder(tree')
    BY NsInvIsInOrder, StepKeeps DEF Keeps
  <2>2. threw' \in BOOLEAN
    BY NsInvIsInOrder DEF Next, vars, Ends, Throws, SetNamespace, SetNamespaceDeclaration,
       AddChildElement, AddChildElementWithNewNs, CreateRootNode, RemoveNode, SetAttribute,
       RemoveAttribute
  <2> QED BY <2>1, <2>2 DEF NsInv, NsTypeOK, InScope, InOrder, Points
<1> QED BY <1>1, <1>2, PTL DEF Spec

\* However an attribute is searched for, the same URI decides.
LEMMA SameAttributeFound ==
  ASSUME InOrder(tree)
  PROVE  SameAttribute
<1> SUFFICES ASSUME NEW e \in Elements(tree), NEW p \in AnyPrefix
             PROVE  Gets(tree, e, p) = Removes(tree, e, p) /\ Gets(tree, e, p) = Sets(tree, e, p)
  BY DEF SameAttribute
<1> DEFINE ns == SearchNs(tree, e, p)
<1>1. ns # NULL => Href(tree, ns) \notin {NULL, Empty}
  BY SearchFinds DEF Elements, Allocated
<1> HIDE DEF ns
<1>2. CASE p = Default
  BY <1>2 DEF Gets, Removes, Sets
<1>3. CASE p # Default /\ ns = NULL
  BY <1>3 DEF Gets, Removes, Sets, UriForPrefix, ns
<1>4. CASE p # Default /\ ns # NULL
  BY <1>1, <1>4 DEF Gets, Removes, Sets, UriForPrefix, ns
<1> QED BY <1>2, <1>3, <1>4

\* All methods agree on which attribute a name is that of, as long as the caller gives no
\* attribute another namespace (Element::get_attribute, set_attribute, remove_attribute,
\* AttributeNode::get_value2, set_value).
THEOREM AttributesAgreeHolds ==
  ASSUME AttributeNamespace \notin Uses
  PROVE  Spec => []AttributesAgree
<1>1. Init => Distinct(tree)
  BY InitInOrder
<1>2. NsInv /\ Distinct(tree) /\ [Next]_vars => Distinct(tree)'
  <2> SUFFICES ASSUME NsInv, Distinct(tree), [Next]_vars
               PROVE  Distinct(tree')
    BY DEF Distinct, Attributes, UriOf, Href
  <2> QED BY NsInvIsInOrder, StepKeeps DEF Keeps
<1>3. NsInv /\ Distinct(tree) => AttributesAgree
  <2> SUFFICES ASSUME NsInv, Distinct(tree)
               PROVE  AttributesAgree
    OBVIOUS
  <2>1. SameAttribute
    BY NsInvIsInOrder, SameAttributeFound
  <2>2. OwnValue
    BY DEF OwnValue, FoundAs, Distinct
  <2> QED BY <2>1, <2>2 DEF AttributesAgree
<1> QED BY <1>1, <1>2, <1>3, NsInvHolds, PTL DEF Spec

\* A call that throws has left the tree as it was, but for two (Document::create_root_node,
\* Element::set_namespace_declaration).
THEOREM FailureLeavesNoTraceHolds == Spec => FailureLeavesNoTrace
<1> DEFINE Step == threw' =>
             \/ tree' = tree
             \/ \E n \in Nodes : Allocated(tree') = {n} /\ n \notin Allocated(tree)
             \/ \E n \in Elements(tree), p \in Declarable : tree' = NewNs(tree, n, Empty, p)
<1>1. NsInv /\ [Next]_vars => [Step]_vars
  BY NsInvIsInOrder, StepKeeps DEF Trace
<1> HIDE DEF Step
<1>2. Spec => [][Step]_vars
  BY <1>1, NsInvHolds, PTL DEF Spec
<1> QED BY <1>2 DEF FailureLeavesNoTrace, Step

\* No call makes a name wrong, or adds a wrong one, where what is above it is right and no
\* declaration changes, as long as the caller gives no attribute another namespace
\* (Node::set_namespace, Element::set_namespace_declaration, create_new_child_element_node,
\* set_attribute, Document::create_root_node).
THEOREM NamesStayFaithfulHolds ==
  ASSUME AttributeNamespace \notin Uses
  PROVE  Spec => NamesStayFaithful
<1> DEFINE Step == \A n \in Allocated(tree') : ~Faithful(tree', n) =>
             \E m \in ({n} \cup tree'.above[n]) \cap Allocated(tree) :
               ~Faithful(tree, m) \/ ~Plain(tree, m) \/ tree'.nsDef[m] # tree.nsDef[m]
<1>1. NsInv /\ [Next]_vars => [Step]_vars
  <2> SUFFICES ASSUME NsInv, Next
               PROVE  Step
    OBVIOUS
  <2>1. CASE tree' = tree
    BY <2>1
  <2>2. CASE Stays(tree, tree')
    BY <2>2 DEF Stays, Right
  <2> QED BY <2>1, <2>2, NsInvIsInOrder, StepStays
<1> HIDE DEF Step
<1>2. Spec => [][Step]_vars
  BY <1>1, NsInvHolds, PTL DEF Spec
<1> QED BY <1>2 DEF NamesStayFaithful, Step
=============================================================================
