------------------------ MODULE NodeWrappersProofs ------------------------
(***************************************************************************)
(* Nodes and wrappers, for every set of addresses and as long as the       *)
(* caller does not look below attributes: the steps that libxml++ is made  *)
(* of keep the heap in order (the lemmas), so every method does.           *)
(***************************************************************************)
EXTENDS NodeWrappers, TLAPS

TextUnwrapped(h) == \A n \in Nodes : InAttribute(h, n) => h.private[n] = NULL

\* A heap in order.
InOrder(h) ==
  /\ h \in Heap /\ Forest(h) /\ Placed(h) /\ ObjectsLinked(h) /\ PrivateLinked(h)
  /\ TextUnwrapped(h)

Decls == {"attribute_decl", "entity_decl"}

\* The arrangement of new nodes among themselves.
Arrangement(N, k, a) ==
  /\ k \in [N -> Kinds] /\ a \in [N -> SUBSET N]
  /\ \A n \in N : n \notin a[n] /\ \A m \in a[n] : a[m] \subseteq a[n]
  /\ \A n \in N : \A m, i \in a[n] : m = i \/ m \in a[i] \/ i \in a[m]

\* Nodes P that may be above new ones: a node and all above it.
Branch(h, P) ==
  /\ P \subseteq Allocated(h) /\ \A m \in P : h.above[m] \subseteq P
  /\ \A m, i \in P : m = i \/ m \in h.above[i] \/ i \in h.above[m]

-----------------------------------------------------------------------------
(* The operators of NodeHeap.                                              *)

\* What the new nodes N are in heap g, which came from h.
Grafted(h, g, N, k, a, P) ==
  /\ InOrder(g) /\ g.private = h.private /\ g.object = h.object
  /\ \A n \in N : g.kind[n] = k[n] /\ g.above[n] = a[n] \cup P
  /\ \A n \in Nodes \ N : g.kind[n] = h.kind[n] /\ g.above[n] = h.above[n]

\* Graft() keeps the heap in order, if declarations go into a DTD only.
LEMMA GraftInOrder ==
  ASSUME NEW h, InOrder(h), NEW N \in SUBSET Free(h), NEW k, NEW a, NEW P,
         Arrangement(N, k, a), Branch(h, P),
         \A n \in N : /\ k[n] = "dtd" => a[n] = {} /\ P = {}
                      /\ k[n] \in Decls => a[n] = {} /\ \A m \in P : h.kind[m] = "dtd"
                      /\ k[n] = "attribute" => /\ \A m \in P : h.kind[m] # "attribute"
                                               /\ \A m \in a[n] : k[m] # "attribute"
  PROVE  Grafted(h, Graft(h, N, k, a, P), N, k, a, P)
<1> DEFINE g == Graft(h, N, k, a, P)
<1>1. /\ h \in Heap /\ N \in SUBSET Nodes /\ P \in SUBSET Nodes
      /\ k \in [N -> Kinds] /\ a \in [N -> SUBSET N]
  BY DEF InOrder, Free, Branch, Allocated, Arrangement
<1>2. /\ g \in Heap /\ g.private = h.private /\ g.object = h.object
      /\ \A n \in N : g.kind[n] = k[n] /\ g.above[n] = a[n] \cup P
      /\ \A n \in Nodes \ N : g.kind[n] = h.kind[n] /\ g.above[n] = h.above[n]
  BY <1>1 DEF Graft, Heap, Arrangement
<1>3. /\ \A n \in N : h.kind[n] = "free" /\ h.above[n] = {} /\ h.private[n] = NULL
      /\ \A n \in Nodes : h.above[n] \cap N = {}
      /\ P \cap N = {}
      /\ "free" \notin Kinds
  BY DEF InOrder, Forest, Free, Branch, Allocated, Kinds
<1> HIDE DEF g
<1>4. Forest(g)
  <2> SUFFICES ASSUME NEW n \in Nodes
      PROVE /\ g.kind[n] = "free" => g.above[n] = {} /\ g.private[n] = NULL
            /\ n \notin g.above[n]
            /\ \A m \in g.above[n] : g.kind[m] # "free" /\ g.above[m] \subseteq g.above[n]
            /\ \A m, i \in g.above[n] : m = i \/ m \in g.above[i] \/ i \in g.above[m]
    BY DEF Forest
  <2>1. CASE n \in N
    <3>1. g.kind[n] # "free" /\ n \notin g.above[n]
      BY <1>1, <1>2, <1>3, <2>1 DEF Arrangement
    <3>2. ASSUME NEW m \in a[n] PROVE g.kind[m] # "free" /\ g.above[m] \subseteq g.above[n]
      BY <1>1, <1>2, <1>3, <2>1 DEF Arrangement
    <3>3. ASSUME NEW m \in P PROVE g.kind[m] # "free" /\ g.above[m] \subseteq g.above[n]
      BY <1>1, <1>2, <1>3, <2>1 DEF Branch, Allocated, Free
    <3>4. /\ g.above[n] = a[n] \cup P /\ a[n] \subseteq N
          /\ \A m \in N : g.above[m] = a[m] \cup P
          /\ \A m \in P : g.above[m] = h.above[m]
      BY <1>1, <1>2, <1>3, <2>1
    <3>5. ASSUME NEW m \in g.above[n], NEW i \in g.above[n]
          PROVE  m = i \/ m \in g.above[i] \/ i \in g.above[m]
      <4>1. CASE m \in a[n] /\ i \in a[n]
        BY <2>1, <3>4, <4>1 DEF Arrangement
      <4>2. CASE m \in P /\ i \in P
        BY <3>4, <4>2 DEF Branch
      <4>3. CASE (m \in a[n] /\ i \in P) \/ (m \in P /\ i \in a[n])
        BY <3>4, <4>3
      <4> QED BY <3>4, <4>1, <4>2, <4>3
    <3> QED BY <1>2, <2>1, <3>1, <3>2, <3>3, <3>5
  <2>2. CASE n \notin N
    BY <1>1, <1>2, <1>3, <2>2 DEF InOrder, Forest, Heap
  <2> QED BY <2>1, <2>2
<1>5. Placed(g)
  <2> SUFFICES ASSUME NEW n \in Nodes
      PROVE /\ g.kind[n] = "dtd" => g.above[n] = {}
            /\ g.kind[n] \in Decls => \A m \in g.above[n] : g.kind[m] = "dtd"
            /\ g.kind[n] = "attribute" => \A m \in g.above[n] : g.kind[m] # "attribute"
    BY DEF Placed, Decls, InAttribute
  <2>1. CASE n \in N
    BY <1>1, <1>2, <1>3, <2>1
  <2>2. CASE n \notin N
    BY <1>1, <1>2, <1>3, <2>2 DEF InOrder, Placed, Decls, InAttribute, Heap
  <2> QED BY <2>1, <2>2
<1>6. ObjectsLinked(g) /\ PrivateLinked(g)
  BY <1>1, <1>2, <1>3 DEF InOrder, ObjectsLinked, PrivateLinked, Live, Allocated, Free, Heap
<1>7. TextUnwrapped(g)
  BY <1>1, <1>2, <1>3 DEF InOrder, TextUnwrapped, InAttribute, Heap
<1> QED BY <1>2, <1>4, <1>5, <1>6, <1>7 DEF InOrder, Grafted, g

\* create_wrapper() of a node that may be wrapped.
LEMMA CreateInOrder ==
  ASSUME HeapAssumption, NEW h, InOrder(h), NEW n \in Allocated(h), ~InAttribute(h, n),
         NEW w \in IF h.private[n] = NULL THEN Wrappers \ Live(h) ELSE {h.private[n]}
  PROVE  LET g == CreateWrapper(h, n, w) IN
         /\ InOrder(g) /\ g.kind = h.kind /\ g.above = h.above
         /\ w \in Live(g) /\ g.object[w] = [impl |-> n, class |-> ClassOf[h.kind[n]]]
         /\ \A v \in Live(h) : g.object[v] = h.object[v]
<1> DEFINE g == CreateWrapper(h, n, w)
<1>1. h \in Heap /\ n \in Nodes /\ h.kind[n] \in Kinds /\ ClassOf[h.kind[n]] \in Classes
  BY DEF InOrder, Heap, Allocated, Free, ClassOf, Kinds, Classes
<1>2. NULL \notin Wrappers /\ NULL \notin Nodes
  BY DEF HeapAssumption
<1>3. CASE h.private[n] # NULL
  <2>1. g = h /\ w = h.private[n]
    BY <1>3 DEF CreateWrapper
  <2>2. w \in Live(h) /\ h.object[w].impl = n /\ h.object[w].class = ClassOf[h.kind[n]]
    BY <1>1, <1>3, <2>1 DEF InOrder, PrivateLinked, ObjectsLinked
  <2>3. h.object[w] \in Object
    BY <1>1, <2>2 DEF Heap, Live
  <2> QED BY <2>1, <2>2, <2>3 DEF Object
<1>4. CASE h.private[n] = NULL
  <2>1. w \in Wrappers \ Live(h)
    BY <1>4
  <2>2. g = [h EXCEPT !.private[n] = w, !.object[w] = [impl |-> n, class |-> ClassOf[h.kind[n]]]]
    BY <1>4 DEF CreateWrapper
  <2>3. /\ g \in Heap /\ g.kind = h.kind /\ g.above = h.above
        /\ g.private = [h.private EXCEPT ![n] = w]
        /\ g.object = [h.object EXCEPT ![w] = [impl |-> n, class |-> ClassOf[h.kind[n]]]]
    <3> DEFINE o == [impl |-> n, class |-> ClassOf[h.kind[n]]]
    <3>1. o \in Object
      BY <1>1 DEF Object
    <3> HIDE DEF o
    <3>2. g = [h EXCEPT !.private[n] = w, !.object[w] = o]
      BY <2>2 DEF o
    <3>3. /\ g.kind = h.kind /\ g.above = h.above
          /\ g.private = [h.private EXCEPT ![n] = w] /\ g.object = [h.object EXCEPT ![w] = o]
      BY <1>1, <3>2 DEF Heap
    <3>4. /\ [h.private EXCEPT ![n] = w] \in [Nodes -> Wrappers \cup {NULL}]
          /\ [h.object EXCEPT ![w] = o] \in [Wrappers -> Object \cup {Deleted}]
      BY <1>1, <2>1, <3>1 DEF Heap
    <3>5. g = [kind |-> h.kind, above |-> h.above, private |-> [h.private EXCEPT ![n] = w],
               object |-> [h.object EXCEPT ![w] = o]]
      BY <1>1, <3>2 DEF Heap
    <3>6. g \in Heap
      BY <1>1, <3>4, <3>5 DEF Heap
    <3> QED BY <3>3, <3>6 DEF o
  <2>4. h.object[w] = Deleted /\ g.object[w] # Deleted /\ g.private[n] = w /\ g.object[w].impl = n
    BY <1>1, <1>2, <2>1, <2>3 DEF Live, Deleted, Heap
  <2>5. /\ \A v \in Wrappers \ {w} : g.object[v] = h.object[v]
        /\ \A m \in Nodes \ {n} : g.private[m] = h.private[m]
        /\ Live(g) = Live(h) \cup {w}
    BY <1>1, <2>1, <2>3, <2>4 DEF Live, Heap
  <2>6. \A m \in Nodes : h.private[m] # w
    BY <1>2, <2>1, <2>4 DEF InOrder, PrivateLinked, Live
  <2>7. Forest(g) /\ Placed(g) /\ TextUnwrapped(g)
    BY <1>1, <1>2, <2>1, <2>3, <2>5
       DEF InOrder, Forest, Placed, TextUnwrapped, InAttribute, Allocated, Free
  <2>8. ObjectsLinked(g)
    <3> SUFFICES ASSUME NEW v \in Live(g)
        PROVE LET m == g.object[v].impl IN
              m \in Allocated(g) /\ g.private[m] = v /\ g.object[v].class = ClassOf[g.kind[m]]
      BY DEF ObjectsLinked
    <3>1. CASE v = w
      BY <1>1, <2>1, <2>3, <2>4, <3>1 DEF Allocated, Free, Heap
    <3>2. CASE v # w
      <4>1. v \in Live(h) /\ g.object[v] = h.object[v]
        BY <2>5, <3>2 DEF Live
      <4>2. h.object[v].impl # n
        BY <1>2, <1>4, <4>1 DEF InOrder, ObjectsLinked, Live
      <4> QED BY <2>3, <2>5, <4>1, <4>2 DEF InOrder, ObjectsLinked, Allocated, Free
    <3> QED BY <3>1, <3>2
  <2>9. PrivateLinked(g)
    BY <2>3, <2>4, <2>5, <2>6 DEF InOrder, PrivateLinked
  <2> QED BY <2>1, <2>3, <2>4, <2>5, <2>7, <2>8, <2>9 DEF InOrder
<1> QED BY <1>3, <1>4

\* free_wrappers() deletes the wrappers of the nodes it visits, and only those.
LEMMA DeleteInOrder ==
  ASSUME HeapAssumption, NEW h, InOrder(h), NEW S \in SUBSET Nodes
  PROVE  LET g == DeleteWrappers(h, S) IN
         /\ InOrder(g) /\ g.kind = h.kind /\ g.above = h.above
         /\ \A n \in Nodes : g.private[n] = IF n \in S THEN NULL ELSE h.private[n]
         /\ \A v \in Live(h) : h.object[v].impl \notin S => g.object[v] = h.object[v]
         /\ Live(g) = {v \in Live(h) : h.object[v].impl \notin S}
<1> DEFINE g == DeleteWrappers(h, S)
           gone == {h.private[m] : m \in S}
           P == [m \in Nodes |-> IF m \in S THEN NULL ELSE h.private[m]]
           O == [w \in Wrappers |-> IF w \in gone THEN Deleted ELSE h.object[w]]
<1>1. h \in Heap /\ NULL \notin Wrappers /\ Deleted \notin Object
  BY DEF InOrder, HeapAssumption, Deleted, Object
<1>2. g = [h EXCEPT !.private = P, !.object = O]
  BY DEF DeleteWrappers
<1>3. /\ P \in [Nodes -> Wrappers \cup {NULL}] /\ O \in [Wrappers -> Object \cup {Deleted}]
      /\ \A n \in Nodes : P[n] = IF n \in S THEN NULL ELSE h.private[n]
      /\ \A w \in Wrappers : O[w] = IF w \in gone THEN Deleted ELSE h.object[w]
  BY <1>1 DEF Heap
<1> HIDE DEF g, P, O
<1>4. g = [kind |-> h.kind, above |-> h.above, private |-> P, object |-> O]
  BY <1>1, <1>2 DEF Heap
<1>5. /\ g \in Heap /\ g.kind = h.kind /\ g.above = h.above
      /\ \A n \in Nodes : g.private[n] = IF n \in S THEN NULL ELSE h.private[n]
      /\ \A w \in Wrappers : g.object[w] = IF w \in gone THEN Deleted ELSE h.object[w]
  BY <1>1, <1>3, <1>4 DEF Heap
<1>6. \A v \in Live(h) : v \in gone <=> h.object[v].impl \in S
  BY <1>1 DEF InOrder, ObjectsLinked, PrivateLinked, Live, Allocated, Free
<1>7. Live(g) = {v \in Live(h) : h.object[v].impl \notin S}
  BY <1>5, <1>6 DEF Live
<1>8. Forest(g) /\ Placed(g) /\ TextUnwrapped(g)
  BY <1>5 DEF InOrder, Forest, Placed, TextUnwrapped, InAttribute
<1>9. ObjectsLinked(g)
  <2> SUFFICES ASSUME NEW v \in Live(g)
      PROVE LET m == g.object[v].impl IN
            m \in Allocated(g) /\ g.private[m] = v /\ g.object[v].class = ClassOf[g.kind[m]]
    BY DEF ObjectsLinked
  <2>1. v \in Live(h) /\ h.object[v].impl \notin S /\ g.object[v] = h.object[v]
    BY <1>5, <1>6, <1>7 DEF Live
  <2> QED BY <1>5, <2>1 DEF InOrder, ObjectsLinked, Allocated, Free
<1>10. PrivateLinked(g)
  BY <1>1, <1>5, <1>6, <1>7 DEF InOrder, PrivateLinked, Live
<1>11. \A v \in Live(h) : h.object[v].impl \notin S => g.object[v] = h.object[v]
  BY <1>5, <1>6 DEF Live
<1> QED BY <1>5, <1>7, <1>8, <1>9, <1>10, <1>11 DEF InOrder, g

\* Whatever libxml2 frees, with all that is below it, must have lost its wrappers before.
LEMMA FreeInOrder ==
  ASSUME HeapAssumption, NEW h, InOrder(h), NEW S \in SUBSET Nodes,
         \A n \in Nodes : h.above[n] \cap S # {} => n \in S,
         \A n \in S : h.private[n] = NULL
  PROVE  LET g == FreeNodes(h, S) IN
         /\ InOrder(g) /\ g.object = h.object
         /\ \A n \in S : g.kind[n] = "free"
         /\ \A n \in Nodes \ S : g.kind[n] = h.kind[n] /\ g.above[n] = h.above[n]
         /\ \A n \in Nodes : g.private[n] = h.private[n]
<1> DEFINE g == FreeNodes(h, S)
           K == [n \in Nodes |-> IF n \in S THEN "free" ELSE h.kind[n]]
           A == [n \in Nodes |-> IF n \in S THEN {} ELSE h.above[n]]
           P == [n \in Nodes |-> IF n \in S THEN NULL ELSE h.private[n]]
<1>1. h \in Heap /\ NULL \notin Wrappers
  BY DEF InOrder, HeapAssumption
<1>2. g = [h EXCEPT !.kind = K, !.above = A, !.private = P]
  BY DEF FreeNodes
<1>3. /\ K \in [Nodes -> Kinds \cup {"free"}] /\ A \in [Nodes -> SUBSET Nodes]
      /\ P \in [Nodes -> Wrappers \cup {NULL}]
      /\ \A n \in S : K[n] = "free" /\ A[n] = {}
      /\ \A n \in Nodes \ S : K[n] = h.kind[n] /\ A[n] = h.above[n]
      /\ \A n \in Nodes : P[n] = h.private[n]
  BY <1>1 DEF Heap
<1> HIDE DEF g, K, A, P
<1>4. g = [kind |-> K, above |-> A, private |-> P, object |-> h.object]
  BY <1>1, <1>2 DEF Heap
<1>5. /\ g \in Heap /\ g.object = h.object
      /\ \A n \in S : g.kind[n] = "free" /\ g.above[n] = {}
      /\ \A n \in Nodes \ S : g.kind[n] = h.kind[n] /\ g.above[n] = h.above[n]
      /\ \A n \in Nodes : g.private[n] = h.private[n]
  BY <1>1, <1>3, <1>4 DEF Heap
<1>6. \A n \in Nodes : g.above[n] \cap S = {}
  BY <1>5
<1>7. Forest(g)
  BY <1>1, <1>5, <1>6 DEF InOrder, Forest, Heap
<1>8. Placed(g) /\ TextUnwrapped(g)
  BY <1>1, <1>5, <1>6 DEF InOrder, Placed, TextUnwrapped, InAttribute, Heap
<1>9. ObjectsLinked(g)
  <2> SUFFICES ASSUME NEW v \in Live(g)
      PROVE LET m == g.object[v].impl IN
            m \in Allocated(g) /\ g.private[m] = v /\ g.object[v].class = ClassOf[g.kind[m]]
    BY DEF ObjectsLinked
  <2> DEFINE m == h.object[v].impl
  <2>1. v \in Live(h) /\ g.object[v] = h.object[v] /\ v \in Wrappers
    BY <1>5 DEF Live
  <2>2. m \in Allocated(h) /\ h.private[m] = v /\ h.object[v].class = ClassOf[h.kind[m]]
    BY <2>1 DEF InOrder, ObjectsLinked
  <2>3. m \in Nodes \ S
    BY <1>1, <2>1, <2>2 DEF Allocated
  <2> QED BY <1>5, <2>1, <2>2, <2>3 DEF Allocated, Free
<1>10. PrivateLinked(g)
  BY <1>1, <1>5 DEF InOrder, PrivateLinked, Live
<1> QED BY <1>5, <1>7, <1>8, <1>9, <1>10 DEF InOrder, g

\* A subtree goes with its wrappers.
LEMMA RemoveInOrder ==
  ASSUME HeapAssumption, NEW h, InOrder(h), NEW n \in Nodes
  PROVE  LET g == Remove(h, n) IN
         /\ InOrder(g)
         /\ \A m \in Subtree(h, n) : g.kind[m] = "free"
         /\ \A m \in Nodes \ Subtree(h, n) :
              g.kind[m] = h.kind[m] /\ g.above[m] = h.above[m] /\ g.private[m] = h.private[m]
         /\ \A v \in Live(h) : h.object[v].impl \notin Subtree(h, n) => g.object[v] = h.object[v]
<1> DEFINE S == Subtree(h, n)
           d == DeleteWrappers(h, S)
<1>1. S \in SUBSET Nodes /\ \A m \in Nodes : h.above[m] \cap S # {} => m \in S
  BY DEF Subtree, Below, InOrder, Forest
<1> HIDE DEF S
<1>2. /\ InOrder(d) /\ d.kind = h.kind /\ d.above = h.above
      /\ \A m \in Nodes : d.private[m] = IF m \in S THEN NULL ELSE h.private[m]
      /\ \A v \in Live(h) : h.object[v].impl \notin S => d.object[v] = h.object[v]
  BY <1>1, DeleteInOrder
<1>3. d = FreeWrappers(h, n) /\ Remove(h, n) = FreeNodes(d, S)
  BY DEF FreeWrappers, Remove, S
<1> HIDE DEF d
<1>4. LET g == FreeNodes(d, S) IN
      /\ InOrder(g) /\ g.object = d.object
      /\ \A m \in S : g.kind[m] = "free"
      /\ \A m \in Nodes \ S : g.kind[m] = d.kind[m] /\ g.above[m] = d.above[m]
      /\ \A m \in Nodes : g.private[m] = d.private[m]
  BY <1>1, <1>2, FreeInOrder
<1> QED BY <1>2, <1>3, <1>4 DEF S

-----------------------------------------------------------------------------
(* The steps of the methods.                                               *)

\* What every call keeps.
Good(h) == InOrder(h)

\* From h to g no wrapper is lost of a node that stays as it is and where it is.
Kept(h, g) ==
  \A v \in Live(h) :
    LET n == h.object[v].impl IN
    n \in Allocated(g) /\ g.kind[n] = h.kind[n] /\ g.above[n] = h.above[n]
      => g.object[v] = h.object[v]

\* Nodes above a child of p.
LEMMA PathBranch ==
  ASSUME NEW h, InOrder(h), NEW p \in Allocated(h)
  PROVE  Branch(h, Path(h, p))
<1>1. h \in Heap /\ Forest(h) /\ p \in Nodes /\ p \notin Free(h)
  BY DEF InOrder, Allocated
<1>2. h.above[p] \in SUBSET Nodes
  BY <1>1 DEF Heap
<1>3. Path(h, p) = {} \/ Path(h, p) = h.above[p] \cup {p}
  BY DEF Path
<1>4. /\ h.above[p] \cup {p} \subseteq Allocated(h)
      /\ \A m \in h.above[p] \cup {p} : h.above[m] \subseteq h.above[p] \cup {p}
      /\ \A m, i \in h.above[p] \cup {p} : m = i \/ m \in h.above[i] \/ i \in h.above[m]
  BY <1>1, <1>2 DEF Forest, Allocated, Free
<1> QED BY <1>3, <1>4 DEF Branch

\* A new node, below an allocated one or the document.
LEMMA NewNodeGood ==
  ASSUME HeapAssumption, NEW h, Good(h), NEW n \in Free(h), NEW p \in Allocated(h) \cup {NULL},
         NEW kind \in Kinds \ {"attribute_decl", "attribute"},
         kind = "dtd" => p = NULL,
         kind = "entity_decl" => p # NULL /\ h.kind[p] = "dtd"
  PROVE  LET g == NewNode(h, n, kind, p) IN
         /\ Good(g) /\ g.private = h.private /\ g.object = h.object
         /\ n \in Allocated(g) /\ g.kind[n] = kind /\ g.above[n] = Path(h, p)
         /\ \A m \in Nodes \ {n} : g.kind[m] = h.kind[m] /\ g.above[m] = h.above[m]
<1> DEFINE k == [m \in {n} |-> kind]
           a == [m \in {n} |-> {}]
           P == Path(h, p)
           g == Graft(h, {n}, k, a, P)
<1>1. InOrder(h) /\ h \in Heap /\ n \in Nodes /\ Forest(h) /\ Placed(h) /\ NULL \notin Nodes
  BY DEF Good, InOrder, Free, HeapAssumption
<1>2. Branch(h, P)
  <2>1. CASE p = NULL
    BY <2>1 DEF Branch, Path
  <2>2. CASE p # NULL
    BY <1>1, <2>2, PathBranch
  <2> QED BY <2>1, <2>2
<1>3. Arrangement({n}, k, a) /\ k[n] = kind /\ a[n] = {}
  BY DEF Arrangement
<1>4. /\ kind = "dtd" => P = {}
      /\ kind \in Decls => \A m \in P : h.kind[m] = "dtd"
  BY <1>1 DEF Path, Decls, Placed, Allocated
<1>5. g = NewNode(h, n, kind, p)
  BY DEF NewNode
<1>6. P \in SUBSET Nodes
  BY <1>2 DEF Branch, Allocated
<1> HIDE DEF k, a, P, g
<1>7. Grafted(h, g, {n}, k, a, P)
  <2>1. {n} \in SUBSET Free(h)
    OBVIOUS
  <2>2. \A m \in {n} : /\ k[m] = "dtd" => a[m] = {} /\ P = {}
                       /\ k[m] \in Decls => a[m] = {} /\ \A i \in P : h.kind[i] = "dtd"
                       /\ k[m] # "attribute"
    BY <1>3, <1>4
  <2> QED BY <1>1, <1>2, <1>3, <2>1, <2>2, GraftInOrder DEF g
<1>8. /\ g.private = h.private /\ g.object = h.object /\ InOrder(g)
      /\ g.kind[n] = kind /\ g.above[n] = P
      /\ \A m \in Nodes \ {n} : g.kind[m] = h.kind[m] /\ g.above[m] = h.above[m]
  BY <1>3, <1>7 DEF Grafted
<1>10. n \in Allocated(g)
  BY <1>1, <1>8 DEF Allocated, Free, Kinds
<1> QED BY <1>5, <1>8, <1>10 DEF Good, P

\* The end of a method: a wrapper of n, which is no text of an attribute, and no other change.
LEMMA ReturnGood ==
  ASSUME HeapAssumption, NEW h, Good(h), NEW n \in Allocated(h), ~InAttribute(h, n), NEW type,
         Return(h, n, type)
  PROVE  /\ Good(heap') /\ heap'.kind = h.kind /\ heap'.above = h.above
         /\ \A v \in Live(h) : heap'.object[v] = h.object[v]
         /\ result'.type = type /\ result'.ptr \in Live(heap')
         /\ heap'.object[result'.ptr].class = ClassOf[h.kind[n]]
<1>1. PICK w \in IF h.private[n] = NULL THEN Wrappers \ Live(h) ELSE {h.private[n]} :
        heap' = CreateWrapper(h, n, w) /\ result' = [ptr |-> w, type |-> type]
  BY DEF Return
<1> DEFINE g == CreateWrapper(h, n, w)
<1>2. /\ InOrder(g) /\ g.kind = h.kind /\ g.above = h.above
      /\ w \in Live(g) /\ g.object[w] = [impl |-> n, class |-> ClassOf[h.kind[n]]]
      /\ \A v \in Live(h) : g.object[v] = h.object[v]
  BY CreateInOrder DEF Good
<1> HIDE DEF g
<1> QED BY <1>1, <1>2 DEF Good, g

LEMMA WrapGood ==
  ASSUME HeapAssumption, NEW h, Good(h), NEW n \in Allocated(h), ~InAttribute(h, n), Wrap(h, n)
  PROVE  /\ Good(heap') /\ heap'.kind = h.kind /\ heap'.above = h.above
         /\ \A v \in Live(h) : heap'.object[v] = h.object[v]
         /\ result' = Nothing
<1>1. PICK w \in IF h.private[n] = NULL THEN Wrappers \ Live(h) ELSE {h.private[n]} :
        ReturnNothing(CreateWrapper(h, n, w))
  BY DEF Wrap
<1> DEFINE g == CreateWrapper(h, n, w)
<1>2. /\ InOrder(g) /\ g.kind = h.kind /\ g.above = h.above
      /\ \A v \in Live(h) : g.object[v] = h.object[v]
  BY CreateInOrder DEF Good
<1>3. heap' = g /\ result' = Nothing
  BY <1>1 DEF ReturnNothing
<1> HIDE DEF g
<1> QED BY <1>2, <1>3 DEF Good

\* A wrapped node, or its parent, is no text of an attribute.
LEMMA WrappedOutside ==
  ASSUME NEW h, InOrder(h), NEW n \in Nodes, h.private[n] # NULL
  PROVE  /\ ~InAttribute(h, n)
         /\ \A m \in h.above[n] : ~InAttribute(h, m)
         /\ h.kind[n] # "attribute" => \A m \in Nodes : ChildOf(h, m, n) => ~InAttribute(h, m)
  BY DEF InOrder, TextUnwrapped, InAttribute, Forest, ChildOf

\* Removing the subtree of n: all of it is free and nothing else is touched.
LEMMA RemoveGood ==
  ASSUME HeapAssumption, NEW h, Good(h), NEW n \in Nodes
  PROVE  LET g == Remove(h, n) IN
         /\ Good(g) /\ Kept(h, g)
         /\ \A m \in Subtree(h, n) : g.kind[m] = "free"
         /\ \A m \in Nodes \ Subtree(h, n) :
              g.kind[m] = h.kind[m] /\ g.above[m] = h.above[m] /\ g.private[m] = h.private[m]
         /\ \A v \in Live(h) : h.object[v].impl \notin Subtree(h, n) => g.object[v] = h.object[v]
<1> DEFINE g == Remove(h, n)
<1>1. /\ InOrder(g)
      /\ \A m \in Subtree(h, n) : g.kind[m] = "free"
      /\ \A m \in Nodes \ Subtree(h, n) :
              g.kind[m] = h.kind[m] /\ g.above[m] = h.above[m] /\ g.private[m] = h.private[m]
      /\ \A v \in Live(h) : h.object[v].impl \notin Subtree(h, n) => g.object[v] = h.object[v]
  BY RemoveInOrder DEF Good
<1> HIDE DEF g
<1>2. Kept(h, g)
  BY <1>1 DEF Kept, Allocated, Free
<1> QED BY <1>1, <1>2 DEF Good, g

\* From h to g the nodes N were added; n, one of them, is of this kind, and below the nodes P.
Added(h, g, N, n, kind, P) ==
  /\ Good(g) /\ g.private = h.private /\ g.object = h.object
  /\ n \in Allocated(g) /\ g.kind[n] = kind /\ g.above[n] = P
  /\ \A m \in Nodes \ N : g.kind[m] = h.kind[m] /\ g.above[m] = h.above[m]

\* A copy of a subtree below a node that is no attribute, or below the document.
LEMMA CopyGood ==
  ASSUME HeapAssumption, InOrder(heap), NEW h, Good(h),
         NEW s \in Nodes, heap.kind[s] \in Copyable, NEW S, S = {s} \/ S = Subtree(heap, s),
         NEW N \in SUBSET (Free(heap) \cap Free(h)), NEW f \in Bijections(N, S),
         NEW p \in Allocated(h) \cup {NULL},
         p # NULL => ~InAttribute(h, p) /\ h.kind[p] # "attribute",
         NEW n \in N, f[n] = s
  PROVE  Added(h, Copy(h, heap, N, f, p), N, n, heap.kind[s], Path(h, p))
<1> DEFINE k == [m \in N |-> heap.kind[f[m]]]
           a == [m \in N |-> {i \in N : f[i] \in heap.above[f[m]]}]
           P == Path(h, p)
           g == Graft(h, N, k, a, P)
<1>1. /\ InOrder(h) /\ h \in Heap /\ heap \in Heap /\ Forest(heap) /\ Placed(heap)
      /\ NULL \notin Nodes /\ N \in SUBSET Nodes /\ N \in SUBSET Free(h)
      /\ Copyable \subseteq Kinds
  BY DEF Good, InOrder, Free, HeapAssumption, Copyable, Kinds
<1>2. \A m \in S : m \in Nodes /\ heap.kind[m] \in Copyable
  <2>1. ASSUME NEW m \in Nodes, s \in heap.above[m] PROVE heap.kind[m] \in Copyable
    <3>1. heap.kind[m] # "free" /\ heap.kind[m] # "dtd"
      BY <1>1, <2>1 DEF Forest, Placed
    <3>2. heap.kind[m] \notin Decls
      BY <1>1, <2>1 DEF Placed, Decls, Copyable
    <3>3. heap.kind[m] \in Kinds \cup {"free"}
      BY <1>1 DEF Heap
    <3> QED BY <3>1, <3>2, <3>3 DEF Kinds, Copyable, Decls
  <2> QED BY <2>1 DEF Subtree, Below
<1>3. f \in [N -> S] /\ \A m, i \in N : f[i] = f[m] => i = m
  BY DEF Bijections
<1>4. Branch(h, P)
  <2>1. CASE p = NULL
    BY <2>1 DEF Branch, Path
  <2>2. CASE p # NULL
    BY <1>1, <2>2, PathBranch
  <2> QED BY <2>1, <2>2
<1>5. P \in SUBSET Nodes
  BY <1>4 DEF Branch, Allocated
<1>6. Arrangement(N, k, a)
  <2>1. k \in [N -> Kinds] /\ a \in [N -> SUBSET N]
    BY <1>1, <1>2, <1>3
  <2>2. \A m, i \in N : i \in a[m] <=> f[i] \in heap.above[f[m]]
    BY <1>3
  <2>3. \A m \in N : f[m] \in Nodes
    BY <1>2, <1>3
  <2> HIDE DEF k, a
  <2>4. ASSUME NEW m \in N PROVE m \notin a[m] /\ \A i \in a[m] : a[i] \subseteq a[m]
    BY <1>1, <2>1, <2>2, <2>3 DEF Forest
  <2>5. ASSUME NEW m \in N, NEW i \in a[m], NEW j \in a[m] PROVE i = j \/ i \in a[j] \/ j \in a[i]
    <3>1. i \in N /\ j \in N
      BY <2>1
    <3>2. f[i] = f[j] \/ f[i] \in heap.above[f[j]] \/ f[j] \in heap.above[f[i]]
      BY <1>1, <2>2, <2>3, <3>1 DEF Forest
    <3> QED BY <1>3, <2>2, <3>1, <3>2
  <2> QED BY <2>1, <2>4, <2>5 DEF Arrangement
<1>7. \A m \in N : k[m] \notin Decls /\ k[m] # "dtd"
  BY <1>2, <1>3 DEF Decls, Copyable
<1>7a. ASSUME NEW m \in N, k[m] = "attribute", NEW i \in a[m] PROVE k[i] # "attribute"
  <2>1. f[m] \in Nodes /\ f[i] \in heap.above[f[m]] /\ heap.kind[f[m]] = "attribute"
    BY <1>2, <1>3, <1>7a
  <2>2. heap.kind[f[i]] # "attribute"
    BY <1>1, <2>1 DEF Placed, InAttribute
  <2> QED BY <2>2
<1>7b. \A i \in P : h.kind[i] # "attribute"
  BY DEF Path, InAttribute
<1>8. k[n] = heap.kind[s] /\ a[n] = {}
  <2>1. \A m \in S : m \notin heap.above[s]
    BY <1>1 DEF Subtree, Below, Forest
  <2> QED BY <1>3, <2>1
<1>9. g = Copy(h, heap, N, f, p)
  BY DEF Copy
<1> HIDE DEF k, a, P, g
<1>10. Grafted(h, g, N, k, a, P)
  <2>1. \A m \in N : /\ k[m] = "dtd" => a[m] = {} /\ P = {}
                     /\ k[m] \in Decls => a[m] = {} /\ \A i \in P : h.kind[i] = "dtd"
                     /\ k[m] = "attribute" => /\ \A i \in P : h.kind[i] # "attribute"
                                              /\ \A i \in a[m] : k[i] # "attribute"
    BY <1>7, <1>7a, <1>7b
  <2> QED BY <1>1, <1>4, <1>6, <2>1, GraftInOrder DEF g
<1>11. /\ g.private = h.private /\ g.object = h.object /\ InOrder(g)
       /\ \A m \in N : g.kind[m] = k[m] /\ g.above[m] = a[m] \cup P
       /\ \A m \in Nodes \ N : g.kind[m] = h.kind[m] /\ g.above[m] = h.above[m]
  BY <1>10 DEF Grafted
<1>13. n \in Allocated(g) /\ g.kind[n] = heap.kind[s] /\ g.above[n] = P
  <2>1. n \in Nodes /\ g.kind[n] = heap.kind[s] /\ g.above[n] = P
    BY <1>1, <1>8, <1>11
  <2>2. heap.kind[s] # "free"
    BY DEF Copyable
  <2> QED BY <2>1, <2>2 DEF Allocated, Free
<1> QED BY <1>8, <1>9, <1>11, <1>13 DEF Added, Good, P

-----------------------------------------------------------------------------
(* What every call leaves behind.                                          *)

Outcome ==
  /\ Good(heap') /\ Kept(heap, heap') /\ ResultUsable'
  /\ result' \in [ptr : Wrappers \cup {NULL}, type : DOMAIN Derived]

\* Wrapping one node more keeps the others.
LEMMA KeptWrapped ==
  ASSUME NEW h, Kept(heap, h), heap'.kind = h.kind, heap'.above = h.above,
         \A v \in Live(h) : heap'.object[v] = h.object[v]
  PROVE  Kept(heap, heap')
<1> SUFFICES ASSUME NEW v \in Live(heap),
                    heap.object[v].impl \in Allocated(heap'),
                    heap'.kind[heap.object[v].impl] = heap.kind[heap.object[v].impl],
                    heap'.above[heap.object[v].impl] = heap.above[heap.object[v].impl]
             PROVE  heap'.object[v] = heap.object[v]
  BY DEF Kept
<1>1. h.object[v] = heap.object[v]
  BY DEF Kept, Allocated, Free
<1>2. v \in Live(h)
  BY <1>1 DEF Live
<1> QED BY <1>1, <1>2

\* A method that returns n, and n is of its static type.
LEMMA ReturnOutcome ==
  ASSUME HeapAssumption, NEW h, Good(h), Kept(heap, h),
         NEW n \in Allocated(h), ~InAttribute(h, n),
         NEW type \in DOMAIN Derived, ClassOf[h.kind[n]] \in Derived[type],
         Return(h, n, type)
  PROVE  Outcome
<1>1. /\ Good(heap') /\ heap'.kind = h.kind /\ heap'.above = h.above
      /\ \A v \in Live(h) : heap'.object[v] = h.object[v]
      /\ result'.type = type /\ result'.ptr \in Live(heap')
      /\ heap'.object[result'.ptr].class = ClassOf[h.kind[n]]
  BY ReturnGood
<1>2. Kept(heap, heap')
  BY <1>1, KeptWrapped
<1>3. ResultUsable'
  BY <1>1 DEF ResultUsable
<1>4. result' \in [ptr : Wrappers \cup {NULL}, type : DOMAIN Derived]
  <2>1. PICK w \in Wrappers \cup {NULL} : result' = [ptr |-> w, type |-> type]
    <3>1. h.private[n] \in Wrappers \cup {NULL}
      BY DEF Good, InOrder, Heap, Allocated
    <3> QED BY <3>1 DEF Return
  <2> QED BY <2>1
<1> QED BY <1>1, <1>2, <1>3, <1>4 DEF Outcome

\* A method that wraps n and returns nothing.
LEMMA WrapOutcome ==
  ASSUME HeapAssumption, NEW h, Good(h), Kept(heap, h), NEW n \in Allocated(h), ~InAttribute(h, n),
         Wrap(h, n)
  PROVE  Outcome
<1>1. /\ Good(heap') /\ heap'.kind = h.kind /\ heap'.above = h.above
      /\ \A v \in Live(h) : heap'.object[v] = h.object[v]
      /\ result' = Nothing
  BY WrapGood
<1>2. Kept(heap, heap')
  BY <1>1, KeptWrapped
<1> QED BY <1>1, <1>2 DEF Outcome, Nothing, ResultUsable, Derived

\* A method that returns nothing.
LEMMA ReturnNothingOutcome ==
  ASSUME NEW h, Good(h), Kept(heap, h), ReturnNothing(h)
  PROVE  Outcome
BY DEF Outcome, ReturnNothing, Nothing, ResultUsable, Derived

\* Where no wrapper is deleted, all are kept.
LEMMA SameObjects ==
  ASSUME NEW h, h.object = heap.object PROVE Kept(heap, h)
BY DEF Kept

\* A new node, before it is wrapped.
LEMMA NewNodeInPlace ==
  ASSUME HeapAssumption, Good(heap), NEW n \in Free(heap), NEW p \in Allocated(heap) \cup {NULL},
         p # NULL => ~InAttribute(heap, p) /\ heap.kind[p] # "attribute",
         NEW kind \in Copyable \ {"attribute"}
  PROVE  LET h == NewNode(heap, n, kind, p) IN
         /\ Good(h) /\ Kept(heap, h)
         /\ n \in Allocated(h) /\ ~InAttribute(h, n) /\ h.kind[n] = kind
<1> DEFINE h == NewNode(heap, n, kind, p)
<1>1. kind \in Kinds \ {"attribute_decl", "attribute"} /\ kind # "dtd" /\ kind # "entity_decl"
  BY DEF Kinds, Copyable
<1>2. /\ Good(h) /\ h.private = heap.private /\ h.object = heap.object
      /\ n \in Allocated(h) /\ h.kind[n] = kind /\ h.above[n] = Path(heap, p)
      /\ \A m \in Nodes \ {n} : h.kind[m] = heap.kind[m] /\ h.above[m] = heap.above[m]
  BY <1>1, NewNodeGood
<1> HIDE DEF h
<1>3. n \notin Path(heap, p) /\ Path(heap, p) \subseteq Nodes
  <2>1. p # NULL => p # n /\ n \notin heap.above[p] /\ heap.above[p] \subseteq Nodes
    BY DEF Allocated, Good, InOrder, Forest, Heap, Free
  <2> QED BY <2>1 DEF Path, Allocated
<1>4. ~InAttribute(h, n)
  <2>1. ASSUME NEW a \in Path(heap, p) PROVE heap.kind[a] # "attribute"
    BY <2>1 DEF Path, InAttribute
  <2> QED BY <1>2, <1>3, <2>1 DEF InAttribute
<1>5. Kept(heap, h)
  BY <1>2, SameObjects
<1> QED BY <1>2, <1>4, <1>5 DEF h

\* A new node that is returned.
LEMMA ReturnNewNode ==
  ASSUME HeapAssumption, Good(heap), NEW n \in Free(heap), NEW p \in Allocated(heap) \cup {NULL},
         p # NULL => ~InAttribute(heap, p) /\ heap.kind[p] # "attribute",
         NEW kind \in Copyable \ {"attribute"},
         NEW type \in DOMAIN Derived, ClassOf[kind] \in Derived[type],
         Return(NewNode(heap, n, kind, p), n, type)
  PROVE  Outcome
<1> DEFINE h == NewNode(heap, n, kind, p)
<1>1. Good(h) /\ Kept(heap, h) /\ n \in Allocated(h) /\ ~InAttribute(h, n) /\ h.kind[n] = kind
  BY NewNodeInPlace
<1> HIDE DEF h
<1>2. Return(h, n, type)
  BY DEF h
<1> QED BY <1>1, <1>2, ReturnOutcome

\* A copy that is returned, made from the heap before the call, where h may be the heap after
\* the node it replaces is removed.
LEMMA ReturnCopyOutcome ==
  ASSUME HeapAssumption, Good(heap), NEW h, Good(h), Kept(heap, h), Free(heap) \subseteq Free(h),
         NEW s \in Nodes, heap.kind[s] \in Copyable, NEW recursive \in BOOLEAN,
         NEW p \in Allocated(h) \cup {NULL},
         p # NULL => ~InAttribute(h, p) /\ h.kind[p] # "attribute",
         NEW type \in DOMAIN Derived, ClassOf[heap.kind[s]] \in Derived[type],
         ReturnCopy(h, s, recursive, p, type)
  PROVE  Outcome
<1> DEFINE S == Copied(s, recursive)
<1>0. PICK N \in SUBSET Free(heap) : \E f \in Bijections(N, S) : \E n \in N :
        f[n] = s /\ Return(Copy(h, heap, N, f, p), n, type)
  BY DEF ReturnCopy
<1>1. PICK f \in Bijections(N, S) : \E n \in N :
        f[n] = s /\ Return(Copy(h, heap, N, f, p), n, type)
  BY <1>0
<1>1a. PICK n \in N : f[n] = s /\ Return(Copy(h, heap, N, f, p), n, type)
  BY <1>1
<1> DEFINE g == Copy(h, heap, N, f, p)
<1>2. S = {s} \/ S = Subtree(heap, s)
  BY DEF Copied
<1>3. N \in SUBSET (Free(heap) \cap Free(h)) /\ InOrder(heap)
  BY DEF Good
<1> HIDE DEF S
<1>4. /\ Good(g) /\ g.private = h.private /\ g.object = h.object
      /\ n \in Allocated(g) /\ g.kind[n] = heap.kind[s] /\ g.above[n] = Path(h, p)
      /\ \A m \in Nodes \ N : g.kind[m] = h.kind[m] /\ g.above[m] = h.above[m]
  <2>1. Added(h, g, N, n, heap.kind[s], Path(h, p))
    BY <1>1a, <1>2, <1>3, CopyGood
  <2> HIDE DEF g
  <2> QED BY <2>1 DEF Added
<1> HIDE DEF g
<1>5. Path(h, p) \cap N = {} /\ Path(h, p) \subseteq Nodes
  <2>1. p # NULL => p \notin N /\ h.above[p] \cap N = {} /\ h.above[p] \subseteq Nodes
    BY <1>3 DEF Allocated, Good, InOrder, Forest, Heap, Free
  <2> QED BY <2>1 DEF Path, Allocated
<1>6. ~InAttribute(g, n)
  <2>1. ASSUME NEW a \in Path(h, p) PROVE h.kind[a] # "attribute"
    BY <2>1 DEF Path, InAttribute
  <2> QED BY <1>4, <1>5, <2>1 DEF InAttribute
<1>7. Kept(heap, g)
  <2> SUFFICES ASSUME NEW v \in Live(heap), NEW m, m = heap.object[v].impl,
                      m \in Allocated(g), g.kind[m] = heap.kind[m], g.above[m] = heap.above[m]
               PROVE  g.object[v] = heap.object[v]
    BY DEF Kept
  <2>1. m \in Allocated(heap)
    BY DEF Good, InOrder, ObjectsLinked
  <2>2. m \in Nodes \ N
    BY <1>3, <2>1 DEF Allocated
  <2>3. m \in Allocated(h) /\ h.kind[m] = heap.kind[m] /\ h.above[m] = heap.above[m]
    BY <1>4, <2>2 DEF Allocated, Free
  <2> QED BY <1>4, <2>3 DEF Kept
<1> QED BY <1>1a, <1>4, <1>6, <1>7, ReturnOutcome DEF g

-----------------------------------------------------------------------------
(* The actions.                                                            *)

\* A node that is wrapped may be given children, attributes and siblings of its parent.
LEMMA WrappedGood ==
  ASSUME Good(heap), NEW n \in Nodes, Wrapped(n)
  PROVE  /\ n \in Allocated(heap) /\ ~InAttribute(heap, n)
         /\ \A m \in Nodes : ChildOf(heap, n, m) => m \in Allocated(heap) /\ ~InAttribute(heap, m)
         /\ heap.kind[n] # "attribute" =>
              \A m \in Nodes : ChildOf(heap, m, n) => m \in Allocated(heap) /\ ~InAttribute(heap, m)
<1>1. InOrder(heap) /\ n \in Allocated(heap) /\ heap.private[n] # NULL
  BY DEF Good, Wrapped
<1>2. \A m \in Nodes : ChildOf(heap, n, m) => m \in heap.above[n]
  BY DEF ChildOf
<1>3. \A m \in Nodes : ChildOf(heap, n, m) => m \in Allocated(heap)
  BY <1>1, <1>2 DEF InOrder, Forest, Allocated, Free
<1>4. \A m \in Nodes : ChildOf(heap, m, n) => m \in Allocated(heap)
  BY <1>1 DEF InOrder, Forest, Allocated, Free, ChildOf
<1> QED BY <1>1, <1>2, <1>3, <1>4, WrappedOutside

\* The calls that look at the document.
LEMMA LookOutcome ==
  ASSUME HeapAssumption, Uses = {}, Good(heap), Look
  PROVE  Outcome
<1>1. InOrder(heap) /\ heap \in Heap /\ Placed(heap) /\ Kept(heap, heap)
  BY DEF Good, InOrder, Kept
<1>2. \A n \in Nodes : heap.above[n] = {} => ~InAttribute(heap, n)
  BY DEF InAttribute
<1>3. ASSUME NEW n \in Nodes, GetNode(n) PROVE Outcome
  <2>1. /\ n \in Allocated(heap) /\ ~InAttribute(heap, n) /\ heap.kind[n] # "dtd"
        /\ Return(heap, n, "Node")
    BY <1>3 DEF GetNode, MayLookAt
  <2>2. "Node" \in DOMAIN Derived /\ ClassOf[heap.kind[n]] \in Derived["Node"]
    BY <1>1, <2>1 DEF Heap, Allocated, Free, Kinds, ClassOf, Derived, Classes
  <2> QED BY <1>1, <2>1, <2>2, ReturnOutcome
<1>4. ASSUME NEW n \in Nodes, GetParent(n) PROVE Outcome
  <2>1. PICK p \in Nodes : heap.kind[p] = "element" /\ ChildOf(heap, n, p) /\ Return(heap, p, "Element")
    BY <1>4 DEF GetParent, OfKind
  <2>2. p \in Allocated(heap) /\ ~InAttribute(heap, p)
    BY <1>4, <2>1, WrappedGood DEF GetParent
  <2>3. "Element" \in DOMAIN Derived /\ ClassOf[heap.kind[p]] \in Derived["Element"]
    BY <2>1 DEF ClassOf, Derived
  <2> QED BY <1>1, <2>1, <2>2, <2>3, ReturnOutcome
<1>5. ASSUME NEW p \in Nodes, GetAttribute(p) PROVE Outcome
  <2>1. PICK a \in HasNsProp(p) : Return(heap, a, "Attribute")
    BY <1>5 DEF GetAttribute
  <2>2. a \in Allocated(heap) /\ ~InAttribute(heap, a)
    <3>1. CASE a \in AttributesOf(p)
      BY <1>5, <3>1, WrappedGood DEF GetAttribute, AttributesOf, OfKind
    <3>2. CASE a \in Nodes /\ heap.kind[a] = "attribute_decl"
      <4>1. \A m \in heap.above[a] : heap.kind[m] = "dtd"
        BY <1>1, <3>2 DEF Placed
      <4> QED BY <3>2, <4>1 DEF InAttribute, Allocated, Free
    <3> QED BY <2>1, <3>1, <3>2 DEF HasNsProp, OfKind
  <2>3. heap.kind[a] \in {"attribute", "attribute_decl"}
    BY <2>1 DEF HasNsProp, AttributesOf, OfKind
  <2>4. "Attribute" \in DOMAIN Derived /\ ClassOf[heap.kind[a]] \in Derived["Attribute"]
    BY <2>3 DEF ClassOf, Derived
  <2> QED BY <1>1, <2>1, <2>2, <2>4, ReturnOutcome
<1>6. ASSUME GetRootNode PROVE Outcome
  <2>1. PICK r \in Roots : Return(heap, r, "Element")
    BY <1>6 DEF GetRootNode
  <2>2. r \in Allocated(heap) /\ ~InAttribute(heap, r) /\ heap.kind[r] = "element"
    BY <1>2, <2>1 DEF Roots, OfKind, Allocated, Free
  <2>3. "Element" \in DOMAIN Derived /\ ClassOf[heap.kind[r]] \in Derived["Element"]
    BY <2>2 DEF ClassOf, Derived
  <2> QED BY <1>1, <2>1, <2>2, <2>3, ReturnOutcome
<1>7. ASSUME GetInternalSubset PROVE Outcome
  <2>1. PICK t \in Dtds : Return(heap, t, "Dtd")
    BY <1>7 DEF GetInternalSubset
  <2>2. t \in Allocated(heap) /\ ~InAttribute(heap, t) /\ heap.kind[t] = "dtd"
    BY <1>1, <1>2, <2>1 DEF Dtds, OfKind, Allocated, Free, Placed
  <2>3. "Dtd" \in DOMAIN Derived /\ ClassOf[heap.kind[t]] \in Derived["Dtd"]
    BY <2>2 DEF ClassOf, Derived
  <2> QED BY <1>1, <2>1, <2>2, <2>3, ReturnOutcome
<1>8. ASSUME NEW p \in Nodes, GetFirstChildText(p) PROVE Outcome
  <2>1. PICK t \in TextsOf(p) : Return(heap, t, "TextNode")
    BY <1>8 DEF GetFirstChildText
  <2>2. t \in Allocated(heap) /\ ~InAttribute(heap, t) /\ heap.kind[t] = "text"
    BY <1>8, <2>1, WrappedGood DEF GetFirstChildText, TextsOf, OfKind
  <2>3. "TextNode" \in DOMAIN Derived /\ ClassOf[heap.kind[t]] \in Derived["TextNode"]
    BY <2>2 DEF ClassOf, Derived
  <2> QED BY <1>1, <2>1, <2>2, <2>3, ReturnOutcome
<1> QED BY <1>3, <1>4, <1>5, <1>6, <1>7, <1>8 DEF Look

\* Text that libxml2 may merge with is no text of an attribute.
LEMMA MergeableGood ==
  ASSUME Good(heap), NEW p \in Nodes, Wrapped(p), heap.kind[p] # "attribute", NEW t \in Mergeable(p)
  PROVE  /\ t \in Allocated(heap) /\ ~InAttribute(heap, t) /\ heap.kind[t] = "text"
BY WrappedGood DEF Mergeable, TextsOf, OfKind

\* A new value for an attribute: nothing above the new text is lost.
LEMMA SetAttributeOutcome ==
  ASSUME HeapAssumption, Good(heap), NEW a \in Nodes, SetAttribute(a)
  PROVE  Outcome
<1> DEFINE h == NewValue(heap, a)
           B == Below(heap, a)
<1>1. InOrder(heap) /\ heap \in Heap /\ a \in Allocated(heap) /\ heap.kind[a] = "attribute"
  BY DEF Good, InOrder, SetAttribute
<1>2. B \in SUBSET Nodes /\ \A n \in Nodes : heap.above[n] \cap B # {} => n \in B
  BY <1>1 DEF Below, InOrder, Forest
<1>3. \A n \in B : heap.private[n] = NULL
  BY <1>1 DEF Below, InOrder, TextUnwrapped, InAttribute
<1>4. ~InAttribute(heap, a) /\ a \notin B
  BY <1>1 DEF InOrder, Placed, Forest, Below
<1>5. h = FreeNodes(heap, B)
  BY DEF NewValue
<1> HIDE DEF B
<1>6. /\ InOrder(h) /\ h.object = heap.object
      /\ \A n \in B : h.kind[n] = "free"
      /\ \A n \in Nodes \ B : h.kind[n] = heap.kind[n] /\ h.above[n] = heap.above[n]
      /\ \A n \in Nodes : h.private[n] = heap.private[n]
  BY <1>1, <1>2, <1>3, <1>5, FreeInOrder
<1>7. PICK t \in Free(h) : \/ Return(NewNode(h, t, "text", a), a, "Attribute")
                           \/ ReturnNothing(NewNode(h, t, "text", a))
  BY DEF SetAttribute
<1> HIDE DEF h
<1>8. Good(h)
  BY <1>6 DEF Good
<1>9. a \in Allocated(h) /\ h.kind[a] = "attribute" /\ a # t
  BY <1>1, <1>4, <1>6 DEF Allocated, Free
<1> DEFINE g == NewNode(h, t, "text", a)
<1>10. /\ Good(g) /\ g.private = h.private /\ g.object = h.object
       /\ \A m \in Nodes \ {t} : g.kind[m] = h.kind[m] /\ g.above[m] = h.above[m]
  BY <1>8, <1>9, NewNodeGood DEF Kinds
<1> HIDE DEF g
<1>11. Kept(heap, g)
  BY <1>6, <1>10, SameObjects
<1>12. a \in Allocated(g) /\ g.kind[a] = "attribute" /\ g.above[a] = heap.above[a]
  BY <1>1, <1>4, <1>6, <1>9, <1>10 DEF Allocated, Free
<1>13. ~InAttribute(g, a)
  BY <1>10, <1>12 DEF Good, InOrder, Placed, Allocated
<1>14. "Attribute" \in DOMAIN Derived /\ ClassOf[g.kind[a]] \in Derived["Attribute"]
  BY <1>12 DEF ClassOf, Derived
<1> QED BY <1>7, <1>10, <1>11, <1>12, <1>13, <1>14, ReturnOutcome, ReturnNothingOutcome DEF g

\* A new attribute and its text, which is not wrapped.
LEMMA AddAttributeOutcome ==
  ASSUME HeapAssumption, Good(heap), NEW p \in Nodes, AddAttribute(p)
  PROVE  Outcome
<1>1. PICK a \in Free(heap) : \E t \in Free(heap) \ {a} :
         Return(NewAttribute(heap, a, t, p), a, "Attribute")
  BY DEF AddAttribute
<1>2. PICK t \in Free(heap) \ {a} : Return(NewAttribute(heap, a, t, p), a, "Attribute")
  BY <1>1
<1> DEFINE N == {a, t}
           k == [m \in {a, t} |-> IF m = a THEN "attribute" ELSE "text"]
           b == [m \in {a, t} |-> IF m = a THEN {} ELSE {a}]
           P == Path(heap, p)
           g == Graft(heap, N, k, b, P)
<1>3. /\ InOrder(heap) /\ Forest(heap) /\ heap \in Heap /\ NULL \notin Nodes
      /\ p \in Allocated(heap) /\ ~InAttribute(heap, p) /\ heap.kind[p] = "element"
  BY WrappedGood DEF Good, InOrder, HeapAssumption, AddAttribute
<1>4. Branch(heap, P)
  BY <1>3, PathBranch
<1>5. \A m \in P : m \in Nodes \ N /\ heap.kind[m] # "attribute"
  <2>1. P = heap.above[p] \cup {p} /\ heap.above[p] \subseteq Nodes
    BY <1>3 DEF Path, Heap
  <2>2. \A m \in P : heap.kind[m] # "free" /\ heap.kind[m] # "attribute"
    BY <1>3, <2>1 DEF InAttribute, Forest
  <2> QED BY <2>1, <2>2 DEF Free
<1>6. Arrangement(N, k, b)
  BY DEF Arrangement, Kinds
<1>7. \A m \in N : /\ k[m] = "attribute" \/ k[m] = "text"
                   /\ k[m] = "attribute" => b[m] = {}
  OBVIOUS
<1>8. k[a] = "attribute" /\ b[a] = {} /\ a \in N /\ t \in N /\ N \in SUBSET Free(heap)
      /\ k[t] = "text"
  OBVIOUS
<1>9. g = NewAttribute(heap, a, t, p)
  BY DEF NewAttribute
<1> HIDE DEF N, k, b, P, g
<1>10. Grafted(heap, g, N, k, b, P)
  <2>1. \A m \in N : /\ k[m] = "dtd" => b[m] = {} /\ P = {}
                     /\ k[m] \in Decls => b[m] = {} /\ \A i \in P : heap.kind[i] = "dtd"
                     /\ k[m] = "attribute" => /\ \A i \in P : heap.kind[i] # "attribute"
                                              /\ \A i \in b[m] : k[i] # "attribute"
    BY <1>5, <1>7 DEF Decls
  <2> QED BY <1>3, <1>4, <1>6, <1>8, <2>1, GraftInOrder DEF g
<1>11. /\ InOrder(g) /\ g.private = heap.private /\ g.object = heap.object
       /\ \A m \in N : g.kind[m] = k[m] /\ g.above[m] = b[m] \cup P
       /\ \A m \in Nodes \ N : g.kind[m] = heap.kind[m] /\ g.above[m] = heap.above[m]
  BY <1>10 DEF Grafted
<1>12. Good(g)
  BY <1>11 DEF Good
<1>13. a \in Allocated(g) /\ g.kind[a] = "attribute" /\ ~InAttribute(g, a)
  <2>1. g.kind[a] = "attribute" /\ a \in Nodes
    BY <1>8, <1>11 DEF Free
  <2> QED BY <1>12, <2>1 DEF Good, InOrder, Placed, Allocated, Free
<1>14. Kept(heap, g)
  BY <1>11, SameObjects
<1>15. "Attribute" \in DOMAIN Derived /\ ClassOf[g.kind[a]] \in Derived["Attribute"]
  BY <1>13 DEF ClassOf, Derived
<1> QED BY <1>2, <1>9, <1>12, <1>13, <1>14, <1>15, ReturnOutcome

\* A document without a DTD is given one.
LEMMA SetInternalSubsetOutcome ==
  ASSUME HeapAssumption, Good(heap), SetInternalSubset
  PROVE  Outcome
<1>1. PICK t \in Free(heap) : Wrap(NewNode(heap, t, "dtd", NULL), t)
  BY DEF SetInternalSubset
<1> DEFINE h == NewNode(heap, t, "dtd", NULL)
<1>2. /\ Good(h) /\ h.object = heap.object
      /\ t \in Allocated(h) /\ h.above[t] = Path(heap, NULL)
  BY NewNodeGood DEF Kinds
<1>3. Wrap(h, t)
  BY <1>1
<1> HIDE DEF h
<1>4. ~InAttribute(h, t)
  BY <1>2 DEF InAttribute, Path
<1> QED BY <1>2, <1>3, <1>4, SameObjects, WrapOutcome

\* The first text of an element is looked at, or a new one added.
LEMMA SetFirstChildTextOutcome ==
  ASSUME HeapAssumption, Good(heap), NEW p \in Nodes, SetFirstChildText(p)
  PROVE  Outcome
<1>1. Kept(heap, heap) /\ p \in Allocated(heap) /\ ~InAttribute(heap, p) /\ heap.kind[p] = "element"
  BY WrappedGood DEF SetFirstChildText, Kept
<1>2. ASSUME NEW t \in TextsOf(p), Wrap(heap, t) PROVE Outcome
  <2>1. t \in Allocated(heap) /\ ~InAttribute(heap, t)
    BY WrappedGood DEF SetFirstChildText, TextsOf, OfKind
  <2> QED BY <1>1, <1>2, <2>1, WrapOutcome
<1>3. ASSUME NEW n \in Free(heap), Wrap(NewNode(heap, n, "text", p), n) PROVE Outcome
  <2> DEFINE h == NewNode(heap, n, "text", p)
  <2>1. Good(h) /\ Kept(heap, h) /\ n \in Allocated(h) /\ ~InAttribute(h, n)
    BY <1>1, NewNodeInPlace DEF Copyable
  <2> HIDE DEF h
  <2>2. Wrap(h, n)
    BY <1>3 DEF h
  <2> QED BY <2>1, <2>2, WrapOutcome
<1> QED BY <1>2, <1>3 DEF SetFirstChildText

\* The calls that add nodes.
LEMMA AddOutcome ==
  ASSUME HeapAssumption, Uses = {}, Good(heap), Add
  PROVE  Outcome
<1>1. InOrder(heap) /\ heap \in Heap /\ NULL \notin Nodes /\ Kept(heap, heap)
  BY DEF Good, InOrder, HeapAssumption, Kept
<1>2. ASSUME NEW p \in Nodes, AddChildElement(p) \/ AddChildLeaf(p) PROVE Outcome
  <2>1. PICK n \in Free(heap) : \/ Return(NewNode(heap, n, "element", p), n, "Element")
                               \/ Return(NewNode(heap, n, "leaf", p), n, "LeafNode")
    BY <1>2 DEF AddChildElement, AddChildLeaf
  <2>2. p \in Allocated(heap) /\ ~InAttribute(heap, p) /\ heap.kind[p] = "element"
    BY <1>2, WrappedGood DEF AddChildElement, AddChildLeaf
  <2>3. /\ {"element", "leaf"} \subseteq Copyable \ {"attribute"}
        /\ "Element" \in DOMAIN Derived /\ ClassOf["element"] \in Derived["Element"]
        /\ "LeafNode" \in DOMAIN Derived /\ ClassOf["leaf"] \in Derived["LeafNode"]
    BY DEF Copyable, ClassOf, Derived
  <2> QED BY <2>1, <2>2, <2>3, ReturnNewNode
<1>3. ASSUME NEW p \in Nodes, AddText(p) PROVE Outcome
  <2>1. p \in Allocated(heap) /\ ~InAttribute(heap, p) /\ heap.kind[p] = "element"
    BY <1>3, WrappedGood DEF AddText
  <2>2. /\ "text" \in Copyable \ {"attribute"} /\ "TextNode" \in DOMAIN Derived
        /\ ClassOf["text"] \in Derived["TextNode"]
    BY DEF Copyable, ClassOf, Derived
  <2>3. ASSUME NEW n \in Free(heap), Return(NewNode(heap, n, "text", p), n, "TextNode") PROVE Outcome
    BY <2>1, <2>2, <2>3, ReturnNewNode
  <2>4. ASSUME NEW t \in Mergeable(p), Return(heap, t, "TextNode") PROVE Outcome
    BY <1>1, <1>3, <2>1, <2>2, <2>4, MergeableGood, ReturnOutcome DEF AddText
  <2> QED BY <1>3, <2>3, <2>4 DEF AddText
<1>4. ASSUME AddToDocument PROVE Outcome
  <2>1. PICK n \in Free(heap) : Return(NewNode(heap, n, "leaf", NULL), n, "LeafNode")
    BY <1>4 DEF AddToDocument
  <2>2. /\ "leaf" \in Copyable \ {"attribute"} /\ "LeafNode" \in DOMAIN Derived
        /\ ClassOf["leaf"] \in Derived["LeafNode"]
    BY DEF Copyable, ClassOf, Derived
  <2> QED BY <2>1, <2>2, ReturnNewNode
<1>5. ASSUME SetEntityDeclaration PROVE Outcome
  <2>1. PICK t \in Dtds, d \in Free(heap) : ReturnNothing(NewNode(heap, d, "entity_decl", t))
    BY <1>5 DEF SetEntityDeclaration
  <2>2. t \in Allocated(heap) /\ heap.kind[t] = "dtd" /\ t # NULL
    BY <1>1, <2>1 DEF Dtds, OfKind, Allocated, Free
  <2>3. Good(NewNode(heap, d, "entity_decl", t)) /\ NewNode(heap, d, "entity_decl", t).object = heap.object
    BY <2>2, NewNodeGood DEF Kinds
  <2> QED BY <2>1, <2>3, SameObjects, ReturnNothingOutcome
<1> QED BY <1>2, <1>3, <1>4, <1>5, AddAttributeOutcome, SetAttributeOutcome,
           SetInternalSubsetOutcome, SetFirstChildTextOutcome DEF Add

\* Removing a node or an attribute.
LEMMA RemoveOutcome ==
  ASSUME HeapAssumption, Good(heap), NEW n \in Nodes, RemoveAttribute(n) \/ RemoveNode(n)
  PROVE  Outcome
<1>1. PICK h : ReturnNothing(h) /\ (h = heap \/ \E m \in Nodes : h = Remove(heap, m))
  BY DEF RemoveAttribute, RemoveNode, HasNsProp, AttributesOf, OfKind
<1>2. Good(h) /\ Kept(heap, h)
  BY <1>1, RemoveGood, SameObjects
<1> QED BY <1>1, <1>2, ReturnNothingOutcome

\* Importing; an attribute may replace another one.
LEMMA ImportOutcome ==
  ASSUME HeapAssumption, Uses = {}, Good(heap), NEW p \in Nodes, NEW s \in Nodes,
         \/ \E recursive \in BOOLEAN : ImportNode(p, s, recursive)
         \/ ImportText(p, s) \/ ImportAttribute(p, s)
  PROVE  Outcome
<1>1. InOrder(heap) /\ heap \in Heap /\ NULL \notin Nodes /\ Kept(heap, heap) /\ Wrapped(p)
  BY DEF Good, InOrder, HeapAssumption, Kept, ImportNode, ImportText, ImportAttribute
<1>2. p \in Allocated(heap) /\ ~InAttribute(heap, p) /\ heap.kind[p] # "attribute"
  BY <1>1, WrappedGood DEF ImportNode, ImportText, ImportAttribute
<1>3. \A k \in Copyable : "Node" \in DOMAIN Derived /\ ClassOf[k] \in Derived["Node"]
  BY DEF Copyable, ClassOf, Derived, Classes
<1>4. ASSUME NEW t \in Mergeable(p), Return(heap, t, "Node") PROVE Outcome
  <2>1. t \in Allocated(heap) /\ ~InAttribute(heap, t) /\ heap.kind[t] \in Copyable
    BY <1>1, <1>2, MergeableGood DEF Copyable
  <2> QED BY <1>1, <1>3, <1>4, <2>1, ReturnOutcome
<1>5. ASSUME NEW recursive \in BOOLEAN, ImportNode(p, s, recursive) PROVE Outcome
  <2>1. heap.kind[s] \in Copyable
    BY <1>5 DEF ImportNode
  <2>2. ASSUME ReturnCopy(heap, s, recursive, p, "Node") PROVE Outcome
    BY <1>1, <1>2, <1>3, <2>1, <2>2, ReturnCopyOutcome
  <2> QED BY <1>4, <1>5, <2>2 DEF ImportNode
<1>6. ASSUME ImportText(p, s) PROVE Outcome
  BY <1>4, <1>6 DEF ImportText
<1>7. ASSUME ImportAttribute(p, s) PROVE Outcome
  <2>1. heap.kind[s] \in Copyable /\ TRUE \in BOOLEAN
    BY <1>7 DEF ImportAttribute, Copyable
  <2>2. ASSUME ReturnCopy(heap, s, TRUE, p, "Node") PROVE Outcome
    BY <1>1, <1>2, <1>3, <2>1, <2>2, ReturnCopyOutcome
  <2>3. ASSUME NEW a \in AttributesOf(p), ReturnCopy(Remove(heap, a), s, TRUE, p, "Node")
        PROVE Outcome
    <3> DEFINE h == Remove(heap, a)
    <3>1. a \in Nodes /\ heap.above[a] = heap.above[p] \cup {p} /\ heap.kind[a] = "attribute"
      BY DEF AttributesOf, OfKind, ChildOf
    <3>2. /\ Good(h) /\ Kept(heap, h)
          /\ \A m \in Subtree(heap, a) : h.kind[m] = "free"
          /\ \A m \in Nodes \ Subtree(heap, a) : h.kind[m] = heap.kind[m] /\ h.above[m] = heap.above[m]
      BY <3>1, RemoveGood
    <3> HIDE DEF h
    <3>3. \A m \in heap.above[p] \cup {p} : m \notin Subtree(heap, a)
      BY <1>1, <1>2, <3>1 DEF InOrder, Forest, Subtree, Below
    <3>4. p \in Allocated(h) /\ h.kind[p] # "attribute" /\ h.above[p] = heap.above[p]
      BY <1>2, <3>2, <3>3 DEF Allocated, Free
    <3>5. ~InAttribute(h, p)
      BY <1>1, <1>2, <3>2, <3>3, <3>4 DEF InAttribute, Heap
    <3>6. Free(heap) \subseteq Free(h)
      BY <3>2 DEF Free
    <3> QED BY <1>3, <2>1, <2>3, <3>2, <3>4, <3>5, <3>6, ReturnCopyOutcome DEF h
  <2> QED BY <1>7, <2>2, <2>3 DEF ImportAttribute
<1> QED BY <1>5, <1>6, <1>7

\* A new root, new or copied, in place of the old one.
LEMMA CreateRootNodeOutcome ==
  ASSUME HeapAssumption, Good(heap),
         CreateRootNode \/ \E s \in Nodes : \E recursive \in BOOLEAN : CreateRootNodeByImport(s, recursive)
  PROVE  Outcome
<1>1. InOrder(heap) /\ heap \in Heap /\ NULL \notin Nodes /\ Kept(heap, heap)
  BY DEF Good, InOrder, HeapAssumption, Kept
<1>2. "Element" \in DOMAIN Derived /\ ClassOf["element"] \in Derived["Element"]
  BY DEF ClassOf, Derived
<1>3. ASSUME CreateRootNode PROVE Outcome
  <2>1. PICK n \in Free(heap) : \E h \in ReplaceRoot(NewNode(heap, n, "element", NULL)) :
          Return(h, n, "Element")
    BY <1>3 DEF CreateRootNode
  <2> DEFINE g == NewNode(heap, n, "element", NULL)
  <2>2. PICK h \in ReplaceRoot(g) : Return(h, n, "Element")
    BY <2>1
  <2>3. /\ Good(g) /\ g.private = heap.private /\ g.object = heap.object
        /\ n \in Allocated(g) /\ g.kind[n] = "element" /\ g.above[n] = Path(heap, NULL)
        /\ \A m \in Nodes \ {n} : g.kind[m] = heap.kind[m] /\ g.above[m] = heap.above[m]
    BY NewNodeGood DEF Kinds
  <2> HIDE DEF g
  <2>4. g.above[n] = {} /\ Kept(heap, g)
    BY <2>3, SameObjects DEF Path
  <2>5. CASE h = g
    BY <1>2, <2>2, <2>3, <2>4, <2>5, ReturnOutcome DEF InAttribute
  <2>6. ASSUME NEW r \in Roots, h = Remove(g, r) PROVE Outcome
    <3>1. r \in Nodes /\ n \notin Subtree(g, r)
      BY <2>4 DEF Roots, OfKind, Subtree, Below, Free
    <3>2. /\ Good(h) /\ Kept(g, h)
          /\ \A m \in Nodes \ Subtree(g, r) : h.kind[m] = g.kind[m] /\ h.above[m] = g.above[m]
      BY <2>3, <2>6, <3>1, RemoveGood
    <3>3. n \in Allocated(h) /\ h.kind[n] = "element" /\ ~InAttribute(h, n)
      BY <2>3, <2>4, <3>1, <3>2 DEF Allocated, Free, InAttribute
    <3>4. Kept(heap, h)
      <4> SUFFICES ASSUME NEW v \in Live(heap), NEW m, m = heap.object[v].impl,
                          m \in Allocated(h), h.kind[m] = heap.kind[m], h.above[m] = heap.above[m]
                   PROVE  h.object[v] = heap.object[v]
        BY DEF Kept
      <4>1. m \in Nodes \ {n}
        BY <1>1 DEF InOrder, ObjectsLinked, Allocated, Free
      <4>2. v \in Live(g) /\ g.object[v] = heap.object[v]
        BY <2>3 DEF Live
      <4> QED BY <2>3, <3>2, <4>1, <4>2 DEF Kept
    <3> QED BY <1>2, <2>2, <3>2, <3>3, <3>4, ReturnOutcome
  <2> QED BY <2>2, <2>5, <2>6 DEF ReplaceRoot
<1>4. ASSUME NEW s \in Nodes, NEW recursive \in BOOLEAN, CreateRootNodeByImport(s, recursive)
      PROVE  Outcome
  <2>1. PICK h \in ReplaceRoot(heap) : ReturnCopy(h, s, recursive, NULL, "Element")
    BY <1>4 DEF CreateRootNodeByImport
  <2>2. heap.kind[s] = "element" /\ heap.kind[s] \in Copyable
    BY <1>4 DEF CreateRootNodeByImport, Copyable
  <2>3. Good(h) /\ Kept(heap, h) /\ Free(heap) \subseteq Free(h)
    <3>1. CASE h = heap
      BY <1>1, <3>1
    <3>2. ASSUME NEW r \in Roots, h = Remove(heap, r) PROVE Good(h) /\ Kept(heap, h) /\ Free(heap) \subseteq Free(h)
      <4>1. r \in Nodes
        BY DEF Roots, OfKind
      <4>2. /\ Good(h) /\ Kept(heap, h)
            /\ \A m \in Subtree(heap, r) : h.kind[m] = "free"
            /\ \A m \in Nodes \ Subtree(heap, r) : h.kind[m] = heap.kind[m]
        BY <3>2, <4>1, RemoveGood
      <4> QED BY <4>2 DEF Free
    <3> QED BY <3>1, <3>2 DEF ReplaceRoot
  <2> QED BY <1>2, <2>1, <2>2, <2>3, ReturnCopyOutcome
<1> QED BY <1>3, <1>4

-----------------------------------------------------------------------------
(* process_xinclude().                                                     *)

\* From heap to h libxml2 has freed, changed and added nodes; those it freed or changed were in T.
Rewritten(h, T) ==
  /\ h \in Heap /\ Forest(h) /\ Placed(h)
  /\ h.object = heap.object
  /\ \A n \in Nodes : h.kind[n] = "attribute" => heap.kind[n] = "attribute"
  /\ \A n \in Nodes :
       \/ /\ h.private[n] = heap.private[n] /\ h.above[n] = heap.above[n]
          /\ h.kind[n] = heap.kind[n] \/ (n \in T /\ h.kind[n] # "free")
       \/ /\ h.private[n] = NULL
          /\ n \in T \/ heap.kind[n] = "free"
          /\ h.kind[n] = "free" \/ h.above[n] # heap.above[n] \/ heap.kind[n] = "free"

\* The wrappers that are not found again are just those of the nodes that are gone or changed.
LEMMA DeleteStaleGood ==
  ASSUME HeapAssumption, Good(heap), NEW T \in SUBSET Nodes, NEW h, Rewritten(h, T)
  PROVE  LET g == DeleteStale(h, {heap.private[n] : n \in T} \ {NULL}) IN
         Good(g) /\ Kept(heap, g)
<1> DEFINE known == {heap.private[n] : n \in T} \ {NULL}
           Changed(n) == h.kind[n] # heap.kind[heap.object[h.private[n]].impl]
           stale == {w \in known : \A n \in Allocated(h) :
                                     h.private[n] = w => Changed(n)}
           P == [n \in Nodes |-> IF h.private[n] \in stale THEN NULL ELSE h.private[n]]
           O == [w \in Wrappers |-> IF w \in stale THEN Deleted ELSE h.object[w]]
           g == DeleteStale(h, known)
<1>1. /\ InOrder(heap) /\ heap \in Heap /\ h \in Heap /\ NULL \notin Wrappers
      /\ h.object = heap.object
  BY DEF Good, InOrder, Rewritten, HeapAssumption
<1>2. \A w \in known : w \in Wrappers /\ \E n \in T : heap.private[n] = w
  BY <1>1 DEF Heap
\* The object that h.private[n] points to wraps n.
<1>3. \A n \in Nodes : h.private[n] # NULL =>
        /\ h.private[n] = heap.private[n] /\ h.private[n] \in Live(heap)
        /\ heap.object[h.private[n]].impl = n /\ heap.kind[n] # "free" /\ h.kind[n] # "free"
        /\ h.above[n] = heap.above[n]
  <2> SUFFICES ASSUME NEW n \in Nodes, h.private[n] # NULL
      PROVE /\ h.private[n] = heap.private[n] /\ h.private[n] \in Live(heap)
            /\ heap.object[h.private[n]].impl = n /\ heap.kind[n] # "free" /\ h.kind[n] # "free"
            /\ h.above[n] = heap.above[n]
    OBVIOUS
  <2>1. /\ h.private[n] = heap.private[n] /\ h.above[n] = heap.above[n]
        /\ h.kind[n] = heap.kind[n] \/ h.kind[n] # "free"
    BY DEF Rewritten
  <2>2. heap.private[n] \in Live(heap) /\ heap.object[heap.private[n]].impl = n
    BY <1>1, <2>1 DEF InOrder, PrivateLinked
  <2>3. heap.kind[n] # "free"
    BY <1>1, <2>1 DEF InOrder, Forest
  <2> QED BY <2>1, <2>2, <2>3
<1>5. stale = {w \in known : \A n \in Allocated(h) : h.private[n] = w => h.kind[n] # heap.kind[n]}
  <2>1. \A n \in Nodes : h.private[n] # NULL => heap.object[h.private[n]].impl = n
    BY <1>3
  <2>2. Allocated(h) \subseteq Nodes
    BY DEF Allocated
  <2>3. \A w \in known : w # NULL
    OBVIOUS
  <2> QED BY <2>1, <2>2, <2>3
<1>6. g = [h EXCEPT !.private = P, !.object = O]
  BY DEF DeleteStale
<1> HIDE DEF stale
<1>7. stale \subseteq known
  BY <1>5
<1>8. /\ P \in [Nodes -> Wrappers \cup {NULL}] /\ O \in [Wrappers -> Object \cup {Deleted}]
      /\ \A n \in Nodes : P[n] = IF h.private[n] \in stale THEN NULL ELSE h.private[n]
      /\ \A w \in Wrappers : O[w] = IF w \in stale THEN Deleted ELSE h.object[w]
  BY <1>1 DEF Heap
<1> HIDE DEF g, P, O
<1>9. g = [kind |-> h.kind, above |-> h.above, private |-> P, object |-> O]
  BY <1>1, <1>6 DEF Heap
<1>10. /\ g \in Heap /\ g.kind = h.kind /\ g.above = h.above
       /\ \A n \in Nodes : g.private[n] = IF h.private[n] \in stale THEN NULL ELSE h.private[n]
       /\ \A w \in Wrappers : g.object[w] = IF w \in stale THEN Deleted ELSE heap.object[w]
  BY <1>1, <1>8, <1>9 DEF Heap
\* An object that is kept wraps a node that has kept its wrapper, its place and its type.
<1>11. ASSUME NEW v \in Live(heap), v \notin stale, NEW n, n = heap.object[v].impl
       PROVE  /\ n \in Allocated(h) /\ h.private[n] = v /\ h.kind[n] = heap.kind[n]
              /\ heap.object[v].class = ClassOf[heap.kind[n]]
  <2>1. /\ n \in Nodes /\ heap.kind[n] # "free" /\ heap.private[n] = v /\ v \in Wrappers
        /\ heap.object[v].class = ClassOf[heap.kind[n]]
    BY <1>1, <1>11 DEF InOrder, ObjectsLinked, Allocated, Free, Live
  <2>2. CASE v \in known
    <3>1. PICK m \in Allocated(h) : h.private[m] = v /\ h.kind[m] = heap.kind[m]
      BY <1>5, <1>11, <2>2
    <3>2. m = n
      BY <1>1, <1>3, <1>11, <2>1, <3>1 DEF Allocated
    <3> QED BY <2>1, <3>1, <3>2
  <2>3. CASE v \notin known
    <3>1. n \notin T
      BY <1>1, <2>1, <2>3
    <3>2. h.private[n] = heap.private[n] /\ h.kind[n] = heap.kind[n]
      BY <2>1, <3>1 DEF Rewritten
    <3> QED BY <2>1, <3>2 DEF Allocated, Free
  <2> QED BY <2>2, <2>3
<1>12. ObjectsLinked(g)
  <2> SUFFICES ASSUME NEW v \in Live(g), NEW n, n = g.object[v].impl
      PROVE n \in Allocated(g) /\ g.private[n] = v /\ g.object[v].class = ClassOf[g.kind[n]]
    BY DEF ObjectsLinked
  <2>1. v \in Live(heap) /\ v \notin stale /\ g.object[v] = heap.object[v]
    BY <1>10 DEF Live
  <2> QED BY <1>10, <1>11, <2>1 DEF Allocated, Free
<1>13. PrivateLinked(g)
  <2> SUFFICES ASSUME NEW n \in Nodes, g.private[n] # NULL
      PROVE g.private[n] \in Live(g) /\ g.object[g.private[n]].impl = n
    BY DEF PrivateLinked
  <2>1. h.private[n] \notin stale /\ g.private[n] = h.private[n] /\ h.private[n] # NULL
    BY <1>10
  <2> QED BY <1>3, <1>10, <2>1 DEF Live
<1>14. Forest(g) /\ Placed(g)
  BY <1>10 DEF Rewritten, Forest, Placed, InAttribute
<1>15. TextUnwrapped(g)
  <2> SUFFICES ASSUME NEW n \in Nodes, InAttribute(g, n), g.private[n] # NULL PROVE FALSE
    BY DEF TextUnwrapped
  <2>1. h.private[n] # NULL
    BY <1>10
  <2>2. heap.private[n] # NULL /\ g.above[n] = heap.above[n]
    BY <1>3, <1>10, <2>1
  <2>3. PICK a \in heap.above[n] : g.kind[a] = "attribute"
    BY <2>2 DEF InAttribute
  <2>4. heap.kind[a] = "attribute"
    BY <1>1, <1>10, <2>3 DEF Rewritten, Heap
  <2> QED BY <1>1, <2>2, <2>4 DEF InOrder, TextUnwrapped, InAttribute
<1>16. Kept(heap, g)
  <2> SUFFICES ASSUME NEW v \in Live(heap), NEW n, n = heap.object[v].impl,
                      n \in Allocated(g), g.kind[n] = heap.kind[n], g.above[n] = heap.above[n]
               PROVE  g.object[v] = heap.object[v]
    BY DEF Kept
  <2>1. n \in Nodes /\ heap.private[n] = v /\ heap.kind[n] # "free" /\ v \in Wrappers
    BY <1>1 DEF InOrder, ObjectsLinked, Allocated, Free, Live
  <2>2. h.private[n] = v /\ n \in Allocated(h)
    BY <1>10, <2>1 DEF Rewritten, Allocated, Free
  <2>3. v \notin stale
    BY <1>5, <1>10, <2>2
  <2> QED BY <1>10, <2>1, <2>3
<1> QED BY <1>10, <1>12, <1>13, <1>14, <1>15, <1>16 DEF Good, InOrder, g

\* What the inclusion at x has made of the nodes: F are freed, N are new, and x may have become
\* an XIncludeStart.
Inclusion(h, x, F, N) ==
  /\ h \in Heap /\ h.object = heap.object
  /\ \A n \in N : h.kind[n] \in {"leaf", "element"} /\ h.above[n] = heap.above[x] /\ h.private[n] = NULL
  /\ \A n \in F \ N : h.kind[n] = "free" /\ h.above[n] = {} /\ h.private[n] = NULL
  /\ \A n \in Nodes \ (F \cup N) :
       /\ h.above[n] = heap.above[n] /\ h.private[n] = heap.private[n]
       /\ h.kind[n] = heap.kind[n] \/ (n = x /\ h.kind[n] = "include")

LEMMA InclusionRewritten ==
  ASSUME HeapAssumption, Good(heap), NEW T \in SUBSET Nodes, NEW x \in T, heap.kind[x] = "element",
         Subtree(heap, x) \subseteq T,
         NEW F \in SUBSET Subtree(heap, x),
         \A n \in Nodes : heap.above[n] \cap F # {} => n \in F,
         NEW N \in SUBSET (Free(heap) \cup F), x \notin N,
         NEW h, Inclusion(h, x, F, N)
  PROVE  Rewritten(h, T)
<1>1. /\ heap \in Heap /\ Forest(heap) /\ Placed(heap)  /\ h \in Heap
      /\ F \subseteq Nodes /\ N \subseteq Nodes /\ x \in Nodes /\ h.object = heap.object
      /\ heap.above[x] \subseteq Nodes
  BY DEF Good, InOrder, Subtree, Below, Free, Inclusion, Heap
<1>2. \A n \in F : n = x \/ x \in heap.above[n]
  BY DEF Subtree, Below
<1>3. heap.above[x] \cap (F \cup N) = {}
  BY <1>1, <1>2 DEF Forest, Free
<1>4. \A n \in Nodes \ (F \cup N) : heap.above[n] \cap (F \cup N) = {} /\ heap.above[n] \subseteq Nodes
  <2> SUFFICES ASSUME NEW n \in Nodes, n \notin F \cup N
      PROVE  heap.above[n] \cap (F \cup N) = {} /\ heap.above[n] \subseteq Nodes
    OBVIOUS
  <2>1. heap.above[n] \cap F = {}
    OBVIOUS
  <2>2. \A m \in heap.above[n] : m \notin Free(heap)
    BY <1>1 DEF Forest, Free
  <2>3. heap.above[n] \subseteq Nodes
    BY <1>1 DEF Heap
  <2> QED BY <2>1, <2>2, <2>3
<1>5. \A n \in Nodes \ (F \cup N) : n # x => h.kind[n] = heap.kind[n]
  BY DEF Inclusion
<1>6. Forest(h)
  <2> SUFFICES ASSUME NEW n \in Nodes
      PROVE /\ h.kind[n] = "free" => h.above[n] = {} /\ h.private[n] = NULL
            /\ n \notin h.above[n]
            /\ \A m \in h.above[n] : h.kind[m] # "free" /\ h.above[m] \subseteq h.above[n]
            /\ \A m, k \in h.above[n] : m = k \/ m \in h.above[k] \/ k \in h.above[m]
    BY DEF Forest
  <2>1. CASE n \in N
    <3>1. h.above[n] = heap.above[x] /\ h.kind[n] # "free" /\ n \notin heap.above[x]
      BY <1>3, <2>1 DEF Inclusion
    <3>2. \A m \in heap.above[x] : /\ h.kind[m] # "free" /\ h.above[m] = heap.above[m]
                                   /\ heap.above[m] \subseteq heap.above[x]
      BY <1>1, <1>3 DEF Inclusion, Forest
    <3>3. \A m, k \in heap.above[x] : m = k \/ m \in heap.above[k] \/ k \in heap.above[m]
      BY <1>1 DEF Forest
    <3> QED BY <3>1, <3>2, <3>3
  <2>2. CASE n \in F \ N
    BY <2>2 DEF Inclusion
  <2>3. CASE n \notin F \cup N
    <3>1. h.above[n] = heap.above[n] /\ (h.kind[n] = "free" => heap.kind[n] = "free")
          /\ h.private[n] = heap.private[n]
      BY <2>3 DEF Inclusion
    <3>2. \A m \in heap.above[n] : /\ h.kind[m] # "free" /\ h.above[m] = heap.above[m]
                                   /\ heap.above[m] \subseteq heap.above[n]
      BY <1>1, <1>4, <2>3 DEF Inclusion, Forest
    <3>3. /\ \A m, k \in heap.above[n] : m = k \/ m \in heap.above[k] \/ k \in heap.above[m]
          /\ heap.kind[n] = "free" => heap.above[n] = {} /\ heap.private[n] = NULL
          /\ n \notin heap.above[n]
      BY <1>1 DEF Forest
    <3> QED BY <3>1, <3>2, <3>3
  <2> QED BY <2>1, <2>2, <2>3
<1>7. Placed(h)
  <2> SUFFICES ASSUME NEW n \in Nodes
      PROVE /\ h.kind[n] = "dtd" => h.above[n] = {}
            /\ h.kind[n] \in Decls => \A m \in h.above[n] : h.kind[m] = "dtd"
            /\ h.kind[n] = "attribute" => \A m \in h.above[n] : h.kind[m] # "attribute"
    BY DEF Placed, Decls, InAttribute
  <2>1. CASE n \in F \cup N
    BY <2>1 DEF Inclusion, Decls
  <2>2. CASE n \notin F \cup N /\ n = x
    <3>1. h.kind[n] \in {"element", "include"}
      BY <1>1, <2>2 DEF Inclusion
    <3> QED BY <3>1 DEF Decls
  <2>3. CASE n \notin F \cup N /\ n # x
    <3>1. h.kind[n] = heap.kind[n] /\ h.above[n] = heap.above[n]
      BY <1>5, <2>3 DEF Inclusion
    <3>2. \A m \in heap.above[n] : m \in Nodes \ (F \cup N)
      BY <1>4, <2>3
    <3>3. \A m \in heap.above[n] : /\ heap.kind[m] = "dtd" => h.kind[m] = "dtd"
                                   /\ heap.kind[m] # "attribute" => h.kind[m] # "attribute"
      BY <3>2 DEF Inclusion
    <3> QED BY <1>1, <3>1, <3>3 DEF Placed, Decls, InAttribute
  <2> QED BY <2>1, <2>2, <2>3
<1>9. \A n \in Nodes : h.kind[n] = "attribute" => heap.kind[n] = "attribute"
  BY DEF Inclusion
<1>10. ASSUME NEW n \in Nodes
       PROVE  \/ /\ h.private[n] = heap.private[n] /\ h.above[n] = heap.above[n]
                 /\ h.kind[n] = heap.kind[n] \/ (n \in T /\ h.kind[n] # "free")
              \/ /\ h.private[n] = NULL
                 /\ n \in T \/ heap.kind[n] = "free"
                 /\ h.kind[n] = "free" \/ h.above[n] # heap.above[n] \/ heap.kind[n] = "free"
  <2>1. CASE n \notin F \cup N
    BY <2>1 DEF Inclusion
  <2>2. CASE n \in F \ N
    BY <2>2 DEF Inclusion
  <2>3. CASE n \in N /\ heap.kind[n] # "free"
    <3>1. n \in F /\ n # x
      BY <2>3 DEF Free
    <3>2. x \in heap.above[n] /\ x \notin heap.above[x]
      BY <1>1, <1>2, <3>1 DEF Forest
    <3> QED BY <2>3, <3>1, <3>2 DEF Inclusion
  <2>4. CASE n \in N /\ heap.kind[n] = "free"
    BY <2>4 DEF Inclusion
  <2> QED BY <2>1, <2>2, <2>3, <2>4
<1> QED BY <1>1, <1>6, <1>7, <1>9, <1>10 DEF Rewritten

\* What xmlFreeNode() changes, wrapped or not.
LEMMA FreeFields ==
  ASSUME NEW h \in Heap, NEW S \in SUBSET Nodes
  PROVE  LET g == FreeNodes(h, S) IN
         /\ g \in Heap /\ g.object = h.object
         /\ \A n \in S : g.kind[n] = "free" /\ g.above[n] = {} /\ g.private[n] = NULL
         /\ \A n \in Nodes \ S : /\ g.above[n] = h.above[n] /\ g.private[n] = h.private[n]
                                 /\ g.kind[n] = h.kind[n]
<1> DEFINE g == FreeNodes(h, S)
           K == [n \in Nodes |-> IF n \in S THEN "free" ELSE h.kind[n]]
           A == [n \in Nodes |-> IF n \in S THEN {} ELSE h.above[n]]
           P == [n \in Nodes |-> IF n \in S THEN NULL ELSE h.private[n]]
<1>1. g = [h EXCEPT !.kind = K, !.above = A, !.private = P]
  BY DEF FreeNodes
<1>2. /\ K \in [Nodes -> Kinds \cup {"free"}] /\ A \in [Nodes -> SUBSET Nodes]
      /\ P \in [Nodes -> Wrappers \cup {NULL}]
      /\ \A n \in S : K[n] = "free" /\ A[n] = {} /\ P[n] = NULL
      /\ \A n \in Nodes \ S : K[n] = h.kind[n] /\ A[n] = h.above[n] /\ P[n] = h.private[n]
  BY DEF Heap
<1> HIDE DEF g, K, A, P
<1>3. g = [kind |-> K, above |-> A, private |-> P, object |-> h.object]
  BY <1>1 DEF Heap
<1> QED BY <1>2, <1>3 DEF Heap, g

\* What linking new nodes that contain no other changes.
LinkedBelow(h, g, N, P) ==
  /\ g \in Heap /\ g.private = h.private /\ g.object = h.object
  /\ \A n \in N : g.kind[n] \in {"leaf", "element"} /\ g.above[n] = P
  /\ \A n \in Nodes \ N : g.kind[n] = h.kind[n] /\ g.above[n] = h.above[n]

LEMMA GraftFields ==
  ASSUME NEW h \in Heap, NEW N \in SUBSET Nodes, NEW k \in [N -> {"leaf", "element"}],
         NEW P \in SUBSET Nodes
  PROVE  LinkedBelow(h, Graft(h, N, k, [n \in N |-> {}], P), N, P)
<1> DEFINE g == Graft(h, N, k, [n \in N |-> {}], P)
           K == [n \in Nodes |-> IF n \in N THEN k[n] ELSE h.kind[n]]
           A == [n \in Nodes |-> IF n \in N THEN P ELSE h.above[n]]
<1>1. g = [h EXCEPT !.kind = K, !.above = [n \in Nodes |-> IF n \in N THEN [m \in N |-> {}][n] \cup P
                                                         ELSE h.above[n]]]
  BY DEF Graft
<1>2. [n \in Nodes |-> IF n \in N THEN [m \in N |-> {}][n] \cup P ELSE h.above[n]] = A
  OBVIOUS
<1>3. /\ K \in [Nodes -> Kinds \cup {"free"}] /\ A \in [Nodes -> SUBSET Nodes]
      /\ \A n \in N : K[n] \in {"leaf", "element"} /\ A[n] = P
      /\ \A n \in Nodes \ N : K[n] = h.kind[n] /\ A[n] = h.above[n]
  BY DEF Heap, Kinds
<1> HIDE DEF g, K, A
<1>4. g = [kind |-> K, above |-> A, private |-> h.private, object |-> h.object]
  BY <1>1, <1>2 DEF Heap
<1>5. LinkedBelow(h, g, N, P)
  BY <1>3, <1>4 DEF Heap, LinkedBelow
<1> QED BY <1>5 DEF g

\* Every heap that the inclusion may leave.
LEMMA IncludedRewritten ==
  ASSUME HeapAssumption, Good(heap), NEW T \in SUBSET Nodes, NEW x \in T, heap.kind[x] = "element",
         Subtree(heap, x) \subseteq T, NEW h \in Included(x)
  PROVE  Rewritten(h, T)
<1> DEFINE C == ContentOf(x)
           S == Subtree(heap, x)
           turned == [heap EXCEPT !.kind[x] = "include"]
           start == Started(x)
           none == Replaced(x)
<1>1. /\ heap \in Heap /\ Forest(heap) /\ x \in Nodes /\ heap.above[x] \in SUBSET Nodes
      /\ \A n \in Nodes : heap.kind[n] = "free" => heap.above[n] = {} /\ heap.private[n] = NULL
  BY DEF Good, InOrder, Heap, Forest
<1>2. /\ S \in SUBSET Nodes /\ C \in SUBSET S /\ x \notin C
      /\ \A n \in Nodes : heap.above[n] \cap S # {} => n \in S
  BY <1>1 DEF ContentOf, Subtree, Below, Forest
<1>3. ASSUME NEW n \in Nodes, heap.above[n] \cap C # {} PROVE n \in C
  <2>1. PICK m \in C : m \in heap.above[n]
    BY <1>3
  <2>2. m \in Nodes /\ x \in heap.above[m] /\ \A b \in AttributesOf(x) : m \notin Subtree(heap, b)
    BY DEF ContentOf, Below
  <2>3. x \in heap.above[n]
    BY <1>1, <2>1, <2>2 DEF Forest
  <2>4. ASSUME NEW b \in AttributesOf(x), n \in Subtree(heap, b) PROVE FALSE
    <3>1. b \in Nodes /\ heap.above[b] = heap.above[x] \cup {x}
      BY DEF AttributesOf, OfKind, ChildOf
    <3>2. m \notin heap.above[b]
      BY <1>1, <2>2, <3>1 DEF Forest
    <3>3. n # b /\ b \in heap.above[n]
      BY <2>1, <2>4, <3>2 DEF Subtree, Below
    <3>4. m # b /\ b \notin heap.above[m]
      BY <2>2, <3>1 DEF Subtree, Below
    <3> QED BY <1>1, <2>1, <3>2, <3>3, <3>4 DEF Forest
  <2> QED BY <2>3, <2>4 DEF ContentOf, Below
<1> HIDE DEF C, S
<1>4. /\ start \in Heap /\ start.object = heap.object
      /\ \A n \in C : start.kind[n] = "free" /\ start.above[n] = {} /\ start.private[n] = NULL
      /\ \A n \in Nodes \ C : /\ start.above[n] = heap.above[n] /\ start.private[n] = heap.private[n]
                              /\ start.kind[n] = IF n = x THEN "include" ELSE heap.kind[n]
  <2> DEFINE K == [heap.kind EXCEPT ![x] = "include"]
  <2>1. K \in [Nodes -> Kinds \cup {"free"}]
        /\ \A n \in Nodes : K[n] = IF n = x THEN "include" ELSE heap.kind[n]
    BY <1>1 DEF Heap, Kinds
  <2>2. turned = [kind |-> K, above |-> heap.above, private |-> heap.private, object |-> heap.object]
    BY <1>1 DEF Heap
  <2>2a. start = FreeNodes(turned, C)
    BY DEF Started, C
  <2> HIDE DEF K, turned
  <2>3. turned \in Heap
    BY <1>1, <2>1, <2>2 DEF Heap
  <2>4. C \in SUBSET Nodes
    BY <1>2
  <2>5. /\ start \in Heap /\ start.object = turned.object
        /\ \A n \in C : start.kind[n] = "free" /\ start.above[n] = {} /\ start.private[n] = NULL
        /\ \A n \in Nodes \ C : /\ start.above[n] = turned.above[n] /\ start.private[n] = turned.private[n]
                                /\ start.kind[n] = turned.kind[n]
    BY <2>2a, <2>3, <2>4, FreeFields
  <2> QED BY <2>1, <2>2, <2>5
<1>5. /\ none \in Heap /\ none.object = heap.object
      /\ \A n \in S : none.kind[n] = "free" /\ none.above[n] = {} /\ none.private[n] = NULL
      /\ \A n \in Nodes \ S : /\ none.above[n] = heap.above[n] /\ none.private[n] = heap.private[n]
                              /\ none.kind[n] = heap.kind[n]
  BY <1>1, <1>2, FreeFields DEF Replaced, S
<1>6. ASSUME NEW N \in SUBSET Free(start), NEW k \in [N -> {"leaf", "element"}],
             h = Graft(start, N, k, [n \in N |-> {}], heap.above[x])
      PROVE  Rewritten(h, T)
  <2>1. N \in SUBSET (Free(heap) \cup C) /\ N \in SUBSET Nodes /\ x \notin N
    BY <1>1, <1>2, <1>4 DEF Free
  <2>2. Inclusion(h, x, C, N)
    <3>1. LinkedBelow(start, h, N, heap.above[x])
      BY <1>1, <1>4, <1>6, <2>1, GraftFields
    <3>2. \A n \in N : start.private[n] = NULL
      BY <1>1, <1>4, <2>1 DEF Free
    <3> QED BY <1>2, <1>4, <2>1, <3>1, <3>2 DEF LinkedBelow, Inclusion
  <2> QED BY <1>2, <1>3, <2>1, <2>2, InclusionRewritten DEF S
<1>7. ASSUME NEW N \in SUBSET Free(heap), NEW k \in [N -> {"leaf", "element"}],
             h = Graft(none, N, k, [n \in N |-> {}], heap.above[x])
      PROVE  Rewritten(h, T)
  <2>1. N \in SUBSET Nodes /\ x \notin N /\ S \in SUBSET Subtree(heap, x) /\ N \in SUBSET (Free(heap) \cup S)
    BY <1>1 DEF Free, S
  <2>2. Inclusion(h, x, S, N)
    <3>1. LinkedBelow(none, h, N, heap.above[x])
      BY <1>1, <1>5, <1>7, <2>1, GraftFields
    <3>2. \A n \in N : none.private[n] = NULL
      BY <1>1, <1>5, <2>1 DEF Free
    <3> QED BY <1>2, <1>5, <2>1, <3>1, <3>2 DEF LinkedBelow, Inclusion
  <2> QED BY <1>2, <2>1, <2>2, InclusionRewritten
<1>8. \/ \E n, e \in Free(start) : h = Ended(x, n, e)
      \/ \E e \in Free(heap) : h = InPlace(x, e)
      \/ h = none
  BY DEF Included
<1> HIDE DEF start, none
<1>9. ASSUME NEW n \in Free(start), NEW e \in Free(start), h = Ended(x, n, e)
      PROVE  Rewritten(h, T)
  <2> DEFINE N == {n, e}
             k == [m \in {n, e} |-> IF m = n THEN "leaf" ELSE "element"]
  <2>1. N \in SUBSET Free(start) /\ k \in [N -> {"leaf", "element"}]
    OBVIOUS
  <2>2. h = Graft(start, N, k, [m \in N |-> {}], heap.above[x])
    BY <1>9 DEF Ended, start
  <2> HIDE DEF N, k
  <2> QED BY <1>6, <2>1, <2>2
<1>10. ASSUME NEW e \in Free(heap), h = InPlace(x, e)
       PROVE  Rewritten(h, T)
  <2> DEFINE N == {e}
             k == [m \in {e} |-> "element"]
  <2>1. N \in SUBSET Free(heap) /\ k \in [N -> {"leaf", "element"}]
    OBVIOUS
  <2>2. h = Graft(none, N, k, [m \in N |-> {}], heap.above[x])
    BY <1>10 DEF InPlace, none
  <2> HIDE DEF N, k
  <2> QED BY <1>7, <2>1, <2>2
<1>11. ASSUME h = none PROVE Rewritten(h, T)
  <2>1. S \in SUBSET Subtree(heap, x) /\ {} \in SUBSET (Free(heap) \cup S)
    BY DEF S
  <2>2. Inclusion(h, x, S, {})
    BY <1>5, <1>11 DEF Inclusion
  <2> QED BY <1>2, <2>1, <2>2, InclusionRewritten
<1> QED BY <1>8, <1>9, <1>10, <1>11

LEMMA ProcessXIncludeOutcome ==
  ASSUME HeapAssumption, Good(heap), ProcessXInclude
  PROVE  Outcome
<1>1. PICK r \in Roots : \E x \in Subtree(heap, r) :
        /\ heap.kind[x] = "element"
        /\ \E h \in Included(x) :
             ReturnNothing(DeleteStale(h, {heap.private[n] : n \in Subtree(heap, r)} \ {NULL}))
  BY DEF ProcessXInclude
<1> DEFINE T == Subtree(heap, r)
<1>2. PICK x \in T : /\ heap.kind[x] = "element"
                     /\ \E h \in Included(x) :
                          ReturnNothing(DeleteStale(h, {heap.private[n] : n \in T} \ {NULL}))
  BY <1>1
<1>3. PICK h \in Included(x) : ReturnNothing(DeleteStale(h, {heap.private[n] : n \in T} \ {NULL}))
  BY <1>2
<1>4. Forest(heap) /\ r \in Nodes
  BY DEF Good, InOrder, Roots, OfKind
<1>5. T \in SUBSET Nodes /\ Subtree(heap, x) \subseteq T
  BY <1>4 DEF Subtree, Below, Forest
<1> HIDE DEF T
<1>6. Rewritten(h, T)
  BY <1>2, <1>3, <1>5, IncludedRewritten
<1> DEFINE g == DeleteStale(h, {heap.private[n] : n \in T} \ {NULL})
<1>7. Good(g) /\ Kept(heap, g)
  BY <1>5, <1>6, DeleteStaleGood
<1> HIDE DEF g
<1> QED BY <1>3, <1>7, ReturnNothingOutcome DEF g

\* The calls that change what there is.
LEMMA ChangeOutcome ==
  ASSUME HeapAssumption, Uses = {}, Good(heap), Change
  PROVE  Outcome
BY RemoveOutcome, ImportOutcome, CreateRootNodeOutcome, ProcessXIncludeOutcome DEF Change

\* The destructor deletes all wrappers before libxml2 frees the nodes.
LEMMA DestroyOutcome ==
  ASSUME HeapAssumption, Good(heap), Destroy
  PROVE  Outcome /\ Live(heap') = {}
<1> DEFINE S == Allocated(heap)
           d == DeleteWrappers(heap, S)
           g == FreeNodes(d, Nodes)
<1>1. InOrder(heap) /\ S = Allocated(heap) /\ S \in SUBSET Nodes /\ heap \in Heap
  BY DEF Good, InOrder, Allocated
<1>2. ReturnNothing(g)
  BY DEF Destroy
<1> HIDE DEF S
<1>3. /\ InOrder(d)
      /\ \A n \in Nodes : d.private[n] = IF n \in S THEN NULL ELSE heap.private[n]
      /\ Live(d) = {v \in Live(heap) : heap.object[v].impl \notin S}
  BY <1>1, DeleteInOrder
<1> HIDE DEF d
<1>4. Live(d) = {}
  BY <1>1, <1>3 DEF InOrder, ObjectsLinked
<1>5. \A n \in Nodes : d.private[n] = NULL
  BY <1>1, <1>3 DEF InOrder, Forest, Allocated, Free
<1>6. Nodes \in SUBSET Nodes /\ \A n \in Nodes : d.above[n] \cap Nodes # {} => n \in Nodes
  OBVIOUS
<1>7. InOrder(g) /\ g.object = d.object /\ \A n \in Nodes : g.kind[n] = "free"
  BY <1>3, <1>5, <1>6, FreeInOrder
<1> HIDE DEF g
<1>8. Good(g) /\ Kept(heap, g)
  BY <1>7 DEF Good, Kept, Allocated, Free
<1>9. Live(g) = {}
  BY <1>4, <1>7 DEF Live
<1>10. heap' = g
  BY <1>2 DEF ReturnNothing
<1> QED BY <1>2, <1>8, <1>9, <1>10, ReturnNothingOutcome

-----------------------------------------------------------------------------
(* The theorems.                                                           *)

Inv == /\ document \in BOOLEAN /\ result \in [ptr : Wrappers \cup {NULL}, type : DOMAIN Derived]
       /\ Good(heap) /\ ResultUsable /\ NothingOutlivesDocument

LEMMA EmptyGood ==
  ASSUME HeapAssumption
  PROVE  Good(EmptyHeap) /\ Live(EmptyHeap) = {}
<1>1. EmptyHeap \in Heap
  BY DEF EmptyHeap, Heap
<1>2. Forest(EmptyHeap) /\ Placed(EmptyHeap) /\ TextUnwrapped(EmptyHeap)
  BY DEF EmptyHeap, Forest, Placed, TextUnwrapped, InAttribute
<1>3. Live(EmptyHeap) = {} /\ PrivateLinked(EmptyHeap)
  BY DEF EmptyHeap, Live, PrivateLinked
<1> QED BY <1>1, <1>2, <1>3 DEF Good, InOrder, ObjectsLinked

\* A parsed document with an internal subset has a declaration below its DTD.
LEMMA InitInv ==
  ASSUME HeapAssumption, Uses = {}, Init
  PROVE  Inv
<1>1. result = Nothing /\ document = TRUE
  BY DEF Init
<1>2. Good(heap)
  <2>1. CASE heap = EmptyHeap
    BY <2>1, EmptyGood
  <2>2. ASSUME NEW t \in Nodes, NEW d \in Nodes \ {t},
               heap = NewNode(NewNode(EmptyHeap, t, "dtd", NULL), d, "attribute_decl", t)
        PROVE  Good(heap)
    <3> DEFINE h == NewNode(EmptyHeap, t, "dtd", NULL)
               k == [m \in {d} |-> "attribute_decl"]
               a == [m \in {d} |-> {}]
               P == Path(h, t)
               g == Graft(h, {d}, k, a, P)
    <3>1. t \in Free(EmptyHeap) /\ Good(EmptyHeap)
      BY EmptyGood DEF Free, EmptyHeap
    <3>2. /\ Good(h) /\ t \in Allocated(h) /\ h.kind[t] = "dtd" /\ h.above[t] = Path(EmptyHeap, NULL)
          /\ \A m \in Nodes \ {t} : h.kind[m] = EmptyHeap.kind[m]
      BY <3>1, NewNodeGood DEF Kinds
    <3> HIDE DEF h
    <3>3. /\ InOrder(h) /\ P = {t} /\ d \in Free(h) /\ t # NULL
      BY <3>2 DEF Good, Path, Free, EmptyHeap, HeapAssumption, Allocated
    <3>4. Branch(h, P) /\ Arrangement({d}, k, a) /\ {d} \in SUBSET Free(h)
          /\ k[d] = "attribute_decl" /\ a[d] = {}
      BY <3>2, <3>3, PathBranch DEF Arrangement, Kinds
    <3>5. g = heap
      BY <2>2 DEF NewNode, h
    <3> HIDE DEF k, a, P, g
    <3>6. Grafted(h, g, {d}, k, a, P)
      <4>1. \A m \in {d} : /\ k[m] = "dtd" => a[m] = {} /\ P = {}
                           /\ k[m] \in Decls => a[m] = {} /\ \A i \in P : h.kind[i] = "dtd"
                           /\ k[m] # "attribute"
        BY <3>2, <3>3, <3>4
      <4> QED BY <3>3, <3>4, <4>1, GraftInOrder DEF g
    <3> QED BY <3>5, <3>6 DEF Good, Grafted
  <2> QED BY <2>1, <2>2 DEF Init
<1>3. result \in [ptr : Wrappers \cup {NULL}, type : DOMAIN Derived] /\ ResultUsable
  BY <1>1 DEF Nothing, Derived, ResultUsable
<1> QED BY <1>1, <1>2, <1>3 DEF Inv, NothingOutlivesDocument

\* Every step keeps the invariant and the wrappers of the nodes that stay.
LEMMA StepInv ==
  ASSUME HeapAssumption, Uses = {}, Inv, [Next]_vars
  PROVE  Inv' /\ Kept(heap, heap')
<1>1. Good(heap)
  BY DEF Inv
<1>2. CASE Look \/ Add \/ Change
  <2>1. Outcome
    BY <1>1, <1>2, LookOutcome, AddOutcome, ChangeOutcome
  <2>2. document /\ document' = document
    BY <1>2 DEF Look, Add, Change, GetNode, MayLookAt, GetParent, GetAttribute, GetRootNode,
      GetFirstChildText, GetInternalSubset, AddChildElement, AddChildLeaf, AddText, AddAttribute,
      SetAttribute, AddToDocument, SetFirstChildText, SetInternalSubset, SetEntityDeclaration, RemoveAttribute, RemoveNode, ImportText,
      ImportAttribute, ImportNode, CreateRootNodeByImport, CreateRootNode, ProcessXInclude
  <2> QED BY <2>1, <2>2 DEF Inv, Outcome, NothingOutlivesDocument
<1>3. CASE Destroy
  BY <1>1, <1>3, DestroyOutcome DEF Inv, Outcome, NothingOutlivesDocument, Destroy
<1>4. CASE NewDocument
  <2>1. heap' = heap /\ result' = Nothing /\ document' = TRUE
    BY <1>4 DEF NewDocument, ReturnNothing
  <2> QED BY <1>1, <2>1 DEF Inv, NothingOutlivesDocument, ResultUsable, Nothing, Derived, Kept
<1>5. CASE UNCHANGED vars
  BY <1>1, <1>5 DEF vars, Inv, NothingOutlivesDocument, ResultUsable, Kept
<1> QED BY <1>2, <1>3, <1>4, <1>5 DEF Next

LEMMA InvHolds == ASSUME Uses = {} PROVE Spec => []Inv
<1>1. Init => Inv
  BY HeapAssumption, InitInv
<1>2. Inv /\ [Next]_vars => Inv'
  BY HeapAssumption, StepInv
<1> QED BY <1>1, <1>2, PTL DEF Spec

\* For every number of nodes and wrappers: no call of the library leaves an object without its
\* node, a node with the wrong object, or a _private that dangles, as long as the caller leaves
\* the children of attributes alone.
THEOREM LinkedHolds == ASSUME Uses = {} PROVE Spec => []Linked
<1>1. Inv => Linked
  BY DEF Inv, Good, InOrder, Linked
<1> QED BY <1>1, InvHolds, PTL

\* The inductive invariant that the runs check is an invariant for all constants.
THEOREM NodeInvHolds == ASSUME Uses = {} PROVE Spec => []NodeInv
<1>1. Inv => NodeInv
  BY DEF Inv, Good, InOrder, NodeInv, NodeTypeOK, Linked, AttributeTextUnwrapped, TextUnwrapped
<1> QED BY <1>1, InvHolds, PTL

\* The pointer a method returns is always to an object of its static type.
THEOREM ResultUsableHolds == ASSUME Uses = {} PROVE Spec => []ResultUsable
<1>1. Inv => ResultUsable
  BY DEF Inv
<1> QED BY <1>1, InvHolds, PTL

\* No call takes away the wrapper of a node that it leaves as and where it was.
THEOREM PointersStayValidHolds == ASSUME Uses = {} PROVE Spec => PointersStayValid
<1> DEFINE A == \A w \in Live(heap) :
       LET n == heap.object[w].impl IN
       n \in Allocated(heap') /\ heap'.kind[n] = heap.kind[n] /\ heap'.above[n] = heap.above[n]
         => heap'.object[w] = heap.object[w]
<1>1. Inv /\ [Next]_vars => [A]_vars
  <2>1. Kept(heap, heap') => A
    BY DEF Kept
  <2> QED BY <2>1, HeapAssumption, StepInv
<1> QED BY <1>1, InvHolds, PTL DEF Spec, PointersStayValid

=============================================================================
