--------------------------- MODULE NodeGraphProofs ---------------------------
(* Proofs about NodeGraph, for any set of nodes, as long as no declaration *)
(* is outside the internal subset.                                         *)
EXTENDS NodeGraph, FiniteSetTheorems, TLAPS

USE GraphAssumption, NullAssumption

-----------------------------------------------------------------------------
(* Trees, given by the parent of each node.                                *)

ClosedIn(par, S) == \A m \in Nodes : par[m] \in S => m \in S
Tree(par, n)     == {m \in Nodes : \A S \in SUBSET Nodes : n \in S /\ ClosedIn(par, S) => m \in S}

LEMMA SubtreeIsTree ==
  ASSUME NEW n
  PROVE  Subtree(n) = Tree(parent, n)
  BY DEF Subtree, Tree, Closed, ClosedIn

LEMMA TreeClosed ==
  ASSUME NEW par, NEW n \in Nodes
  PROVE  Tree(par, n) \subseteq Nodes /\ n \in Tree(par, n) /\ ClosedIn(par, Tree(par, n))
  BY DEF Tree, ClosedIn

LEMMA TreeLeast ==
  ASSUME NEW par, NEW n, NEW S \in SUBSET Nodes, n \in S, ClosedIn(par, S)
  PROVE  Tree(par, n) \subseteq S
  BY DEF Tree

LEMMA TreeOfMember ==
  ASSUME NEW par, NEW n \in Nodes, NEW m \in Tree(par, n)
  PROVE  Tree(par, m) \subseteq Tree(par, n)
  BY TreeClosed, TreeLeast

\* Every member but the root has its parent in the tree.
LEMMA TreeParent ==
  ASSUME NEW par, NEW n \in Nodes, NEW m \in Tree(par, n), m # n
  PROVE  par[m] \in Tree(par, n)
<1> SUFFICES ASSUME par[m] \notin Tree(par, n)
             PROVE  FALSE
  OBVIOUS
<1> DEFINE S == Tree(par, n) \ {m}
<1>1. S \in SUBSET Nodes /\ n \in S
  BY TreeClosed
<1>2. ClosedIn(par, S)
  BY TreeClosed DEF ClosedIn
<1> HIDE DEF S
<1>3. Tree(par, n) \subseteq S
  BY <1>1, <1>2, TreeLeast
<1> QED BY <1>3 DEF S

\* A tree is its root with the trees of the root's children.
LEMMA TreeUnfold ==
  ASSUME NEW par, NEW n \in Nodes
  PROVE  Tree(par, n) = {n} \cup UNION {Tree(par, c) : c \in {c \in Nodes : par[c] = n}}
<1> DEFINE C == {c \in Nodes : par[c] = n}
           S == {n} \cup UNION {Tree(par, c) : c \in C}
<1>1. \A c \in C : c \in Tree(par, n) /\ Tree(par, c) \subseteq Tree(par, n)
  BY TreeClosed, TreeOfMember DEF ClosedIn
<1>2. S \in SUBSET Nodes /\ n \in S
  BY TreeClosed
<1>3. ClosedIn(par, S)
  <2> SUFFICES ASSUME NEW m \in Nodes, par[m] \in S
               PROVE  m \in S
    BY DEF ClosedIn
  <2>1. CASE par[m] = n
    BY <2>1, TreeClosed
  <2>2. CASE \E c \in C : par[m] \in Tree(par, c)
    BY <2>2, TreeClosed DEF ClosedIn
  <2> QED BY <2>1, <2>2
<1>4. Tree(par, n) \subseteq S
  BY <1>2, <1>3, TreeLeast
<1> QED BY <1>1, <1>4, TreeClosed

\* With fewer children a tree has no more members.
LEMMA TreeFewer ==
  ASSUME NEW par, NEW new, NEW n \in Nodes, \A m \in Nodes : new[m] = par[m] \/ new[m] \notin Nodes
  PROVE  Tree(new, n) \subseteq Tree(par, n)
<1>1. ClosedIn(new, Tree(par, n))
  BY TreeClosed DEF ClosedIn
<1> QED BY <1>1, TreeClosed, TreeLeast

\* What is not in whole subtrees that are cut off stays in the tree.
LEMMA TreeCut ==
  ASSUME NEW par, NEW new, NEW n \in Nodes, NEW F \in SUBSET Nodes, ClosedIn(par, F),
         \A m \in Nodes \ F : new[m] = par[m]
  PROVE  Tree(par, n) \ F \subseteq Tree(new, n)
<1>1. ClosedIn(par, Tree(new, n) \cup F)
  BY TreeClosed DEF ClosedIn
<1>2. Tree(par, n) \subseteq Tree(new, n) \cup F
  BY <1>1, TreeClosed, TreeLeast
<1> QED BY <1>2

-----------------------------------------------------------------------------
(* The document's tree.                                                    *)

\* All nodes are in the document's tree, and each is where nodes of its type may be.
PlacedIn(k, par) ==
  /\ k \in [Nodes -> Kinds] /\ par \in [Nodes -> Nodes \cup {NULL}]
  /\ k[Doc] \in {"document", "free"} /\ par[Doc] = NULL
  /\ k[Doc] = "free" => \A n \in Nodes : k[n] = "free"
  /\ k[Doc] = "document" => k[Dtd] = "dtd" /\ par[Dtd] = Doc
  /\ \A n \in Nodes \ {Doc} : k[n] # "document"
  /\ \A n \in Nodes : k[n] = "free" => par[n] = NULL
  /\ \A n \in Nodes : par[n] # NULL =>
       /\ k[par[n]] \notin {"free", "attribute", "entity_ref"}
       /\ par[n] \notin Tree(par, n)
       /\ k[n] = "attribute" => k[par[n]] \in {"element", "start"}
  /\ \A n \in Nodes : k[n] # "free" => n \in Tree(par, Doc)

Placed == PlacedIn(kind, parent)

\* The other nodes have a parent, which is in no way below them.
LEMMA PlacedParent ==
  ASSUME NEW k, NEW par, PlacedIn(k, par), NEW n \in Nodes \ {Doc}, k[n] # "free"
  PROVE  /\ par[n] \in Nodes \ Tree(par, n) /\ k[par[n]] \notin {"free", "attribute", "entity_ref"}
         /\ Doc \notin Tree(par, n) /\ (n # Dtd => Dtd \notin Tree(par, n))
<1>0. Doc \in Nodes /\ n \in Tree(par, Doc)
  BY DEF Nodes, PlacedIn
<1>1. par[n] \in Tree(par, Doc)
  BY <1>0, TreeParent
<1>2. par[n] \in Nodes /\ par[n] # NULL
  BY <1>0, <1>1, TreeClosed
<1>3. Doc \notin Tree(par, n)
  BY TreeParent, TreeClosed DEF PlacedIn
<1>4. k[Doc] = "document"
  BY DEF PlacedIn
<1>5. n # Dtd => Dtd \notin Tree(par, n)
  BY <1>3, <1>4, TreeParent DEF PlacedIn
<1> QED BY <1>2, <1>3, <1>5 DEF PlacedIn

\* What is below a node that is there is there.
LEMMA PlacedBelow ==
  ASSUME NEW k, NEW par, PlacedIn(k, par), NEW n \in Nodes, k[n] # "free"
  PROVE  \A m \in Tree(par, n) : k[m] # "free"
<1> DEFINE S == {m \in Nodes : k[m] # "free"}
<1>1. ClosedIn(par, S)
  BY DEF ClosedIn, PlacedIn
<1>2. Tree(par, n) \subseteq S
  BY <1>1, TreeLeast
<1> QED BY <1>2

LEMMA PlacedAdd ==
  ASSUME NEW k, NEW par, PlacedIn(k, par), NEW n \in Nodes \ {Doc, Dtd}, k[n] = "free",
         NEW p \in Nodes, k[p] \notin {"free", "attribute", "entity_ref"},
         NEW t \in {"element", "attribute", "entity_decl", "entity_ref"},
         t = "attribute" => k[p] \in {"element", "start"}
  PROVE  PlacedIn([k EXCEPT ![n] = t], [par EXCEPT ![n] = p])
<1> DEFINE k2 == [k EXCEPT ![n] = t]
           par2 == [par EXCEPT ![n] = p]
<1>1. /\ k \in [Nodes -> Kinds] /\ par \in [Nodes -> Nodes \cup {NULL}]
      /\ k2 \in [Nodes -> Kinds] /\ par2 \in [Nodes -> Nodes \cup {NULL}]
      /\ k2[n] = t /\ par2[n] = p /\ p # n
      /\ \A m \in Nodes \ {n} : k2[m] = k[m] /\ par2[m] = par[m]
  BY DEF PlacedIn, Kinds
<1> HIDE DEF k2, par2
<1>2. \A m \in Nodes : par[m] # n /\ par2[m] # n
  BY <1>1 DEF PlacedIn
<1>3. \A m \in Nodes \ {n} : par[m] # NULL => par2[m] \notin Tree(par2, m)
  <2> SUFFICES ASSUME NEW m \in Nodes \ {n}, par[m] # NULL
               PROVE  par[m] \notin Tree(par2, m)
    BY <1>1
  <2> DEFINE S == Tree(par, m) \cup {n}
  <2>1. S \in SUBSET Nodes /\ m \in S
    BY TreeClosed
  <2>2. ClosedIn(par2, S)
    BY <1>1, <1>2, TreeClosed DEF ClosedIn
  <2>3. par[m] \notin S
    BY <1>2 DEF PlacedIn
  <2> HIDE DEF S
  <2> QED BY <2>1, <2>2, <2>3, TreeLeast
<1>4. p \notin Tree(par2, n)
  <2>1. ClosedIn(par2, {n})
    BY <1>2 DEF ClosedIn
  <2>2. Tree(par2, n) \subseteq {n}
    BY <2>1, TreeLeast
  <2> QED BY <1>1, <2>2
<1>5. \A m \in Nodes : k2[m] # "free" => m \in Tree(par2, Doc)
  <2>1. Tree(par, Doc) \ {n} \subseteq Tree(par2, Doc)
    <3>1. ClosedIn(par, {n})
      BY <1>2 DEF ClosedIn
    <3>2. Doc \in Nodes
      BY DEF Nodes
    <3> QED BY <1>1, <3>1, <3>2, TreeCut
  <2>2. p \in Tree(par2, Doc)
    BY <1>1, <2>1 DEF PlacedIn
  <2>3. n \in Tree(par2, Doc)
    BY <1>1, <2>2, TreeClosed DEF ClosedIn, Nodes
  <2> QED BY <1>1, <2>1, <2>3 DEF PlacedIn
<1>6. Doc \in Nodes /\ Dtd \in Nodes /\ Doc # n /\ Dtd # n
  BY DEF Nodes
<1>7. k[Doc] = "document"
  BY <1>6 DEF PlacedIn
<1>8. \A m \in Nodes : par2[m] # NULL =>
       /\ k2[par2[m]] \notin {"free", "attribute", "entity_ref"}
       /\ k2[m] = "attribute" => k2[par2[m]] \in {"element", "start"}
  <2> SUFFICES ASSUME NEW m \in Nodes, par2[m] # NULL
               PROVE  /\ k2[par2[m]] \notin {"free", "attribute", "entity_ref"}
                      /\ k2[m] = "attribute" => k2[par2[m]] \in {"element", "start"}
    OBVIOUS
  <2>1. k2[par2[m]] = k[par2[m]]
    BY <1>1, <1>2
  <2>2. CASE m = n
    BY <1>1, <2>1, <2>2
  <2>3. CASE m # n
    BY <1>1, <2>1, <2>3 DEF PlacedIn
  <2> QED BY <2>2, <2>3
<1>9. \A m \in Nodes : k2[m] = "free" => par2[m] = NULL
  BY <1>1 DEF PlacedIn
<1>10. k2[Doc] = "document" /\ par2[Doc] = NULL /\ k2[Dtd] = "dtd" /\ par2[Dtd] = Doc
  BY <1>1, <1>6, <1>7 DEF PlacedIn
<1>11. \A m \in Nodes \ {Doc} : k2[m] # "document"
  BY <1>1 DEF PlacedIn
<1>12. \A m \in Nodes : par2[m] # NULL => par2[m] \notin Tree(par2, m)
  BY <1>1, <1>3, <1>4
<1> QED BY <1>1, <1>5, <1>8, <1>9, <1>10, <1>11, <1>12 DEF PlacedIn, k2, par2

\* Whole trees are freed.
LEMMA PlacedFree ==
  ASSUME NEW k, NEW par, PlacedIn(k, par), NEW F \in SUBSET (Nodes \ {Doc, Dtd}), ClosedIn(par, F)
  PROVE  PlacedIn([n \in Nodes |-> IF n \in F THEN "free" ELSE k[n]],
                  [n \in Nodes |-> IF n \in F THEN NULL ELSE par[n]])
<1> DEFINE k2 == [n \in Nodes |-> IF n \in F THEN "free" ELSE k[n]]
           par2 == [n \in Nodes |-> IF n \in F THEN NULL ELSE par[n]]
<1>1. /\ k2 \in [Nodes -> Kinds] /\ par2 \in [Nodes -> Nodes \cup {NULL}]
      /\ \A m \in F : k2[m] = "free" /\ par2[m] = NULL
      /\ \A m \in Nodes \ F : k2[m] = k[m] /\ par2[m] = par[m]
  BY DEF PlacedIn, Kinds
<1> HIDE DEF k2, par2
<1>2. Doc \in Nodes \ F /\ Dtd \in Nodes \ F
  BY DEF Nodes
<1>3. \A m \in Nodes : par2[m] # NULL => m \in Nodes \ F /\ par2[m] = par[m] /\ par[m] \in Nodes \ F
  BY <1>1 DEF PlacedIn, ClosedIn
<1>4. \A m \in Nodes : par2[m] # NULL => par2[m] \notin Tree(par2, m)
  <2> SUFFICES ASSUME NEW m \in Nodes, par2[m] # NULL
               PROVE  par2[m] \notin Tree(par2, m)
    OBVIOUS
  <2>1. Tree(par2, m) \subseteq Tree(par, m)
    BY <1>1, TreeFewer
  <2> QED BY <1>3, <2>1 DEF PlacedIn
<1>5. Tree(par, Doc) \ F \subseteq Tree(par2, Doc)
  BY <1>1, <1>2, TreeCut
<1>6. \A m \in Nodes : k2[m] # "free" => m \in Tree(par2, Doc)
  BY <1>1, <1>5 DEF PlacedIn
<1> QED BY <1>1, <1>2, <1>3, <1>4, <1>6 DEF PlacedIn, k2, par2

\* An element becomes an XIncludeStart.
LEMMA PlacedStart ==
  ASSUME NEW k, NEW par, PlacedIn(k, par), NEW n \in Nodes, k[n] = "element"
  PROVE  PlacedIn([k EXCEPT ![n] = "start"], par)
<1>1. n # Doc /\ n # Dtd
  BY DEF PlacedIn
<1> QED BY <1>1 DEF PlacedIn, Kinds

-----------------------------------------------------------------------------
(* The stack.                                                              *)

Frames == [node : Nodes, phase : {"children", "attributes"}, todo : SUBSET Nodes]

\* The nodes that the active calls s have yet to visit, and those that they are in.
PendingOf(k, par, f) ==
  (UNION {Tree(par, m) : m \in f.todo})
    \cup IF f.phase = "attributes" THEN {}
         ELSE {f.node} \cup UNION {Tree(par, m) : m \in {m \in Nodes : par[m] = f.node /\ k[m] = "attribute"}}
PendingIn(k, par, s) == UNION {PendingOf(k, par, s[i]) : i \in DOMAIN s}

\* Each active call is for a child of the caller's node.
NestedIn(par, s) ==
  /\ \A i \in DOMAIN s : \A m \in s[i].todo : par[m] = s[i].node
  /\ \A i, j \in DOMAIN s : i < j => s[j].node \in Tree(par, s[i].node) \ {s[i].node}

LEMMA PopSeq ==
  ASSUME NEW S, NEW s \in Seq(S), s # <<>>
  PROVE  /\ SubSeq(s, 1, Len(s) - 1) \in Seq(S) /\ s[Len(s)] \in S
         /\ DOMAIN s = 1..Len(s) /\ Len(s) \in Nat \ {0}
         /\ DOMAIN SubSeq(s, 1, Len(s) - 1) = 1..(Len(s) - 1)
         /\ Len(SubSeq(s, 1, Len(s) - 1)) = Len(s) - 1
         /\ \A i \in 1..(Len(s) - 1) : SubSeq(s, 1, Len(s) - 1)[i] = s[i]
<1>1. DOMAIN s = 1..Len(s) /\ Len(s) \in Nat \ {0} /\ s[Len(s)] \in S
  OBVIOUS
<1>2. SubSeq(s, 1, Len(s) - 1) \in Seq(S) /\ Len(SubSeq(s, 1, Len(s) - 1)) = Len(s) - 1
  BY <1>1
<1>3. DOMAIN SubSeq(s, 1, Len(s) - 1) = 1..(Len(s) - 1)
  BY <1>2
<1>4. \A i \in 1..(Len(s) - 1) : SubSeq(s, 1, Len(s) - 1)[i] = s[i]
  BY <1>1
<1> QED BY <1>1, <1>2, <1>3, <1>4

LEMMA PushSeq ==
  ASSUME NEW S, NEW s \in Seq(S), NEW f \in S
  PROVE  /\ Append(s, f) \in Seq(S) /\ DOMAIN s = 1..Len(s) /\ Len(s) \in Nat
         /\ DOMAIN Append(s, f) = 1..(Len(s) + 1)
         /\ Append(s, f)[Len(s) + 1] = f
         /\ \A i \in 1..Len(s) : Append(s, f)[i] = s[i]
  OBVIOUS

LEMMA PendingPush ==
  ASSUME NEW k, NEW par, NEW s \in Seq(Frames), NEW f \in Frames
  PROVE  PendingIn(k, par, Append(s, f)) = PendingIn(k, par, s) \cup PendingOf(k, par, f)
<1>1. \A i \in DOMAIN Append(s, f) :
        \/ i \in DOMAIN s /\ Append(s, f)[i] = s[i]
        \/ i = Len(s) + 1 /\ Append(s, f)[i] = f
  BY PushSeq
<1>2. \A i \in DOMAIN s : i \in DOMAIN Append(s, f) /\ Append(s, f)[i] = s[i]
  BY PushSeq
<1>3. Len(s) + 1 \in DOMAIN Append(s, f) /\ Append(s, f)[Len(s) + 1] = f
  BY PushSeq
<1> QED BY <1>1, <1>2, <1>3 DEF PendingIn

LEMMA PendingPop ==
  ASSUME NEW k, NEW par, NEW s \in Seq(Frames), s # <<>>
  PROVE  PendingIn(k, par, s)
           = PendingIn(k, par, SubSeq(s, 1, Len(s) - 1)) \cup PendingOf(k, par, s[Len(s)])
<1> DEFINE b == SubSeq(s, 1, Len(s) - 1)
<1>1. \A i \in DOMAIN s : i = Len(s) \/ (i \in DOMAIN b /\ b[i] = s[i])
  BY PopSeq
<1>2. \A i \in DOMAIN b : i \in DOMAIN s /\ b[i] = s[i]
  BY PopSeq
<1>3. Len(s) \in DOMAIN s
  BY PopSeq
<1> HIDE DEF b
<1>4. PendingIn(k, par, s) = PendingIn(k, par, b) \cup PendingOf(k, par, s[Len(s)])
  BY <1>1, <1>2, <1>3 DEF PendingIn
<1> QED BY <1>4 DEF b

LEMMA PendingEmpty ==
  ASSUME NEW k, NEW par
  PROVE  PendingIn(k, par, <<>>) = {}
  BY DEF PendingIn

LEMMA NestedPop ==
  ASSUME NEW par, NEW s \in Seq(Frames), s # <<>>, NestedIn(par, s)
  PROVE  NestedIn(par, SubSeq(s, 1, Len(s) - 1))
<1> DEFINE b == SubSeq(s, 1, Len(s) - 1)
<1>1. \A i \in DOMAIN b : i \in DOMAIN s /\ b[i] = s[i]
  BY PopSeq
<1> HIDE DEF b
<1>2. NestedIn(par, b)
  BY <1>1 DEF NestedIn
<1> QED BY <1>2 DEF b

\* The call at the top goes on.
LEMMA NestedTop ==
  ASSUME NEW par, NEW s \in Seq(Frames), s # <<>>, NestedIn(par, s),
         NEW f \in Frames, f.node = s[Len(s)].node, \A m \in f.todo : par[m] = f.node
  PROVE  NestedIn(par, Append(SubSeq(s, 1, Len(s) - 1), f))
<1> DEFINE b == SubSeq(s, 1, Len(s) - 1)
           t == Append(b, f)
<1>1. b \in Seq(Frames) /\ DOMAIN s = 1..Len(s) /\ Len(s) \in Nat \ {0} /\ Len(b) = Len(s) - 1
      /\ \A i \in 1..(Len(s) - 1) : b[i] = s[i]
  BY PopSeq
<1>2. DOMAIN t = DOMAIN s
  BY <1>1, PushSeq
<1>3. \A i \in DOMAIN s : t[i] = IF i = Len(s) THEN f ELSE s[i]
  BY <1>1, PushSeq
<1> HIDE DEF t
<1>4. NestedIn(par, t)
  BY <1>2, <1>3 DEF NestedIn
<1> QED BY <1>4 DEF t, b

\* The call at the top calls.
LEMMA NestedPush ==
  ASSUME NEW par, NEW s \in Seq(Frames), s # <<>>, NestedIn(par, s),
         NEW f \in Frames, par[f.node] = s[Len(s)].node, \A m \in f.todo : par[m] = f.node,
         par[f.node] \notin Tree(par, f.node)
  PROVE  NestedIn(par, Append(s, f))
<1> DEFINE t == Append(s, f)
           l == Len(s)
<1>1. /\ DOMAIN s = 1..l /\ l \in Nat \ {0} /\ DOMAIN t = 1..(l + 1) /\ t[l + 1] = f
      /\ \A i \in 1..l : t[i] = s[i] /\ s[i].node \in Nodes
      /\ f.node \in Nodes
  <2>1. DOMAIN t = 1..(l + 1) /\ t[l + 1] = f /\ \A i \in 1..l : t[i] = s[i]
    BY PushSeq
  <2>2. DOMAIN s = 1..l /\ l \in Nat \ {0} /\ \A i \in 1..l : s[i] \in Frames
    BY PopSeq
  <2> QED BY <2>1, <2>2 DEF Frames
<1> HIDE DEF t
<1>2. ASSUME NEW i \in 1..l
      PROVE  f.node \in Tree(par, s[i].node) \ {s[i].node}
  <2>1. s[l].node \in Tree(par, s[i].node)
    BY <1>1, TreeClosed DEF NestedIn
  <2>2. f.node \in Tree(par, s[i].node)
    BY <1>1, <2>1, TreeClosed DEF ClosedIn
  <2> QED BY <2>1, <2>2
<1>3. \A i, j \in DOMAIN t : i < j => t[j].node \in Tree(par, t[i].node) \ {t[i].node}
  <2> SUFFICES ASSUME NEW i \in 1..(l + 1), NEW j \in 1..(l + 1), i < j
               PROVE  t[j].node \in Tree(par, t[i].node) \ {t[i].node}
    BY <1>1
  <2>1. CASE j = l + 1
    BY <1>1, <1>2, <2>1
  <2>2. CASE j # l + 1
    <3>1. i \in 1..l /\ j \in 1..l
      BY <1>1, <2>2
    <3> QED BY <1>1, <3>1 DEF NestedIn
  <2> QED BY <2>1, <2>2
<1>4. \A i \in DOMAIN t : \A m \in t[i].todo : par[m] = t[i].node
  <2> SUFFICES ASSUME NEW i \in 1..(l + 1)
               PROVE  \A m \in t[i].todo : par[m] = t[i].node
    BY <1>1
  <2>1. CASE i = l + 1
    BY <1>1, <2>1
  <2>2. CASE i # l + 1
    <3>1. i \in 1..l
      BY <1>1, <2>2
    <3> QED BY <1>1, <3>1 DEF NestedIn
  <2> QED BY <2>1, <2>2
<1>5. NestedIn(par, t)
  BY <1>3, <1>4 DEF NestedIn
<1> QED BY <1>5 DEF t

\* So no node has two of them.
LEMMA NestedOnce ==
  ASSUME NEW par, NEW s \in Seq(Frames), NestedIn(par, s)
  PROVE  \A i, j \in DOMAIN s : s[i].node = s[j].node => i = j
<1>1. DOMAIN s \subseteq Int
  OBVIOUS
<1> SUFFICES ASSUME NEW i \in DOMAIN s, NEW j \in DOMAIN s, s[i].node = s[j].node, i # j
             PROVE  FALSE
  OBVIOUS
<1>2. i < j \/ j < i
  BY <1>1
<1> QED BY <1>2 DEF NestedIn

-----------------------------------------------------------------------------
(* The inductive invariant.                                                *)

Walks   == {"remove", "delete", "find", "check"}
Pending == PendingIn(kind, parent, stack)

Nested ==
  /\ stack # <<>> => call \in Walks
  /\ NestedIn(parent, stack)
  /\ target # NULL => \A i \in DOMAIN stack : stack[i].node \in Tree(parent, target)

\* Node::remove_node() and Document::~Document(): of the wrappers in the subtree those that are
\* left are still to be found.
Removing ==
  call \in {"remove", "delete"} =>
    /\ target \in Allocated /\ (call = "delete" <=> target = Doc) /\ kind[target] # "dtd"
    /\ Linked /\ before.kind = kind
    /\ Wrapped \subseteq before.wrapped /\ before.wrapped \ Wrapped \subseteq Tree(parent, target)
    /\ private \cap Tree(parent, target) \subseteq Pending \cup {Doc}

\* find_wrappers() has found the wrappers of the nodes it has visited.
Finding ==
  call = "find" =>
    /\ target \in Nodes /\ kind[target] = "element"
    /\ Linked /\ before.kind = kind /\ before.wrapped = Wrapped
    /\ \A n \in Nodes : found[n] # NULL => n \in private \cap Tree(parent, target) /\ found[n] = kind[n]
    /\ \A n \in private \cap Tree(parent, target) : n \notin Pending => found[n] # NULL

\* Before and in remove_found_wrappers(): what is found, and no longer linked, is gone or changed.
Checking ==
  call = "check" =>
    /\ target \in {Doc, NULL} /\ (target = Doc => stack = <<>>) /\ found[Doc] = NULL
    /\ \A n \in before.wrapped : before.kind[n] # "free"
    /\ \A n \in Nodes \ {Doc} : object[n] = IF n \in before.wrapped THEN before.kind[n] ELSE NULL
    /\ \A n \in Nodes : found[n] # NULL => n \in before.wrapped /\ found[n] = before.kind[n]
    /\ \A n \in private \ {Doc} : n \in before.wrapped /\ (found[n] = NULL => kind[n] = before.kind[n])
    /\ \A n \in before.wrapped \ private : found[n] # NULL /\ kind[n] # before.kind[n]
    /\ target = NULL => \A n \in private : n \notin Pending => found[n] = NULL

Evaluating ==
  call \in Methods =>
    /\ Linked /\ before.kind = kind /\ before.wrapped = Wrapped
    /\ xpath.nodes \subseteq Selectable

AtRest ==
  /\ object[Doc] = IF kind[Doc] = "free" THEN NULL ELSE "document"
  /\ Doc \in private <=> kind[Doc] # "free"
  /\ call \notin {"find", "check"} => \A n \in Nodes : found[n] = NULL
  /\ call # "none" => kind[Doc] # "free" /\ returned = {}

Inv ==
  /\ GraphTypeOK /\ Placed /\ GraphLinked /\ Nested
  /\ Removing /\ Finding /\ Checking /\ Evaluating /\ AtRest

LEMMA InvImplies == Inv => GraphInv
<1> SUFFICES ASSUME Inv
             PROVE  GraphInv
  OBVIOUS
<1>1. stack \in Seq(Frames)
  BY DEF Inv, GraphTypeOK, Frames
<1>2. NoNodeTwice
  BY <1>1, NestedOnce DEF NoNodeTwice, Inv, Nested
<1> QED BY <1>2 DEF Inv, GraphInv

\* Between two calls there is less to show.
LEMMA RestInv ==
  ASSUME GraphTypeOK', Placed', Linked', call' = "none", stack' = <<>>,
         \A n \in Nodes : found'[n] = NULL, Doc \in private' <=> kind'[Doc] # "free"
  PROVE  Inv'
<1>1. "none" \notin Walks \cup Methods \cup {"remove", "delete", "find", "check"}
  BY DEF Walks, Methods
<1>2. Nested'
  BY DEF Nested, NestedIn
<1>3. object'[Doc] = IF kind'[Doc] = "free" THEN NULL ELSE "document"
  BY DEF Linked, Placed, PlacedIn, Nodes
<1>4. AtRest'
  BY <1>3 DEF AtRest
<1> QED BY <1>1, <1>2, <1>4 DEF Inv, GraphLinked, Removing, Finding, Checking, Evaluating

\* What holds between two calls.
LEMMA IdleInv ==
  ASSUME Inv, call = "none"
  PROVE  /\ Linked /\ stack = <<>> /\ xpath = NoResult /\ \A n \in Nodes : found[n] = NULL
  BY DEF Inv, GraphLinked, Nested, AtRest, GraphTypeOK, Walks, Methods

\* Node::create_wrapper() keeps nodes and wrappers linked.
LEMMA CreateLinked ==
  ASSUME Linked, NEW S \in SUBSET Nodes, NEW k, CreateWrappers(S, k),
         \A n \in private : kind'[n] = kind[n], \A n \in S : k[n] = kind'[n] /\ kind'[n] \in Kinds
  PROVE  Linked'
  BY DEF Linked, CreateWrappers

\* A call begins.
LEMMA BeginType ==
  ASSUME Inv, NEW name \in Walks \cup Methods, NEW n \in Nodes \cup {NULL}, Begin(name, n),
         stack' \in Seq(Frames), xpath'.held \subseteq {"context", "object"},
         name \notin Methods => xpath' = NoResult
  PROVE  /\ GraphTypeOK' /\ Placed' /\ AtRest' /\ Linked' /\ GraphLinked'
         /\ before'.kind = kind /\ before'.wrapped = Wrapped /\ call' = name
         /\ kind' = kind /\ parent' = parent /\ private' = private /\ object' = object
         /\ call = "none" /\ found' = found /\ \A m \in Nodes : found[m] = NULL
<1>1. /\ call = "none" /\ kind[Doc] # "free" /\ call' = name /\ target' = n
      /\ before' = [kind |-> kind, wrapped |-> Wrapped] /\ returned' = {}
      /\ kind' = kind /\ parent' = parent /\ refers' = refers /\ private' = private
      /\ object' = object /\ found' = found
  BY DEF Begin, Idle, graph, objects
<1>2. Linked /\ \A m \in Nodes : found[m] = NULL
  BY <1>1, IdleInv
<1>3. Linked'
  BY <1>1, <1>2 DEF Linked
<1>4. Placed'
  BY <1>1 DEF Inv, Placed
<1>5. AtRest'
  BY <1>1, <1>2 DEF Inv, AtRest
<1>6. Wrapped \subseteq Nodes \ {Doc}
  BY DEF Wrapped
<1>7. GraphTypeOK'
  BY <1>1, <1>6 DEF Inv, GraphTypeOK, Allocated, Frames, Walks
<1> QED BY <1>1, <1>2, <1>3, <1>4, <1>5, <1>7 DEF GraphLinked

-----------------------------------------------------------------------------
(* Documents, nodes and wrappers come.                                     *)

LEMMA InitInv == Init => Inv
<1> SUFFICES ASSUME Init
             PROVE  Inv
  OBVIOUS
<1>1. \A n \in Nodes : kind[n] = "free" /\ parent[n] = NULL /\ object[n] = NULL /\ found[n] = NULL
  BY DEF Init
<1>2. GraphTypeOK
  BY DEF Init, GraphTypeOK, Kinds, Allocated, NoResult, Methods
<1>3. Placed
  BY <1>1 DEF Init, Placed, PlacedIn, Kinds, Nodes
<1>4. Linked
  BY <1>1 DEF Init, Linked
<1>5. Nested
  BY DEF Init, Nested, NestedIn
<1>6. AtRest
  BY <1>1 DEF Init, AtRest, Nodes
<1>7. call \notin Methods \cup {"remove", "delete", "find", "check"}
  BY DEF Init, Methods
<1> QED BY <1>2, <1>3, <1>4, <1>5, <1>6, <1>7
        DEF Inv, GraphLinked, Removing, Finding, Checking, Evaluating

LEMMA NewDocumentInv == ASSUME Inv, NewDocument PROVE Inv'
<1>1. /\ call = "none" /\ call' = call /\ stack' = stack /\ found' = found /\ target' = target
      /\ xpath' = xpath /\ returned' = returned /\ before' = before /\ kind[Doc] = "free"
  BY DEF NewDocument
<1>2. stack = <<>> /\ xpath = NoResult /\ \A n \in Nodes : found[n] = NULL
  BY <1>1, IdleInv
<1>3. /\ Doc \in Nodes /\ Dtd \in Nodes /\ Root \in Nodes /\ Doc # Dtd /\ Doc # Root /\ Dtd # Root
  BY DEF Nodes
<1>4. /\ kind' \in [Nodes -> Kinds] /\ kind'[Doc] = "document" /\ kind'[Dtd] = "dtd"
      /\ kind'[Root] = "element" /\ \A n \in Nodes \ {Doc, Dtd, Root} : kind'[n] = "free"
  BY <1>3 DEF NewDocument, Parsed, Kinds
<1>5. /\ parent' \in [Nodes -> Nodes \cup {NULL}] /\ parent'[Dtd] = Doc /\ parent'[Root] = Doc
      /\ \A n \in Nodes \ {Dtd, Root} : parent'[n] = NULL
  BY <1>3 DEF NewDocument, Parsed
<1>6. private' = {Doc} /\ \A n \in Nodes : object'[n] = IF n = Doc THEN "document" ELSE NULL
  BY DEF NewDocument, Parsed
<1>7. GraphTypeOK'
  <2>1. object' \in [Nodes -> Kinds \cup {NULL}] /\ refers' \in [Nodes -> Nodes \cup {NULL}]
    BY DEF NewDocument, Parsed, Kinds
  <2>2. private' \subseteq Allocated'
    BY <1>3, <1>4, <1>6 DEF Allocated
  <2> QED BY <1>1, <1>4, <1>5, <2>1, <2>2 DEF Inv, GraphTypeOK
<1>8. Placed'
  <2>1. \A n \in {Dtd, Root} : Doc \notin Tree(parent', n)
    <3> SUFFICES ASSUME NEW n \in {Dtd, Root}
                 PROVE  Doc \notin Tree(parent', n)
      OBVIOUS
    <3>1. ClosedIn(parent', {n})
      BY <1>3, <1>5 DEF ClosedIn
    <3>2. Tree(parent', n) \subseteq {n}
      BY <1>3, <3>1, TreeLeast
    <3> QED BY <1>3, <3>2
  <2>2. {Doc, Dtd, Root} \subseteq Tree(parent', Doc)
    BY <1>3, <1>5, TreeClosed DEF ClosedIn
  <2>3. \A n \in Nodes : parent'[n] # NULL => n \in {Dtd, Root} /\ parent'[n] = Doc
    BY <1>5
  <2> QED BY <1>3, <1>4, <1>5, <2>1, <2>2, <2>3 DEF Placed, PlacedIn
<1>9. Linked'
  BY <1>3, <1>4, <1>6 DEF Linked, Kinds
<1> QED BY <1>1, <1>2, <1>3, <1>4, <1>6, <1>7, <1>8, <1>9, RestInv

LEMMA GetNodeInv == ASSUME Inv, NEW n \in Nodes, GetNode(n) PROVE Inv'
<1>1. /\ call = "none" /\ call' = call /\ stack' = stack /\ found' = found /\ target' = target
      /\ xpath' = xpath /\ returned' = {} /\ kind' = kind /\ parent' = parent /\ refers' = refers
      /\ before' = before /\ kind[n] # "free" /\ n # Doc /\ CreateWrappers({n}, kind)
  BY DEF GetNode, Idle, graph, Allocated
<1>2. Linked /\ stack = <<>> /\ xpath = NoResult /\ \A m \in Nodes : found[m] = NULL
  BY <1>1, IdleInv
<1>3. kind \in [Nodes -> Kinds] /\ GraphTypeOK
  BY DEF Inv, GraphTypeOK
<1>4. Linked'
  BY <1>1, <1>2, <1>3, CreateLinked
<1>5. private' = private \cup {n} /\ object' \in [Nodes -> Kinds \cup {NULL}]
  BY <1>1, <1>3 DEF CreateWrappers, GraphTypeOK
<1>6. GraphTypeOK'
  BY <1>1, <1>3, <1>5 DEF GraphTypeOK, Allocated
<1>7. Placed'
  BY <1>1 DEF Inv, Placed
<1>8. Doc \in private' <=> kind'[Doc] # "free"
  BY <1>1, <1>5 DEF Inv, AtRest
<1> QED BY <1>1, <1>2, <1>4, <1>6, <1>7, <1>8, RestInv

\* A node comes, with or without a wrapper.
LEMMA NewNodeInv ==
  ASSUME Inv, Idle, NEW n \in Others, NEW p \in Nodes, NEW d \in Nodes \cup {NULL},
         NEW t \in {"element", "attribute", "entity_decl", "entity_ref"},
         kind[p] \notin {"free", "attribute", "entity_ref"},
         t = "attribute" => kind[p] \in {"element", "start"},
         NewNode(n, t, p, d), returned' = {}, UNCHANGED objects \/ CreateWrappers({n}, kind')
  PROVE  Inv'
<1>1. /\ call = "none" /\ call' = call /\ stack' = stack /\ found' = found /\ target' = target
      /\ xpath' = xpath /\ before' = before /\ kind[Doc] # "free" /\ kind[n] = "free"
      /\ kind' = [kind EXCEPT ![n] = t] /\ parent' = [parent EXCEPT ![n] = p]
      /\ refers' = [refers EXCEPT ![n] = d]
  BY DEF NewNode, Idle
<1>2. Linked /\ stack = <<>> /\ xpath = NoResult /\ \A m \in Nodes : found[m] = NULL
  BY <1>1, IdleInv
<1>3. GraphTypeOK /\ n \in Nodes \ {Doc, Dtd}
  BY DEF Inv, Nodes
<1>4. Placed'
  BY <1>1, <1>3, PlacedAdd DEF Inv, Placed
<1>5. /\ kind' \in [Nodes -> Kinds] /\ parent' \in [Nodes -> Nodes \cup {NULL}]
      /\ refers' \in [Nodes -> Nodes \cup {NULL}]
      /\ kind'[n] = t /\ \A m \in Nodes \ {n} : kind'[m] = kind[m]
  BY <1>1, <1>3 DEF GraphTypeOK, Kinds
<1>6. n \notin private /\ private \subseteq Nodes
  BY <1>1, <1>3 DEF GraphTypeOK, Allocated
<1>7. /\ Linked' /\ private' \subseteq private \cup {n} /\ object' \in [Nodes -> Kinds \cup {NULL}]
      /\ private \subseteq private'
  <2>1. CASE UNCHANGED objects
    <3>1. private' = private /\ object' = object
      BY <2>1 DEF objects
    <3> QED BY <1>2, <1>3, <1>5, <1>6, <3>1 DEF Linked, GraphTypeOK
  <2>2. CASE CreateWrappers({n}, kind')
    <3>1. Linked'
      BY <1>2, <1>3, <1>5, <1>6, <2>2, CreateLinked
    <3> QED BY <1>3, <1>5, <2>2, <3>1 DEF CreateWrappers, GraphTypeOK
  <2> QED BY <2>1, <2>2
<1>8. GraphTypeOK'
  <2>1. private' \subseteq Allocated'
    BY <1>3, <1>5, <1>7 DEF GraphTypeOK, Allocated
  <2> QED BY <1>1, <1>3, <1>5, <1>7, <2>1 DEF GraphTypeOK
<1>9. Doc \in private' <=> kind'[Doc] # "free"
  BY <1>1, <1>3, <1>5, <1>7 DEF Inv, AtRest, Nodes
<1> QED BY <1>1, <1>2, <1>4, <1>7, <1>8, <1>9, RestInv

LEMMA SetEntityDeclarationInv ==
  ASSUME OutsideDeclaration \notin Uses, Inv, SetEntityDeclaration
  PROVE  Inv'
<1>1. PICK n \in Others : NewNode(n, "entity_decl", Dtd, NULL)
  BY DEF SetEntityDeclaration
<1>2. Idle /\ returned' = {} /\ UNCHANGED objects
  BY DEF SetEntityDeclaration
<1>3. kind[Dtd] = "dtd" /\ Dtd \in Nodes
  BY <1>2 DEF Idle, Inv, Placed, PlacedIn, Nodes
<1> QED BY <1>1, <1>2, <1>3, NewNodeInv

LEMMA ParseReplacementTextInv == ASSUME Inv, ParseReplacementText PROVE Inv'
<1>1. PICK d \in Declarations, n \in Others, to \in Declarations : NewNode(n, "entity_ref", d, to)
  BY DEF ParseReplacementText
<1>2. Idle /\ returned' = {} /\ UNCHANGED objects
  BY DEF ParseReplacementText
<1> QED BY <1>1, <1>2, NewNodeInv DEF Declarations

LEMMA AddChildEntityReferenceInv == ASSUME Inv, AddChildEntityReference PROVE Inv'
<1>1. PICK p \in private, n \in Others, to \in Declarations \cup {NULL} :
        /\ kind[p] = "element" /\ NewNode(n, "entity_ref", p, to)
        /\ CreateWrappers({n}, kind') /\ returned' = {}
  BY DEF AddChildEntityReference
<1>2. Idle /\ p \in Nodes
  BY DEF AddChildEntityReference, Inv, GraphTypeOK, Allocated
<1> QED BY <1>1, <1>2, NewNodeInv DEF Declarations

LEMMA AddChildInv == ASSUME Inv, AddChild PROVE Inv'
<1>1. PICK p \in private, n \in Others, k \in {"element", "attribute"} :
        /\ kind[p] = "element" /\ NewNode(n, k, p, NULL)
        /\ CreateWrappers({n}, kind') /\ returned' = {}
  BY DEF AddChild
<1>2. Idle /\ p \in Nodes
  BY DEF AddChild, Inv, GraphTypeOK, Allocated
<1> QED BY <1>1, <1>2, NewNodeInv

-----------------------------------------------------------------------------
(* The recursion.                                                          *)

\* A new call has all of the node's subtree before it: only the nodes for which the second loop
\* is made have attributes, and the first loop is not made for a node that has none below it.
LEMMA FrameOf ==
  ASSUME Placed, NEW n \in Nodes
  PROVE  /\ Frame(n) \in Frames /\ Frame(n).node = n /\ \A m \in Frame(n).todo : parent[m] = n
         /\ Tree(parent, n) \subseteq PendingOf(kind, parent, Frame(n))
<1>1. Frame(n) \in Frames /\ Frame(n).node = n /\ Frame(n).todo = ChildrenOf(n)
      /\ Frame(n).phase = "children"
  BY DEF Frame, Frames, ChildrenOf, Allocated
<1>2. \A m \in ChildrenOf(n) : parent[m] = n
  BY DEF ChildrenOf
<1>3. \A m \in Nodes : parent[m] = n => kind[m] = "attribute" \/ m \in ChildrenOf(n)
  BY DEF ChildrenOf, Allocated, Placed, PlacedIn
<1>4. /\ n \in PendingOf(kind, parent, Frame(n))
      /\ \A c \in ChildrenOf(n) : Tree(parent, c) \subseteq PendingOf(kind, parent, Frame(n))
      /\ \A c \in Nodes : parent[c] = n /\ kind[c] = "attribute" =>
           Tree(parent, c) \subseteq PendingOf(kind, parent, Frame(n))
  <2> DEFINE f == Frame(n)
             A == {m \in Nodes : parent[m] = n /\ kind[m] = "attribute"}
             P == PendingOf(kind, parent, f)
  <2>1. f.todo = ChildrenOf(n) /\ f.phase # "attributes" /\ f.node = n
    BY <1>1
  <2> HIDE DEF f
  <2>2. P = (UNION {Tree(parent, m) : m \in ChildrenOf(n)}) \cup ({n} \cup UNION {Tree(parent, m) : m \in A})
    BY <2>1 DEF PendingOf
  <2>3. \A c \in A : Tree(parent, c) \subseteq P
    BY <2>2
  <2>4. \A c \in ChildrenOf(n) : Tree(parent, c) \subseteq P
    BY <2>2
  <2>5. n \in P
    BY <2>2
  <2> QED BY <2>3, <2>4, <2>5 DEF f
<1>5. Tree(parent, n) = {n} \cup UNION {Tree(parent, c) : c \in {c \in Nodes : parent[c] = n}}
  BY TreeUnfold
<1>6. \A c \in Nodes : parent[c] = n => Tree(parent, c) \subseteq PendingOf(kind, parent, Frame(n))
  BY <1>3, <1>4
<1>7. Tree(parent, n) \subseteq PendingOf(kind, parent, Frame(n))
  BY <1>4, <1>5, <1>6
<1> QED BY <1>1, <1>2, <1>7

LEMMA WalkStack ==
  ASSUME Placed, NEW n \in Nodes, Walk(n)
  PROVE  /\ stack' \in Seq(Frames) /\ stack' # <<>> /\ NestedIn(parent, stack')
         /\ \A i \in DOMAIN stack' : stack'[i].node = n
         /\ Tree(parent, n) \subseteq PendingIn(kind, parent, stack')
<1>1. stack' = <<Frame(n)>> /\ DOMAIN stack' = {1} /\ stack'[1] = Frame(n)
  BY DEF Walk
<1>2. stack' \in Seq(Frames) /\ stack' # <<>>
  BY <1>1, FrameOf
<1>3. NestedIn(parent, stack')
  BY <1>1, FrameOf DEF NestedIn
<1>4. PendingIn(kind, parent, stack') = PendingOf(kind, parent, Frame(n))
  BY <1>1 DEF PendingIn
<1> QED BY <1>1, <1>2, <1>3, <1>4, FrameOf

\* What is known of the stack in the walks.
LEMMA StackFacts ==
  ASSUME Inv, stack # <<>>
  PROVE  /\ stack \in Seq(Frames) /\ Below \in Seq(Frames) /\ top \in Frames
         /\ call \in Walks /\ call # "none" /\ call \notin Methods /\ NestedIn(parent, stack)
         /\ Len(stack) \in DOMAIN stack
<1>1. stack \in Seq(Frames)
  BY DEF Inv, GraphTypeOK, Frames
<1>2. Below \in Seq(Frames) /\ top \in Frames /\ Len(stack) \in DOMAIN stack
  BY <1>1, PopSeq DEF Below, top
<1> QED BY <1>1, <1>2 DEF Inv, Nested, Walks, Methods

LEMMA DescendStack ==
  ASSUME Inv, Descend
  PROVE  /\ stack' \in Seq(Frames) /\ NestedIn(parent, stack')
         /\ Pending \subseteq PendingIn(kind, parent, stack')
         /\ target # NULL => \A i \in DOMAIN stack' : stack'[i].node \in Tree(parent, target)
<1>1. stack # <<>> /\ top.todo # {}
  BY DEF Descend
<1>2. /\ stack \in Seq(Frames) /\ Below \in Seq(Frames) /\ top \in Frames /\ NestedIn(parent, stack)
      /\ Len(stack) \in DOMAIN stack
  BY <1>1, StackFacts
<1>3. CASE StackOverflow
  BY <1>2, <1>3 DEF Descend, Inv, Nested, Pending
<1>4. CASE ~StackOverflow
  <2> DEFINE n == First(top.todo)
             f == [top EXCEPT !.todo = @ \ {n}]
             s == Append(Below, f)
  <2>1. stack' = Append(s, Frame(n))
    BY <1>4 DEF Descend
  <2>2. n \in top.todo
    BY <1>1 DEF First
  <2>3. n \in Nodes /\ parent[n] = top.node
    BY <1>2, <2>2 DEF Frames, NestedIn, top
  <2> HIDE DEF n
  <2>4. /\ f \in Frames /\ f.node = top.node /\ f.phase = top.phase /\ f.todo = top.todo \ {n}
        /\ \A m \in f.todo : parent[m] = f.node
    BY <1>2 DEF Frames, NestedIn, top
  <2> HIDE DEF f
  <2>5. s \in Seq(Frames) /\ s # <<>> /\ Len(s) \in Nat /\ s[Len(s)] = f /\ DOMAIN s = 1..Len(s)
        /\ Len(s) = Len(stack) /\ \A i \in DOMAIN s : s[i].node = stack[i].node
    <3>1. s \in Seq(Frames) /\ Len(s) = Len(stack) /\ DOMAIN s = 1..Len(stack) /\ Len(stack) \in Nat \ {0}
          /\ DOMAIN stack = 1..Len(stack)
      BY <1>1, <1>2, <2>4, PopSeq, PushSeq DEF Below
    <3>2. s[Len(stack)] = f
      BY <1>1, <1>2, <2>4, PopSeq, PushSeq DEF Below
    <3>3. \A i \in 1..(Len(stack) - 1) : s[i] = stack[i]
      BY <1>1, <1>2, <2>4, PopSeq, PushSeq DEF Below
    <3>4. \A i \in 1..Len(stack) : i = Len(stack) \/ i \in 1..(Len(stack) - 1)
      BY <3>1
    <3> QED BY <2>4, <3>1, <3>2, <3>3, <3>4 DEF top
  <2>6. NestedIn(parent, s)
    BY <1>1, <1>2, <2>4, NestedTop DEF Below, top
  <2>7. /\ Frame(n) \in Frames /\ Frame(n).node = n /\ \A m \in Frame(n).todo : parent[m] = n
        /\ Tree(parent, n) \subseteq PendingOf(kind, parent, Frame(n))
    BY <2>3, FrameOf DEF Inv
  <2>8. parent[n] \notin Tree(parent, n) /\ top.node \in Nodes
    <3>1. top.node \in Nodes
      BY <1>2 DEF Frames
    <3> QED BY <2>3, <3>1 DEF Inv, Placed, PlacedIn
  <2>9. Pending = PendingIn(kind, parent, Below) \cup PendingOf(kind, parent, top)
    BY <1>1, <1>2, PendingPop DEF Pending, Below, top
  <2>10. PendingIn(kind, parent, s) = PendingIn(kind, parent, Below) \cup PendingOf(kind, parent, f)
    BY <1>2, <2>4, PendingPush
  <2> HIDE DEF s
  <2>11. NestedIn(parent, stack')
    BY <2>1, <2>3, <2>4, <2>5, <2>6, <2>7, <2>8, NestedPush
  <2>12. PendingIn(kind, parent, stack') = PendingIn(kind, parent, s) \cup PendingOf(kind, parent, Frame(n))
    BY <2>1, <2>5, <2>7, PendingPush
  <2>13. PendingOf(kind, parent, top) \subseteq PendingOf(kind, parent, f) \cup Tree(parent, n)
    BY <2>4 DEF PendingOf
  <2>14. Pending \subseteq PendingIn(kind, parent, stack')
    BY <2>7, <2>9, <2>10, <2>12, <2>13
  <2>15. stack' \in Seq(Frames) /\ DOMAIN stack' = 1..(Len(s) + 1) /\ stack'[Len(s) + 1] = Frame(n)
         /\ \A i \in 1..Len(s) : stack'[i] = s[i]
    BY <2>1, <2>5, <2>7, PushSeq
  <2>16. ASSUME target # NULL
         PROVE  \A i \in DOMAIN stack' : stack'[i].node \in Tree(parent, target)
    <3>1. target \in Nodes
      BY <2>16 DEF Inv, GraphTypeOK
    <3>2. \A i \in DOMAIN stack : stack[i].node \in Tree(parent, target)
      BY <2>16 DEF Inv, Nested
    <3>3. n \in Tree(parent, target)
      BY <1>2, <2>3, <3>1, <3>2, TreeClosed DEF ClosedIn, top
    <3>4. \A i \in 1..Len(s) : s[i].node \in Tree(parent, target)
      BY <1>2, <2>5, <3>2
    <3>5. \A i \in 1..(Len(s) + 1) : i = Len(s) + 1 \/ i \in 1..Len(s)
      BY <2>5
    <3> QED BY <2>7, <2>15, <3>3, <3>4, <3>5
  <2> QED BY <2>11, <2>14, <2>15, <2>16
<1> QED BY <1>3, <1>4

\* A call returns.
LEMMA BelowStack ==
  ASSUME Inv, stack # <<>>
  PROVE  /\ Below \in Seq(Frames) /\ NestedIn(parent, Below)
         /\ Pending = PendingIn(kind, parent, Below) \cup PendingOf(kind, parent, top)
         /\ target # NULL => \A i \in DOMAIN Below : Below[i].node \in Tree(parent, target)
<1>1. stack \in Seq(Frames) /\ NestedIn(parent, stack)
  BY StackFacts
<1>2. \A i \in DOMAIN Below : i \in DOMAIN stack /\ Below[i] = stack[i]
  BY <1>1, PopSeq DEF Below
<1>3. Below \in Seq(Frames) /\ NestedIn(parent, Below)
  BY <1>1, PopSeq, NestedPop DEF Below
<1>4. Pending = PendingIn(kind, parent, Below) \cup PendingOf(kind, parent, top)
  BY <1>1, PendingPop DEF Pending, Below, top
<1> QED BY <1>2, <1>3, <1>4 DEF Inv, Nested

LEMMA VisitStack ==
  ASSUME Inv, VisitNode
  PROVE  /\ stack' \in Seq(Frames) /\ NestedIn(parent, stack') /\ top.node \in Nodes
         /\ Pending \subseteq PendingIn(kind, parent, stack') \cup {top.node}
         /\ target # NULL => \A i \in DOMAIN stack' : stack'[i].node \in Tree(parent, target)
         /\ target # NULL => top.node \in Tree(parent, target)
<1> DEFINE n == top.node
           A == {m \in Nodes : parent[m] = n /\ kind[m] = "attribute"}
<1>1. stack # <<>> /\ top.phase = "children" /\ top.todo = {}
  BY DEF VisitNode
<1>2. /\ stack \in Seq(Frames) /\ Below \in Seq(Frames) /\ top \in Frames /\ NestedIn(parent, stack)
      /\ Len(stack) \in DOMAIN stack
  BY <1>1, StackFacts
<1>3. n \in Nodes /\ A = AttributesOf(n)
  BY <1>2 DEF Frames, AttributesOf
<1>4. target # NULL => n \in Tree(parent, target)
  BY <1>2 DEF Inv, Nested, top
<1>5. PendingOf(kind, parent, top) = {n} \cup UNION {Tree(parent, m) : m \in A}
  BY <1>1 DEF PendingOf
<1>6. CASE HasAttributes(n) /\ AttributesOf(n) # {}
  <2> DEFINE f == [top EXCEPT !.phase = "attributes", !.todo = AttributesOf(n)]
  <2>1. stack' = Append(Below, f)
    BY <1>6 DEF VisitNode
  <2>2. f \in Frames /\ f.node = n /\ f.todo = A /\ f.phase = "attributes"
    BY <1>2, <1>3 DEF Frames
  <2> HIDE DEF f
  <2>3. NestedIn(parent, stack')
    BY <1>1, <1>2, <2>1, <2>2, NestedTop DEF top, Below
  <2>4. PendingIn(kind, parent, stack') = PendingIn(kind, parent, Below) \cup PendingOf(kind, parent, f)
    BY <1>2, <2>1, <2>2, PendingPush
  <2>5. PendingOf(kind, parent, f) = UNION {Tree(parent, m) : m \in A}
    BY <2>2 DEF PendingOf
  <2>6. Pending \subseteq PendingIn(kind, parent, stack') \cup {n}
    BY <1>1, <1>5, <2>4, <2>5, BelowStack
  <2>7. /\ stack' \in Seq(Frames) /\ DOMAIN stack' = 1..(Len(Below) + 1) /\ stack'[Len(Below) + 1] = f
        /\ \A i \in 1..Len(Below) : stack'[i] = Below[i]
        /\ DOMAIN Below = 1..Len(Below) /\ Len(Below) \in Nat
    BY <1>2, <2>1, <2>2, PushSeq
  <2>8. \A i \in 1..(Len(Below) + 1) : i = Len(Below) + 1 \/ i \in 1..Len(Below)
    BY <2>7
  <2>9. target # NULL => \A i \in DOMAIN stack' : stack'[i].node \in Tree(parent, target)
    BY <1>1, <1>4, <2>2, <2>7, <2>8, BelowStack
  <2> QED BY <1>3, <1>4, <2>3, <2>6, <2>7, <2>9
<1>7. CASE ~(HasAttributes(n) /\ AttributesOf(n) # {})
  <2>1. stack' = Below
    BY <1>7 DEF VisitNode
  <2>2. A = {}
    BY <1>3, <1>7 DEF HasAttributes, AttributesOf, Inv, Placed, PlacedIn
  <2>3. Pending \subseteq PendingIn(kind, parent, stack') \cup {n}
    BY <1>1, <1>5, <2>1, <2>2, BelowStack
  <2> QED BY <1>1, <1>3, <1>4, <2>1, <2>3, BelowStack
<1> QED BY <1>6, <1>7

\* Steps that move the stack and change nothing else.
LEMMA StackMoves ==
  ASSUME Inv, stack # <<>>, stack' \in Seq(Frames), NestedIn(parent, stack'),
         target # NULL => \A i \in DOMAIN stack' : stack'[i].node \in Tree(parent, target),
         Pending \subseteq PendingIn(kind, parent, stack'),
         UNCHANGED <<graph, objects, found, call, target, xpath, returned, before>>
  PROVE  Inv'
<1>1. /\ kind' = kind /\ parent' = parent /\ refers' = refers /\ private' = private
      /\ object' = object /\ found' = found /\ call' = call /\ target' = target
      /\ xpath' = xpath /\ returned' = returned /\ before' = before
  BY DEF graph, objects
<1>2. Linked' = Linked /\ Wrapped' = Wrapped /\ Allocated' = Allocated /\ Selectable' = Selectable
  BY <1>1 DEF Linked, Wrapped, Allocated, Selectable
<1>3. Pending \subseteq Pending'
  BY <1>1 DEF Pending
<1>4. GraphTypeOK' /\ Placed' /\ GraphLinked' /\ AtRest'
  BY <1>1, <1>2 DEF Inv, GraphTypeOK, Placed, GraphLinked, AtRest, Frames
<1>5. Nested'
  BY <1>1, StackFacts DEF Nested
<1>6. Removing'
  BY <1>1, <1>2, <1>3 DEF Inv, Removing
<1>7. Finding'
  BY <1>1, <1>2, <1>3 DEF Inv, Finding
<1>8. Checking'
  <2>1. call = "check" => target # Doc
    BY DEF Inv, Checking
  <2> QED BY <1>1, <1>3, <2>1 DEF Inv, Checking
<1>9. Evaluating'
  BY <1>1, <1>2 DEF Inv, Evaluating
<1> QED BY <1>4, <1>5, <1>6, <1>7, <1>8, <1>9 DEF Inv

LEMMA DescendInv == ASSUME Inv, Descend PROVE Inv'
  BY DescendStack, StackMoves DEF Descend

LEMMA ReturnFromNodeInv == ASSUME Inv, ReturnFromNode PROVE Inv'
<1>1. stack # <<>> /\ top.phase = "attributes" /\ top.todo = {} /\ stack' = Below
  BY DEF ReturnFromNode
<1>2. PendingOf(kind, parent, top) = {}
  BY <1>1 DEF PendingOf
<1>3. Pending \subseteq PendingIn(kind, parent, stack')
  BY <1>1, <1>2, BelowStack
<1> QED BY <1>1, <1>3, BelowStack, StackMoves DEF ReturnFromNode

-----------------------------------------------------------------------------
(* What the functions do to the wrapper of the node that they are in.      *)

\* What is common to the three walks.
LEMMA VisitFacts ==
  ASSUME Inv, VisitNode
  PROVE  /\ stack # <<>> /\ call \in Walks /\ top.node \in Nodes
         /\ kind' = kind /\ parent' = parent /\ refers' = refers /\ call' = call
         /\ target' = target /\ xpath' = xpath /\ returned' = returned /\ before' = before
         /\ Nested' /\ Pending \subseteq Pending' \cup {top.node}
         /\ target # NULL => top.node \in Tree(parent, target)
<1>1. /\ stack # <<>> /\ kind' = kind /\ parent' = parent /\ refers' = refers /\ call' = call
      /\ target' = target /\ xpath' = xpath /\ returned' = returned /\ before' = before
  BY DEF VisitNode, graph
<1>2. call \in Walks
  BY <1>1, StackFacts
<1>3. Nested'
  BY <1>1, <1>2, VisitStack DEF Nested
<1>4. Pending \subseteq Pending' \cup {top.node}
  BY <1>1, VisitStack DEF Pending
<1> QED BY <1>1, <1>2, <1>3, <1>4, VisitStack

LEMMA FreeVisitInv ==
  ASSUME Inv, VisitNode, call \in {"remove", "delete"}
  PROVE  Inv'
<1> DEFINE n == top.node
<1>1. /\ stack # <<>> /\ n \in Nodes
      /\ kind' = kind /\ parent' = parent /\ refers' = refers /\ call' = call
      /\ target' = target /\ xpath' = xpath /\ returned' = returned /\ before' = before
      /\ Nested' /\ Pending \subseteq Pending' \cup {n}
      /\ target # NULL => n \in Tree(parent, target)
  BY VisitFacts
<1>2. DeleteWrapper(n)
  BY DEF VisitNode
<1>3. stack' \in Seq(Frames)
  BY VisitStack
<1> HIDE DEF n
<1>4. found' = found
  BY <1>2 DEF DeleteWrapper
<1>5. /\ target \in Allocated /\ (call = "delete" <=> target = Doc) /\ kind[target] # "dtd"
      /\ Linked /\ before.kind = kind
      /\ Wrapped \subseteq before.wrapped /\ before.wrapped \ Wrapped \subseteq Tree(parent, target)
      /\ private \cap Tree(parent, target) \subseteq Pending \cup {Doc}
  BY DEF Inv, Removing
<1>6. /\ target \in Nodes /\ Doc \in Nodes /\ kind[Doc] = "document" /\ private \subseteq Nodes
      /\ kind \in [Nodes -> Kinds] /\ object \in [Nodes -> Kinds \cup {NULL}]
      /\ \A m \in Nodes \ {Doc} : kind[m] # "document"
  BY <1>5 DEF Inv, AtRest, GraphTypeOK, Allocated, Placed, PlacedIn, Nodes
<1>7. \/ /\ n \in private /\ n # Doc /\ private' = private \ {n}
         /\ object' = [object EXCEPT ![n] = NULL]
      \/ /\ n \notin private \/ n = Doc
         /\ private' = private /\ object' = object
  BY <1>1, <1>2, <1>6 DEF DeleteWrapper, objects
<1>8. /\ private' \subseteq private /\ \A m \in private \ {n, Doc} : m \in private'
      /\ \A m \in private' : m # n \/ m = Doc
      /\ object' \in [Nodes -> Kinds \cup {NULL}]
      /\ \A m \in Nodes : object'[m] = object[m] \/ (object'[m] = NULL /\ m = n /\ n # Doc)
      /\ object'[Doc] = object[Doc] /\ (Doc \in private' <=> Doc \in private)
  BY <1>1, <1>6, <1>7
<1>9. GraphTypeOK'
  BY <1>1, <1>3, <1>4, <1>8 DEF Inv, GraphTypeOK, Allocated, Frames
<1>10. Placed' /\ AtRest'
  BY <1>1, <1>4, <1>8 DEF Inv, Placed, AtRest
<1>11. Linked'
  BY <1>1, <1>5, <1>6, <1>7 DEF Linked
<1>12. Removing'
  <2>1. Allocated' = Allocated
    BY <1>1 DEF Allocated
  <2>2. Wrapped' \subseteq Wrapped /\ Wrapped \ Wrapped' \subseteq {n}
    BY <1>8 DEF Wrapped
  <2>3. n \in Tree(parent, target)
    BY <1>1, <1>6
  <2>4. private' \cap Tree(parent, target) \subseteq Pending' \cup {Doc}
    BY <1>1, <1>5, <1>8
  <2> QED BY <1>1, <1>5, <1>11, <2>1, <2>2, <2>3, <2>4 DEF Removing
<1>13. call' \notin Methods \cup {"find", "check"}
  BY <1>1 DEF Methods
<1> QED BY <1>1, <1>9, <1>10, <1>11, <1>12, <1>13
        DEF Inv, GraphLinked, Finding, Checking, Evaluating

LEMMA FindVisitInv ==
  ASSUME Inv, VisitNode, call = "find"
  PROVE  Inv'
<1> DEFINE n == top.node
<1>1. /\ stack # <<>> /\ n \in Nodes
      /\ kind' = kind /\ parent' = parent /\ refers' = refers /\ call' = call
      /\ target' = target /\ xpath' = xpath /\ returned' = returned /\ before' = before
      /\ Nested' /\ Pending \subseteq Pending' \cup {n}
      /\ target # NULL => n \in Tree(parent, target)
  BY VisitFacts
<1>2. FindWrapper(n)
  BY DEF VisitNode
<1>3. stack' \in Seq(Frames)
  BY VisitStack
<1> HIDE DEF n
<1>4. private' = private /\ object' = object
      /\ found' = IF n \in private THEN [found EXCEPT ![n] = kind[n]] ELSE found
  BY <1>2 DEF FindWrapper, objects
<1>5. kind \in [Nodes -> Kinds] /\ found \in [Nodes -> Kinds \cup {NULL}]
  BY DEF Inv, GraphTypeOK
<1>6. /\ \A m \in Nodes \ {n} : found'[m] = found[m]
      /\ found'[n] = IF n \in private THEN kind[n] ELSE found[n]
      /\ found' \in [Nodes -> Kinds \cup {NULL}]
  BY <1>1, <1>4, <1>5
<1>7. Linked' = Linked /\ Wrapped' = Wrapped /\ Allocated' = Allocated
  BY <1>1, <1>4 DEF Linked, Wrapped, Allocated
<1>8. GraphTypeOK'
  BY <1>1, <1>3, <1>4, <1>6 DEF Inv, GraphTypeOK, Allocated, Frames
<1>9. Placed' /\ AtRest'
  BY <1>1, <1>4 DEF Inv, Placed, AtRest
<1>10. /\ target \in Nodes /\ kind[target] = "element" /\ target # NULL
       /\ Linked /\ before.kind = kind /\ before.wrapped = Wrapped
       /\ \A m \in Nodes : found[m] # NULL => m \in private \cap Tree(parent, target) /\ found[m] = kind[m]
       /\ \A m \in private \cap Tree(parent, target) : m \notin Pending => found[m] # NULL
  BY DEF Inv, Finding
<1>11. \A m \in Nodes : found'[m] # NULL =>
         m \in private \cap Tree(parent, target) /\ found'[m] = kind[m]
  BY <1>1, <1>6, <1>10
<1>12. \A m \in private \cap Tree(parent, target) : m \notin Pending' => found'[m] # NULL
  <2> SUFFICES ASSUME NEW m \in private \cap Tree(parent, target), m \notin Pending'
               PROVE  found'[m] # NULL
    OBVIOUS
  <2>1. m \in Nodes /\ kind[m] \in Kinds
    BY <1>5 DEF Inv, GraphTypeOK, Allocated
  <2>2. m \notin Pending \/ m = n
    BY <1>1
  <2> QED BY <1>6, <1>10, <2>1, <2>2
<1>13. Finding'
  BY <1>1, <1>4, <1>7, <1>10, <1>11, <1>12 DEF Finding
<1>14. call' \notin Methods \cup {"remove", "delete", "check", "none"}
  BY <1>1 DEF Methods
<1> QED BY <1>1, <1>8, <1>9, <1>13, <1>14
        DEF Inv, GraphLinked, Removing, Checking, Evaluating

LEMMA CheckVisitInv ==
  ASSUME Inv, VisitNode, call = "check"
  PROVE  Inv'
<1> DEFINE n == top.node
<1>1. /\ stack # <<>> /\ n \in Nodes
      /\ kind' = kind /\ parent' = parent /\ refers' = refers /\ call' = call
      /\ target' = target /\ xpath' = xpath /\ returned' = returned /\ before' = before
      /\ Nested' /\ Pending \subseteq Pending' \cup {n}
  BY VisitFacts
<1>2. RemoveFoundWrapper(n)
  BY DEF VisitNode
<1>3. stack' \in Seq(Frames)
  BY VisitStack
<1> HIDE DEF n
<1>4. /\ kind \in [Nodes -> Kinds] /\ found \in [Nodes -> Kinds \cup {NULL}]
      /\ private \subseteq Nodes /\ before.wrapped \subseteq Nodes \ {Doc} /\ Doc \in Nodes
  BY DEF Inv, GraphTypeOK, Allocated, Nodes
<1>5. /\ target = NULL /\ found[Doc] = NULL
      /\ \A m \in before.wrapped : before.kind[m] # "free"
      /\ \A m \in Nodes \ {Doc} : object[m] = IF m \in before.wrapped THEN before.kind[m] ELSE NULL
      /\ \A m \in Nodes : found[m] # NULL => m \in before.wrapped /\ found[m] = before.kind[m]
      /\ \A m \in private \ {Doc} : m \in before.wrapped /\ (found[m] = NULL => kind[m] = before.kind[m])
      /\ \A m \in before.wrapped \ private : found[m] # NULL /\ kind[m] # before.kind[m]
      /\ \A m \in private : m \notin Pending => found[m] = NULL
  BY <1>1 DEF Inv, Checking
<1>6. \/ /\ n \in private /\ found[n] # NULL /\ found[n] = kind[n]
         /\ private' = private /\ object' = object /\ found' = [found EXCEPT ![n] = NULL]
      \/ /\ n \in private /\ found[n] # NULL /\ found[n] # kind[n]
         /\ private' = private \ {n} /\ object' = object /\ found' = found
      \/ /\ n \notin private \/ found[n] = NULL
         /\ private' = private /\ object' = object /\ found' = found
  BY <1>2 DEF RemoveFoundWrapper, objects
<1>7. /\ private' \subseteq private /\ object' = object /\ found' \in [Nodes -> Kinds \cup {NULL}]
      /\ Doc \in private' <=> Doc \in private
  BY <1>1, <1>4, <1>5, <1>6
<1>8. GraphTypeOK'
  BY <1>1, <1>3, <1>7 DEF Inv, GraphTypeOK, Allocated, Frames
<1>9. Placed' /\ AtRest'
  BY <1>1, <1>7 DEF Inv, Placed, AtRest
<1>10. found'[Doc] = NULL /\ \A m \in Nodes : found'[m] # NULL => m \in before.wrapped /\ found'[m] = before.kind[m]
  BY <1>1, <1>4, <1>5, <1>6
<1>11. \A m \in private' \ {Doc} : m \in before.wrapped /\ (found'[m] = NULL => kind[m] = before.kind[m])
  BY <1>1, <1>4, <1>5, <1>6
<1>12. \A m \in before.wrapped \ private' : found'[m] # NULL /\ kind[m] # before.kind[m]
  BY <1>1, <1>4, <1>5, <1>6
<1>13. \A m \in private' : m \notin Pending' => found'[m] = NULL
  BY <1>1, <1>4, <1>5, <1>6
<1>14. Checking'
  <2>1. NULL # Doc
    BY <1>4
  <2> QED BY <1>1, <1>5, <1>7, <1>10, <1>11, <1>12, <1>13, <2>1 DEF Checking
<1>15. call' \notin Methods \cup {"remove", "delete", "find", "none"}
  BY <1>1 DEF Methods
<1> QED BY <1>1, <1>8, <1>9, <1>14, <1>15
        DEF Inv, GraphLinked, Removing, Finding, Evaluating

LEMMA VisitNodeInv == ASSUME Inv, VisitNode PROVE Inv'
<1>1. call \in Walks
  BY VisitFacts
<1> QED BY <1>1, FreeVisitInv, FindVisitInv, CheckVisitInv DEF Walks

-----------------------------------------------------------------------------
(* Calls begin.                                                            *)

LEMMA RemoveNodeInv == ASSUME Inv, NEW n \in Nodes, RemoveNode(n) PROVE Inv'
<1>1. n \in private /\ kind[n] \in {"element", "attribute", "entity_ref"} /\ Begin("remove", n) /\ Walk(n)
  BY DEF RemoveNode
<1>2. call = "none" /\ target' = n /\ xpath' = xpath
  BY <1>1 DEF Begin, Idle, Walk
<1>3. xpath = NoResult /\ Linked
  BY <1>2, IdleInv
<1>4. /\ stack' \in Seq(Frames) /\ stack' # <<>> /\ NestedIn(parent, stack')
      /\ \A i \in DOMAIN stack' : stack'[i].node = n
      /\ Tree(parent, n) \subseteq PendingIn(kind, parent, stack')
  BY <1>1, WalkStack DEF Inv
<1>5. /\ GraphTypeOK' /\ Placed' /\ AtRest' /\ Linked' /\ GraphLinked'
      /\ before'.kind = kind /\ before'.wrapped = Wrapped /\ call' = "remove"
      /\ kind' = kind /\ parent' = parent /\ private' = private /\ object' = object
  BY <1>1, <1>2, <1>3, <1>4, BeginType DEF Walks, Methods, NoResult
<1>6. Nested'
  BY <1>2, <1>4, <1>5, TreeClosed DEF Nested, Walks
<1>7. n \in Allocated /\ n # Doc
  BY <1>1 DEF Allocated, Inv, Placed, PlacedIn
<1>8. Removing'
  BY <1>1, <1>2, <1>4, <1>5, <1>7 DEF Removing, Allocated, Wrapped, Pending
<1>9. call' \notin Methods \cup {"find", "check"}
  BY <1>5 DEF Methods
<1> QED BY <1>5, <1>6, <1>8, <1>9 DEF Inv, Finding, Checking, Evaluating

LEMMA DeleteInv == ASSUME Inv, Delete PROVE Inv'
<1>1. Begin("delete", Doc) /\ Walk(Doc) /\ Doc \in Nodes
  BY DEF Delete, Nodes
<1>2. call = "none" /\ target' = Doc /\ xpath' = xpath /\ kind[Doc] # "free"
  BY <1>1 DEF Begin, Idle, Walk
<1>3. xpath = NoResult /\ Linked
  BY <1>2, IdleInv
<1>4. /\ stack' \in Seq(Frames) /\ stack' # <<>> /\ NestedIn(parent, stack')
      /\ \A i \in DOMAIN stack' : stack'[i].node = Doc
      /\ Tree(parent, Doc) \subseteq PendingIn(kind, parent, stack')
  BY <1>1, WalkStack DEF Inv
<1>5. /\ GraphTypeOK' /\ Placed' /\ AtRest' /\ Linked' /\ GraphLinked'
      /\ before'.kind = kind /\ before'.wrapped = Wrapped /\ call' = "delete"
      /\ kind' = kind /\ parent' = parent /\ private' = private /\ object' = object
  BY <1>1, <1>2, <1>3, <1>4, BeginType DEF Walks, Methods, NoResult
<1>6. Nested'
  BY <1>1, <1>2, <1>4, <1>5, TreeClosed DEF Nested, Walks
<1>7. Doc \in Allocated /\ kind[Doc] # "dtd"
  BY <1>1, <1>2 DEF Allocated, Inv, Placed, PlacedIn
<1>8. Removing'
  BY <1>1, <1>2, <1>4, <1>5, <1>7 DEF Removing, Allocated, Wrapped, Pending
<1>9. call' \notin Methods \cup {"find", "check"}
  BY <1>5 DEF Methods
<1> QED BY <1>5, <1>6, <1>8, <1>9 DEF Inv, Finding, Checking, Evaluating

LEMMA ProcessXIncludeInv == ASSUME Inv, ProcessXInclude PROVE Inv'
<1>1. PICK r \in Nodes : kind[r] = "element" /\ Begin("find", r) /\ Walk(r)
  BY DEF ProcessXInclude
<1>2. call = "none" /\ target' = r /\ xpath' = xpath
  BY <1>1 DEF Begin, Idle, Walk
<1>3. xpath = NoResult /\ Linked
  BY <1>2, IdleInv
<1>4. /\ stack' \in Seq(Frames) /\ stack' # <<>> /\ NestedIn(parent, stack')
      /\ \A i \in DOMAIN stack' : stack'[i].node = r
      /\ Tree(parent, r) \subseteq PendingIn(kind, parent, stack')
  BY <1>1, WalkStack DEF Inv
<1>5. /\ GraphTypeOK' /\ Placed' /\ AtRest' /\ Linked' /\ GraphLinked'
      /\ before'.kind = kind /\ before'.wrapped = Wrapped /\ call' = "find"
      /\ kind' = kind /\ parent' = parent /\ private' = private /\ object' = object
      /\ found' = found /\ \A m \in Nodes : found[m] = NULL
  BY <1>1, <1>2, <1>3, <1>4, BeginType DEF Walks, Methods, NoResult
<1>6. Nested'
  BY <1>2, <1>4, <1>5, TreeClosed DEF Nested, Walks
<1>7. Finding'
  BY <1>1, <1>2, <1>4, <1>5 DEF Finding, Wrapped, Pending
<1>8. call' \notin Methods \cup {"remove", "delete", "check"}
  BY <1>5 DEF Methods
<1> QED BY <1>5, <1>6, <1>7, <1>8 DEF Inv, Removing, Checking, Evaluating

LEMMA NewXPathContextInv == ASSUME Inv, NEW method \in Methods, NewXPathContext(method) PROVE Inv'
<1>1. /\ Begin(method, NULL) /\ stack' = stack /\ xpath' = [NoResult EXCEPT !.held = {"context"}]
  BY DEF NewXPathContext
<1>2. call = "none" /\ target' = NULL
  BY <1>1 DEF Begin, Idle
<1>3. stack' = <<>> /\ xpath'.held = {"context"} /\ xpath'.nodes = {}
  BY <1>1, <1>2, IdleInv DEF NoResult
<1>4. /\ GraphTypeOK' /\ Placed' /\ AtRest' /\ Linked' /\ GraphLinked'
      /\ before'.kind = kind /\ before'.wrapped = Wrapped /\ call' = method
      /\ kind' = kind /\ parent' = parent /\ private' = private /\ object' = object
  BY <1>1, <1>3, BeginType
<1>5. Nested'
  BY <1>2, <1>3 DEF Nested, NestedIn
<1>6. Evaluating'
  BY <1>3, <1>4 DEF Evaluating, Wrapped
<1>7. call' \notin {"remove", "delete", "find", "check"}
  BY <1>4 DEF Methods
<1> QED BY <1>4, <1>5, <1>6, <1>7 DEF Inv, Removing, Finding, Checking

-----------------------------------------------------------------------------
(* Calls end.                                                              *)

LEMMA NodeRemovedInv ==
  ASSUME Inv, NodeRemoved
  PROVE  /\ Inv' /\ private' = private /\ object' = object /\ kind' \in [Nodes -> Kinds]
         /\ \A n \in Nodes : kind'[n] = IF n \in Tree(parent, target) THEN "free" ELSE kind[n]
<1> DEFINE gone == Tree(parent, target)
<1>1. /\ call = "remove" /\ stack = <<>> /\ FreeNodes(gone) /\ call' = "none" /\ target' = NULL
      /\ object' = object /\ found' = found /\ stack' = stack /\ xpath' = xpath
      /\ returned' = returned
  BY SubtreeIsTree DEF NodeRemoved, End
<1>2. /\ target \in Allocated /\ target # Doc /\ kind[target] # "dtd"
      /\ Linked /\ private \cap gone \subseteq Pending \cup {Doc}
  BY <1>1 DEF Inv, Removing
<1>3. /\ target \in Nodes \ {Doc} /\ kind[target] # "free" /\ Doc \in Nodes /\ Dtd \in Nodes
      /\ kind[Dtd] = "dtd" /\ target # Dtd
  BY <1>1, <1>2 DEF Allocated, Inv, AtRest, Placed, PlacedIn, Nodes
<1>4. gone \in SUBSET (Nodes \ {Doc, Dtd}) /\ ClosedIn(parent, gone)
  BY <1>3, PlacedParent, TreeClosed DEF Inv, Placed
<1> HIDE DEF gone
<1>5. Pending = {}
  BY <1>1, PendingEmpty DEF Pending
<1>6. /\ kind' = [n \in Nodes |-> IF n \in gone THEN "free" ELSE kind[n]]
      /\ parent' = [n \in Nodes |-> IF n \in gone THEN NULL ELSE parent[n]]
      /\ refers' = [n \in Nodes |-> IF n \in gone THEN NULL ELSE refers[n]]
      /\ private' = private \ gone
  BY <1>1 DEF FreeNodes
<1>7. private' = private /\ private \cap gone = {}
  BY <1>2, <1>4, <1>5, <1>6
<1>8. Placed'
  BY <1>4, <1>6, PlacedFree DEF Inv, Placed
<1>9. /\ kind \in [Nodes -> Kinds] /\ parent \in [Nodes -> Nodes \cup {NULL}]
      /\ refers \in [Nodes -> Nodes \cup {NULL}] /\ private \subseteq Allocated /\ xpath = NoResult
      /\ \A n \in Nodes : found[n] = NULL
  BY <1>1 DEF Inv, GraphTypeOK, AtRest, Methods
<1>10. kind' \in [Nodes -> Kinds] /\ \A n \in private : kind'[n] = kind[n]
  BY <1>6, <1>7, <1>9 DEF Kinds, Allocated
<1>11. GraphTypeOK'
  <2>1. private' \subseteq Allocated'
    BY <1>7, <1>9, <1>10 DEF Allocated
  <2>2. parent' \in [Nodes -> Nodes \cup {NULL}] /\ refers' \in [Nodes -> Nodes \cup {NULL}]
    BY <1>6, <1>9
  <2> QED BY <1>1, <1>9, <1>10, <2>1, <2>2 DEF Inv, GraphTypeOK
<1>12. Linked'
  BY <1>1, <1>2, <1>7, <1>10 DEF Linked
<1>13. Doc \in private' <=> kind'[Doc] # "free"
  BY <1>3, <1>4, <1>6, <1>7 DEF Inv, AtRest
<1>14. Inv'
  BY <1>1, <1>8, <1>9, <1>11, <1>12, <1>13, RestInv
<1> QED BY <1>1, <1>6, <1>7, <1>10, <1>14 DEF gone

LEMMA DeletedInv ==
  ASSUME Inv, Deleted
  PROVE  Inv' /\ kind' \in [Nodes -> Kinds] /\ \A n \in Nodes : kind'[n] = "free" /\ object'[n] = NULL
<1>1. /\ call = "delete" /\ stack = <<>> /\ FreeNodes(Nodes) /\ call' = "none" /\ target' = NULL
      /\ object' = [object EXCEPT ![Doc] = NULL] /\ found' = found /\ stack' = stack
      /\ xpath' = xpath /\ returned' = returned
  BY DEF Deleted, End
<1>2. /\ target = Doc /\ Linked /\ private \cap Tree(parent, Doc) \subseteq Pending \cup {Doc}
  BY <1>1 DEF Inv, Removing
<1>3. Pending = {}
  BY <1>1, PendingEmpty DEF Pending
<1>4. /\ kind \in [Nodes -> Kinds] /\ private \subseteq Allocated /\ xpath = NoResult
      /\ object \in [Nodes -> Kinds \cup {NULL}] /\ \A n \in Nodes : found[n] = NULL
  BY <1>1 DEF Inv, GraphTypeOK, AtRest, Methods
<1>5. private \subseteq {Doc}
  BY <1>2, <1>3, <1>4 DEF Inv, Placed, PlacedIn, Allocated
<1>6. /\ kind' = [n \in Nodes |-> "free"] /\ parent' = [n \in Nodes |-> NULL]
      /\ refers' = [n \in Nodes |-> NULL] /\ private' = {} /\ Doc \in Nodes
      /\ kind' \in [Nodes -> Kinds]
  BY <1>1, <1>4, <1>5 DEF FreeNodes, Nodes, Allocated, Kinds
<1>7. object' \in [Nodes -> Kinds \cup {NULL}] /\ \A n \in Nodes : object'[n] = NULL
  BY <1>1, <1>2, <1>4, <1>5, <1>6 DEF Linked
<1>8. Linked'
  BY <1>6, <1>7 DEF Linked
<1>9. Placed'
  BY <1>6 DEF Placed, PlacedIn
<1>10. GraphTypeOK'
  BY <1>1, <1>4, <1>6, <1>7 DEF Inv, GraphTypeOK
<1>11. Inv'
  BY <1>1, <1>4, <1>6, <1>8, <1>9, <1>10, RestInv
<1> QED BY <1>6, <1>7, <1>11

LEMMA DeleteRestInv ==
  ASSUME Inv, DeleteRest
  PROVE  /\ Inv' /\ kind' = kind
         /\ \A n \in Nodes \ {Doc} : object'[n] # NULL <=> n \in before.wrapped /\ kind[n] = before.kind[n]
<1>1. /\ call = "check" /\ target = NULL /\ stack = <<>> /\ call' = "none" /\ target' = NULL
      /\ object' = [n \in Nodes |-> IF found[n] # NULL THEN NULL ELSE object[n]]
      /\ found' = [n \in Nodes |-> NULL] /\ kind' = kind /\ parent' = parent /\ refers' = refers
      /\ private' = private /\ stack' = stack /\ xpath' = xpath /\ returned' = returned
  BY DEF DeleteRest, End, graph
<1>2. /\ found[Doc] = NULL
      /\ \A m \in before.wrapped : before.kind[m] # "free"
      /\ \A m \in Nodes \ {Doc} : object[m] = IF m \in before.wrapped THEN before.kind[m] ELSE NULL
      /\ \A m \in private \ {Doc} : m \in before.wrapped /\ (found[m] = NULL => kind[m] = before.kind[m])
      /\ \A m \in before.wrapped \ private : found[m] # NULL /\ kind[m] # before.kind[m]
      /\ \A m \in private : m \notin Pending => found[m] = NULL
  BY <1>1 DEF Inv, Checking
<1>3. Pending = {}
  BY <1>1, PendingEmpty DEF Pending
<1>4. /\ kind \in [Nodes -> Kinds] /\ private \subseteq Nodes /\ Doc \in Nodes /\ xpath = NoResult
      /\ object \in [Nodes -> Kinds \cup {NULL}]
      /\ before.kind \in [Nodes -> Kinds] /\ before.wrapped \subseteq Nodes \ {Doc}
  BY <1>1 DEF Inv, GraphTypeOK, Allocated, Nodes, Methods
<1>5. object'[Doc] = "document" /\ Doc \in private' /\ kind'[Doc] = "document" /\ kind'[Doc] # "free"
  BY <1>1, <1>2, <1>4 DEF Inv, AtRest, Placed, PlacedIn
<1>6. \A n \in private \ {Doc} : n \in before.wrapped /\ object'[n] = kind[n] /\ kind[n] = before.kind[n]
  BY <1>1, <1>2, <1>3, <1>4
<1>7. \A n \in Nodes \ private : object'[n] = NULL
  BY <1>1, <1>2, <1>4, <1>5
<1>8. \A n \in Nodes : kind[n] # NULL
  BY <1>4
<1>9. Linked'
  <2>1. \A n \in private : object'[n] = kind'[n] /\ object'[n] # NULL
    BY <1>1, <1>4, <1>5, <1>6, <1>8
  <2>2. private' = private /\ \A n \in Nodes : n \in private <=> object'[n] # NULL
    BY <1>1, <1>7, <2>1
  <2>3. private' = {n \in Nodes : object'[n] # NULL}
    BY <1>4, <2>2
  <2> QED BY <2>1, <2>2, <2>3 DEF Linked
<1>10. GraphTypeOK'
  BY <1>1, <1>4 DEF Inv, GraphTypeOK, Allocated
<1>11. Placed'
  BY <1>1 DEF Inv, Placed
<1>12. Inv'
  BY <1>1, <1>5, <1>9, <1>10, <1>11, RestInv
<1>13. \A n \in Nodes \ {Doc} : object'[n] # NULL <=> n \in before.wrapped /\ kind[n] = before.kind[n]
  BY <1>2, <1>4, <1>6, <1>7, <1>8
<1> QED BY <1>1, <1>12, <1>13

-----------------------------------------------------------------------------
(* XInclude.                                                               *)

\* What libxml2 does when it includes leaves a tree.
LEMMA IncludeOutcome ==
  ASSUME Placed, private \subseteq Allocated, refers \in [Nodes -> Nodes \cup {NULL}],
         NEW x \in Nodes, kind[x] = "element", NEW stays \in BOOLEAN,
         NEW E \in {{}} \cup {{e} : e \in Others}, Include(x, stays, E)
  PROVE  /\ Placed' /\ private' \subseteq Allocated' /\ refers' \in [Nodes -> Nodes \cup {NULL}]
         /\ \A n \in private' : n \in private /\ (n = x \/ kind'[n] = kind[n])
         /\ \A n \in private \ private' : n \in Tree(parent, x) /\ kind'[n] # kind[n]
<1> DEFINE gone == Tree(parent, x) \ IF stays THEN {x} \cup AttributesOf(x) ELSE {}
           k1 == [n \in Nodes |-> IF n \in gone THEN "free" ELSE kind[n]]
           p1 == [n \in Nodes |-> IF n \in gone THEN NULL ELSE parent[n]]
           k2 == IF stays THEN [k1 EXCEPT ![x] = "start"] ELSE k1
<1>1. /\ \A e \in E : e \in Others /\ (kind[e] = "free" \/ (e \in gone /\ kind[e] # "element"))
      /\ kind' = [n \in Nodes |-> CASE n \in E -> "element"
                                    [] n \in gone \ E -> "free"
                                    [] n = x /\ stays -> "start"
                                    [] OTHER -> kind[n]]
      /\ parent' = [n \in Nodes |-> CASE n \in E -> parent[x]
                                      [] n \in gone \ E -> NULL [] OTHER -> parent[n]]
      /\ refers' = [n \in Nodes |-> IF n \in gone THEN NULL ELSE refers[n]]
      /\ private' = private \ gone
  BY SubtreeIsTree DEF Include
<1>2. /\ kind \in [Nodes -> Kinds] /\ parent \in [Nodes -> Nodes \cup {NULL}]
      /\ x # Doc /\ x # Dtd /\ Doc \in Nodes /\ Dtd \in Nodes /\ kind[Doc] = "document"
  BY DEF Placed, PlacedIn, Nodes
<1>3. /\ parent[x] \in Nodes \ Tree(parent, x) /\ kind[parent[x]] \notin {"free", "attribute", "entity_ref"}
      /\ Doc \notin Tree(parent, x) /\ Dtd \notin Tree(parent, x)
  BY <1>2, PlacedParent DEF Placed
<1>4. /\ gone \in SUBSET (Nodes \ {Doc, Dtd}) /\ parent[x] \notin gone /\ (stays => x \notin gone)
      /\ gone \subseteq Tree(parent, x)
  BY <1>3, TreeClosed
<1>5. ClosedIn(parent, gone)
  <2> SUFFICES ASSUME NEW m \in Nodes, parent[m] \in gone
               PROVE  m \in gone
    BY DEF ClosedIn
  <2>1. m \in Tree(parent, x) /\ m # x
    BY <1>3, TreeClosed DEF ClosedIn
  <2>2. stays => m \notin AttributesOf(x)
    BY <1>4 DEF AttributesOf
  <2> QED BY <2>1, <2>2
<1> HIDE DEF gone
<1>6. PlacedIn(k1, p1)
  BY <1>4, <1>5, PlacedFree DEF Placed
<1>7. k1 \in [Nodes -> Kinds] /\ (stays => k1[x] = "element") /\ k1[parent[x]] = kind[parent[x]]
  BY <1>2, <1>3, <1>4 DEF Kinds
<1>8. PlacedIn(k2, p1)
  BY <1>6, <1>7, PlacedStart
<1>9. \A e \in E : e \in Nodes \ {Doc, Dtd} /\ k2[e] = "free" /\ e # x
  BY <1>1, <1>2, <1>4, <1>7 DEF Nodes
<1>10. k2[parent[x]] \notin {"free", "attribute", "entity_ref"}
  BY <1>3, <1>7
<1>11. Placed'
  <2>1. CASE E = {}
    <3>1. kind' = k2
      BY <1>1, <1>2, <1>4, <2>1
    <3>2. parent' = p1
      BY <1>1, <2>1
    <3> QED BY <1>8, <3>1, <3>2 DEF Placed
  <2>2. CASE E # {}
    <3>1. PICK e \in Others : E = {e}
      BY <2>2
    <3>2. e \in Nodes \ {Doc, Dtd} /\ k2[e] = "free" /\ e # x
      BY <1>9, <3>1
    <3>3. kind' = [k2 EXCEPT ![e] = "element"]
      BY <1>1, <1>2, <1>4, <3>1, <3>2
    <3>4. parent' = [p1 EXCEPT ![e] = parent[x]]
      BY <1>1, <3>1, <3>2
    <3>5. parent[x] \in Nodes
      BY <1>3
    <3> HIDE DEF k2, p1
    <3>6. PlacedIn([k2 EXCEPT ![e] = "element"], [p1 EXCEPT ![e] = parent[x]])
      BY <1>8, <1>10, <3>2, <3>5, PlacedAdd
    <3> QED BY <3>3, <3>4, <3>6 DEF Placed
  <2> QED BY <2>1, <2>2
<1>12. \A n \in private' : n \in private /\ n \notin gone /\ n \notin E /\ n \in Nodes
  BY <1>1 DEF Allocated
<1>13. \A n \in private' : n = x \/ kind'[n] = kind[n]
  BY <1>1, <1>12
<1>14. \A n \in private \ private' : n \in Tree(parent, x) /\ kind'[n] # kind[n]
  <2> SUFFICES ASSUME NEW n \in private \ private'
               PROVE  n \in Tree(parent, x) /\ kind'[n] # kind[n]
    OBVIOUS
  <2>1. n \in gone /\ n \in Nodes /\ kind[n] # "free"
    BY <1>1 DEF Allocated
  <2>2. CASE n \in E
    BY <1>1, <1>4, <2>1, <2>2
  <2>3. CASE n \notin E
    BY <1>1, <1>4, <2>1, <2>3
  <2> QED BY <2>2, <2>3
<1>15. private' \subseteq Allocated'
  <2> SUFFICES ASSUME NEW n \in private'
               PROVE  n \in Nodes /\ kind'[n] # "free"
    BY DEF Allocated
  <2>1. n \in Nodes /\ kind[n] # "free" /\ n \notin gone /\ n \notin E
    BY <1>12 DEF Allocated
  <2> QED BY <1>1, <2>1
<1> QED BY <1>1, <1>11, <1>12, <1>13, <1>14, <1>15

LEMMA IncludedInv == ASSUME Inv, Included PROVE Inv'
<1>1. /\ call = "find" /\ stack = <<>> /\ call' = "check" /\ target' = Doc
      /\ object' = object /\ found' = found /\ stack' = stack /\ xpath' = xpath
      /\ returned' = returned /\ before' = before
  BY DEF Included
<1>2. /\ target \in Nodes /\ kind[target] = "element"
      /\ Linked /\ before.kind = kind /\ before.wrapped = Wrapped
      /\ \A n \in Nodes : found[n] # NULL => n \in private \cap Tree(parent, target) /\ found[n] = kind[n]
      /\ \A n \in private \cap Tree(parent, target) : n \notin Pending => found[n] # NULL
  BY <1>1 DEF Inv, Finding
<1>3. Pending = {}
  BY <1>1, PendingEmpty DEF Pending
<1>4. /\ kind \in [Nodes -> Kinds] /\ private \subseteq Allocated /\ Doc \in Nodes
      /\ kind[Doc] = "document" /\ Doc \in private /\ object[Doc] = "document" /\ returned = {}
      /\ parent \in [Nodes -> Nodes \cup {NULL}] /\ refers \in [Nodes -> Nodes \cup {NULL}]
      /\ Placed /\ target # Doc
  BY <1>1, <1>2 DEF Inv, GraphTypeOK, AtRest, Placed, PlacedIn, Nodes
<1>5. Doc \notin Tree(parent, target)
  BY <1>2, <1>4, PlacedParent DEF Placed
<1>6. /\ Placed' /\ private' \subseteq Allocated' /\ refers' \in [Nodes -> Nodes \cup {NULL}]
      /\ \A n \in private' : n \in private /\ (n \in Tree(parent, target) \/ kind'[n] = kind[n])
      /\ \A n \in private \ private' : n \in Tree(parent, target) /\ kind'[n] # kind[n]
  <2>1. CASE UNCHANGED <<graph, private>>
    <3>1. kind' = kind /\ parent' = parent /\ refers' = refers /\ private' = private
      BY <2>1 DEF graph
    <3> QED BY <1>4, <3>1 DEF Placed, Allocated
  <2>2. CASE ~UNCHANGED <<graph, private>>
    <3>1. PICK x \in Subtree(target), stays \in BOOLEAN, E \in {{}} \cup {{e} : e \in Others} :
            kind[x] = "element" /\ Include(x, stays, E)
      BY <2>2 DEF Included
    <3>2. x \in Tree(parent, target) /\ x \in Nodes
      BY <1>2, <3>1, SubtreeIsTree, TreeClosed
    <3>3. Tree(parent, x) \subseteq Tree(parent, target)
      BY <1>2, <3>2, TreeOfMember
    <3>4. /\ Placed' /\ private' \subseteq Allocated' /\ refers' \in [Nodes -> Nodes \cup {NULL}]
          /\ \A n \in private' : n \in private /\ (n = x \/ kind'[n] = kind[n])
          /\ \A n \in private \ private' : n \in Tree(parent, x) /\ kind'[n] # kind[n]
      BY <1>4, <3>1, <3>2, IncludeOutcome
    <3> QED BY <3>2, <3>3, <3>4
  <2> QED BY <2>1, <2>2
<1>7. Doc \in private' /\ kind'[Doc] = "document" /\ kind'[Doc] # "free"
  BY <1>4, <1>5, <1>6
<1>8. GraphTypeOK'
  <2>1. kind' \in [Nodes -> Kinds] /\ parent' \in [Nodes -> Nodes \cup {NULL}]
    BY <1>6 DEF Placed, PlacedIn
  <2>2. before'.kind \in [Nodes -> Kinds] /\ before'.wrapped \subseteq Nodes \ {Doc}
    BY <1>1 DEF Inv, GraphTypeOK
  <2> QED BY <1>1, <1>4, <1>6, <2>1, <2>2 DEF Inv, GraphTypeOK, Methods
<1>9. AtRest'
  BY <1>1, <1>4, <1>7 DEF AtRest
<1>10. Nested'
  BY <1>1 DEF Nested, NestedIn
<1>11. private \subseteq Nodes /\ Wrapped = private \ {Doc}
  BY <1>2, <1>4 DEF Wrapped, Linked, Allocated
<1>12. Checking'
  <2>1. found[Doc] = NULL /\ NULL # Doc
    BY <1>2, <1>4, <1>5
  <2>2. \A m \in before.wrapped : before.kind[m] # "free"
    BY <1>2, <1>4, <1>11 DEF Allocated
  <2>3. \A m \in Nodes \ {Doc} : object[m] = IF m \in before.wrapped THEN before.kind[m] ELSE NULL
    BY <1>2, <1>11 DEF Linked
  <2>4. \A m \in Nodes : found[m] # NULL => m \in before.wrapped /\ found[m] = before.kind[m]
    BY <1>2, <1>5, <1>11
  <2>5. \A m \in private' \ {Doc} : m \in before.wrapped /\ (found[m] = NULL => kind'[m] = before.kind[m])
    BY <1>2, <1>3, <1>6, <1>11
  <2>6. \A m \in before.wrapped \ private' : found[m] # NULL /\ kind'[m] # before.kind[m]
    BY <1>2, <1>3, <1>6, <1>11
  <2> QED BY <1>1, <2>1, <2>2, <2>3, <2>4, <2>5, <2>6 DEF Checking
<1>13. call' \notin Methods \cup {"remove", "delete", "find", "none"}
  BY <1>1 DEF Methods
<1> QED BY <1>6, <1>8, <1>9, <1>10, <1>12, <1>13
        DEF Inv, GraphLinked, Removing, Finding, Evaluating

LEMMA WalkDocumentInv == ASSUME Inv, WalkDocument PROVE Inv'
<1>1. /\ call = "check" /\ target = Doc /\ stack = <<>> /\ Walk(Doc) /\ target' = NULL
      /\ kind' = kind /\ parent' = parent /\ refers' = refers /\ private' = private
      /\ object' = object /\ found' = found /\ call' = call /\ xpath' = xpath
      /\ returned' = returned /\ before' = before /\ Doc \in Nodes
  BY DEF WalkDocument, graph, objects, Walk, Nodes
<1>2. /\ stack' \in Seq(Frames) /\ stack' # <<>> /\ NestedIn(parent, stack')
      /\ Tree(parent, Doc) \subseteq PendingIn(kind, parent, stack')
  BY <1>1, WalkStack DEF Inv
<1>3. GraphTypeOK' /\ Placed' /\ AtRest'
  BY <1>1, <1>2 DEF Inv, GraphTypeOK, Allocated, Placed, AtRest, Frames
<1>4. Nested'
  BY <1>1, <1>2 DEF Nested, Walks
<1>5. \A n \in private' : n \in Pending'
  BY <1>1, <1>2 DEF Inv, GraphTypeOK, Allocated, Placed, PlacedIn, Pending
<1>6. NULL # Doc
  BY <1>1
<1>7. Checking'
  BY <1>1, <1>5, <1>6 DEF Inv, Checking
<1>8. call' \notin Methods \cup {"remove", "delete", "find", "none"}
  BY <1>1 DEF Methods
<1> QED BY <1>3, <1>4, <1>7, <1>8
        DEF Inv, GraphLinked, Removing, Finding, Evaluating

-----------------------------------------------------------------------------
(* XPath.                                                                  *)

\* What is known in the XPath methods.
LEMMA EvaluatingFacts ==
  ASSUME Inv, call \in Methods
  PROVE  /\ call \notin Walks \cup {"none"} /\ stack = <<>> /\ Linked /\ GraphTypeOK /\ Placed
         /\ before.kind = kind /\ before.wrapped = Wrapped /\ xpath.nodes \subseteq Selectable
         /\ Doc \in private /\ kind[Doc] = "document" /\ returned = {}
         /\ \A n \in Nodes : found[n] = NULL
<1>1. call \notin Walks \cup {"none"}
  BY DEF Walks, Methods
<1> QED BY <1>1 DEF Inv, Nested, Walks, Evaluating, AtRest, Placed, PlacedIn

\* The method returns.
LEMMA FreeResultInv ==
  ASSUME Inv, call \in Methods, NEW nodes \in SUBSET (Nodes \cup {Namespace}), FreeResult(nodes),
         private \subseteq private', private' \subseteq Allocated,
         object' \in [Nodes -> Kinds \cup {NULL}], Linked'
  PROVE  Inv'
<1>1. /\ xpath' = NoResult /\ returned' = nodes /\ call' = "none" /\ target' = NULL
      /\ kind' = kind /\ parent' = parent /\ refers' = refers /\ found' = found /\ stack' = stack
  BY DEF FreeResult, End, graph
<1>2. /\ stack = <<>> /\ GraphTypeOK /\ Placed /\ Doc \in private /\ kind[Doc] = "document"
      /\ \A n \in Nodes : found[n] = NULL
  BY EvaluatingFacts
<1>3. GraphTypeOK'
  BY <1>1, <1>2 DEF GraphTypeOK, Allocated, NoResult
<1>4. Placed'
  BY <1>1, <1>2 DEF Placed
<1> QED BY <1>1, <1>2, <1>3, <1>4, RestInv

LEMMA FreeResultSame ==
  ASSUME Inv, call \in Methods, FreeResult({}), UNCHANGED objects
  PROVE  Inv'
<1>1. private' = private /\ object' = object /\ kind' = kind
  BY DEF objects, FreeResult, graph
<1>2. Linked' /\ GraphTypeOK
  BY <1>1, EvaluatingFacts DEF Linked
<1> QED BY <1>1, <1>2, FreeResultInv DEF GraphTypeOK

LEMMA EvaluateInv == ASSUME Inv, Evaluate PROVE Inv'
<1>1. call \in Methods /\ UNCHANGED objects
  BY DEF Evaluate
<1>2. CASE FreeResult({})
  BY <1>1, <1>2, FreeResultSame
<1>3. CASE ~FreeResult({})
  <2>1. PICK type \in {"nodeset", "value", "unsupported"}, S \in SUBSET Selectable :
          xpath' = [held |-> {"object"}, type |-> type, nodes |-> S]
    BY <1>3 DEF Evaluate
  <2>2. /\ kind' = kind /\ parent' = parent /\ refers' = refers /\ found' = found /\ call' = call
        /\ target' = target /\ stack' = stack /\ returned' = returned /\ before' = before
        /\ private' = private /\ object' = object
    BY <1>1, <1>3 DEF Evaluate, graph, objects
  <2>3. xpath'.held \subseteq {"context", "object"} /\ xpath'.nodes \subseteq Selectable
    BY <2>1
  <2>4. GraphTypeOK' /\ Placed' /\ AtRest' /\ Nested'
    BY <1>1, <2>2, <2>3 DEF Inv, GraphTypeOK, Allocated, Placed, AtRest, Nested
  <2>5. Evaluating'
    BY <1>1, <2>2, <2>3, EvaluatingFacts DEF Evaluating, Linked, Wrapped, Selectable, Allocated
  <2>6. call' \notin Walks \cup {"none"}
    BY <1>1, <2>2, EvaluatingFacts
  <2> QED BY <2>4, <2>5, <2>6 DEF Inv, Walks, GraphLinked, Removing, Finding, Checking
<1> QED BY <1>2, <1>3

LEMMA ReturnNodesInv ==
  ASSUME Inv, ReturnNodes
  PROVE  /\ Inv' /\ private' = private \cup (xpath.nodes \ {Namespace}) /\ kind' = kind
         /\ returned' = xpath.nodes \ {Namespace}
<1> DEFINE S == xpath.nodes \ {Namespace}
<1>1. call \in Methods /\ CreateWrappers(S, kind) /\ FreeResult(S)
  BY DEF ReturnNodes, Methods
<1>2. /\ Linked /\ GraphTypeOK /\ xpath.nodes \subseteq Selectable /\ Doc \in private
      /\ kind[Doc] = "document"
  BY <1>1, EvaluatingFacts
<1>3. S \subseteq Allocated
  BY <1>2 DEF Selectable, GraphTypeOK
<1>4. /\ kind' = kind /\ returned' = S /\ private' = private \cup S
      /\ object' = [n \in Nodes |-> IF n \in S \ private THEN kind[n] ELSE object[n]]
  BY <1>1 DEF FreeResult, CreateWrappers, graph
<1>5. Linked'
  BY <1>1, <1>2, <1>3, <1>4, CreateLinked DEF GraphTypeOK, Allocated
<1>6. object' \in [Nodes -> Kinds \cup {NULL}]
  BY <1>2, <1>4 DEF GraphTypeOK
<1>7. S \in SUBSET (Nodes \cup {Namespace}) /\ private' \subseteq Allocated
  BY <1>2, <1>3, <1>4 DEF Allocated, GraphTypeOK
<1>8. Inv'
  BY <1>1, <1>4, <1>5, <1>6, <1>7, FreeResultInv
<1> QED BY <1>4, <1>8

LEMMA ReturnOtherInv == ASSUME Inv, ReturnNoNodes \/ ReturnConverted PROVE Inv'
  BY FreeResultSame DEF ReturnNoNodes, ReturnConverted, Methods

-----------------------------------------------------------------------------
(* The theorems.                                                           *)

LEMMA StutterInv == ASSUME Inv, UNCHANGED vars PROVE Inv'
<1>1. /\ kind' = kind /\ parent' = parent /\ refers' = refers /\ private' = private
      /\ object' = object /\ found' = found /\ call' = call /\ target' = target /\ stack' = stack
      /\ xpath' = xpath /\ returned' = returned /\ before' = before
  BY DEF vars, graph, objects
<1>2. Linked' = Linked /\ Wrapped' = Wrapped /\ Allocated' = Allocated /\ Selectable' = Selectable
      /\ Pending' = Pending
  BY <1>1 DEF Linked, Wrapped, Allocated, Selectable, Pending
<1> QED BY <1>1, <1>2
        DEF Inv, GraphTypeOK, Placed, GraphLinked, Nested, Removing, Finding, Checking, Evaluating, AtRest

LEMMA StepInv ==
  ASSUME OutsideDeclaration \notin Uses, Inv, [Next]_vars
  PROVE  Inv'
<1>1. CASE NewDocument
  BY <1>1, NewDocumentInv
<1>2. CASE Delete
  BY <1>2, DeleteInv
<1>3. CASE ProcessXInclude
  BY <1>3, ProcessXIncludeInv
<1>4. CASE \E n \in Nodes : GetNode(n) \/ RemoveNode(n)
  BY <1>4, GetNodeInv, RemoveNodeInv
<1>5. CASE SetEntityDeclaration
  BY <1>5, SetEntityDeclarationInv
<1>6. CASE ParseReplacementText
  BY <1>6, ParseReplacementTextInv
<1>7. CASE AddChildEntityReference
  BY <1>7, AddChildEntityReferenceInv
<1>8. CASE AddChild
  BY <1>8, AddChildInv
<1>9. CASE \E method \in Methods : NewXPathContext(method)
  BY <1>9, NewXPathContextInv
<1>10. CASE Continue
  BY <1>10, DescendInv, VisitNodeInv, ReturnFromNodeInv, NodeRemovedInv, DeletedInv, IncludedInv,
     WalkDocumentInv, DeleteRestInv, EvaluateInv, ReturnNodesInv, ReturnOtherInv DEF Continue
<1>11. CASE UNCHANGED vars
  BY <1>11, StutterInv
<1> QED BY <1>1, <1>2, <1>3, <1>4, <1>5, <1>6, <1>7, <1>8, <1>9, <1>10, <1>11 DEF Next

LEMMA InvHolds == ASSUME OutsideDeclaration \notin Uses PROVE Spec => []Inv
<1>1. Inv /\ [Next]_vars => Inv'
  BY StepInv
<1> QED BY InitInv, <1>1, PTL DEF Spec

\* Each recursive function is in no node twice and keeps the node's wrapper linked or takes it away,
\* so that between two calls _private leads to all wrappers there are and to nothing else.
THEOREM GraphInvHolds == ASSUME OutsideDeclaration \notin Uses PROVE Spec => []GraphInv
  BY InvHolds, InvImplies, PTL

\* Nothing is returned, or something in the middle of a call.
LEMMA ReturnedNothing ==
  ASSUME returned' = {} \/ call' # "none"
  PROVE  ReturnedUsable'
  BY DEF ReturnedUsable

LEMMA ReturnedStep ==
  ASSUME Uses = {}, Inv, ReturnedUsable, [Next]_vars
  PROVE  ReturnedUsable'
<1>1. CASE NewDocument
  <2>1. call = "none" /\ kind[Doc] = "free" /\ returned' = returned
    BY <1>1 DEF NewDocument
  <2>2. private = {}
    BY <2>1 DEF Inv, GraphTypeOK, Allocated, Placed, PlacedIn
  <2>3. returned' = {}
    BY <2>1, <2>2 DEF ReturnedUsable
  <2> QED BY <2>3, ReturnedNothing
<1>2. CASE ReturnNodes
  <2>1. Linked' /\ kind' = kind /\ returned' = xpath.nodes \ {Namespace}
        /\ private' = private \cup (xpath.nodes \ {Namespace})
    <3>1. Inv' /\ call' = "none"
      BY <1>2, ReturnNodesInv DEF ReturnNodes, FreeResult, End
    <3> QED BY <1>2, <3>1, ReturnNodesInv DEF Inv, GraphLinked
  <2>2. xpath.nodes \subseteq Selectable
    BY <1>2, EvaluatingFacts DEF ReturnNodes, Methods
  <2>3. \A n \in returned' : n \in private' /\ kind'[n] \in {"element", "attribute"}
    BY <2>1, <2>2 DEF Selectable
  <2> QED BY <2>1, <2>3 DEF ReturnedUsable, Linked
<1>3. CASE NodeRemoved \/ Deleted \/ DeleteRest
  <2>1. call # "none" /\ returned' = returned
    BY <1>3 DEF NodeRemoved, Deleted, DeleteRest
  <2> QED BY <2>1, ReturnedNothing DEF Inv, AtRest
<1>4. CASE Descend \/ VisitNode \/ ReturnFromNode
  <2>1. call # "none" /\ call' = call
    BY <1>4, StackFacts DEF Descend, VisitNode, ReturnFromNode
  <2> QED BY <2>1, ReturnedNothing
<1>5. CASE Included \/ WalkDocument
  <2>1. call' # "none"
    BY <1>5 DEF Included, WalkDocument
  <2> QED BY <2>1, ReturnedNothing
<1>6. CASE Evaluate \/ ReturnNoNodes \/ ReturnConverted
  <2>1. returned' = {} \/ (call' = call /\ call \in Methods)
    BY <1>6 DEF Evaluate, ReturnNoNodes, ReturnConverted, FreeResult
  <2> QED BY <2>1, ReturnedNothing, EvaluatingFacts
<1>7. CASE \/ Delete \/ ProcessXInclude \/ SetEntityDeclaration \/ ParseReplacementText
           \/ AddChildEntityReference \/ AddChild
           \/ \E n \in Nodes : GetNode(n) \/ RemoveNode(n)
           \/ \E method \in Methods : NewXPathContext(method)
  <2>1. returned' = {}
    BY <1>7 DEF Delete, ProcessXInclude, SetEntityDeclaration, ParseReplacementText,
       AddChildEntityReference, AddChild, GetNode, RemoveNode, NewXPathContext, Begin
  <2> QED BY <2>1, ReturnedNothing
<1>8. CASE UNCHANGED vars
  BY <1>8 DEF ReturnedUsable, vars, graph, objects
<1> QED BY <1>1, <1>2, <1>3, <1>4, <1>5, <1>6, <1>7, <1>8 DEF Next, Continue

\* What find() and its siblings return is usable, if nobody selects the document.
THEOREM ReturnedUsableHolds == ASSUME Uses = {} PROVE Spec => []ReturnedUsable
<1>1. Init => ReturnedUsable
  BY DEF Init, ReturnedUsable
<1>2. Inv /\ ReturnedUsable /\ [Next]_vars => ReturnedUsable'
  BY ReturnedStep
<1>3. Spec => []Inv
  BY InvHolds
<1> QED BY <1>1, <1>2, <1>3, PTL DEF Spec

-----------------------------------------------------------------------------
(* The refinement.                                                         *)

\* What the caller sees, which is in a call what there was before it.
SeenKind    == IF call = "none" THEN kind ELSE before.kind
SeenWrapped == IF call = "none" THEN Wrapped ELSE before.wrapped

LEMMA SeenBetween ==
  ASSUME Inv, call \in Methods \cup {"none"}
  PROVE  /\ SeenKind = kind /\ SeenWrapped = Wrapped /\ Linked
         /\ private \subseteq Allocated /\ Wrapped = private \ {Doc} /\ kind \in [Nodes -> Kinds]
<1>1. SeenKind = kind /\ SeenWrapped = Wrapped /\ Linked
  BY IdleInv, EvaluatingFacts DEF SeenKind, SeenWrapped
<1> QED BY <1>1 DEF Inv, GraphTypeOK, Wrapped, Linked

\* Steps that only add.
LEMMA Extends ==
  ASSUME Inv, Inv', call \in Methods \cup {"none"}, call' = "none",
         \A n \in Allocated : kind'[n] = kind[n], private \subseteq private'
  PROVE  Removal!Extend
<1>1. /\ SeenKind = kind /\ SeenWrapped = Wrapped /\ private \subseteq Allocated
      /\ Wrapped = private \ {Doc}
  BY SeenBetween
<1>2. Linked' /\ private' \subseteq Allocated' /\ kind' \in [Nodes -> Kinds]
  BY DEF Inv, GraphLinked, GraphTypeOK
<1>3. Wrapped' = private' \ {Doc} /\ Wrapped' \subseteq Nodes
  BY <1>2 DEF Wrapped, Linked
<1>4. SeenKind' = kind' /\ SeenWrapped' = Wrapped'
  BY DEF SeenKind, SeenWrapped
<1>5. /\ SeenKind' \in [Nodes -> Kinds] /\ SeenWrapped' \in SUBSET Nodes
      /\ \A n \in {n \in Nodes : SeenKind[n] # "free"} : SeenKind'[n] = SeenKind[n]
      /\ SeenWrapped \subseteq SeenWrapped' /\ \A n \in SeenWrapped' : SeenKind'[n] # "free"
  BY <1>1, <1>2, <1>3, <1>4 DEF Allocated
<1> QED BY <1>5 DEF Removal!Extend, Removal!Allocated, SeenKind, SeenWrapped

\* Calls that only add, all in one step.
LEMMA IdleExtends ==
  ASSUME Inv, Inv',
         \/ NewDocument \/ SetEntityDeclaration \/ ParseReplacementText
         \/ AddChildEntityReference \/ AddChild \/ \E n \in Nodes : GetNode(n)
  PROVE  Removal!Extend
<1>1. CASE NewDocument
  <2>1. Allocated = {} /\ private = {} /\ call = "none" /\ call' = "none"
    BY <1>1 DEF NewDocument, Inv, GraphTypeOK, Allocated, Placed, PlacedIn
  <2> QED BY <2>1, Extends
<1>2. CASE \E n \in Nodes : GetNode(n)
  <2>1. call = "none" /\ call' = "none" /\ kind' = kind /\ private \subseteq private'
    BY <1>2 DEF GetNode, Idle, graph, CreateWrappers
  <2> QED BY <2>1, Extends
<1>3. CASE SetEntityDeclaration \/ ParseReplacementText \/ AddChildEntityReference \/ AddChild
  <2>1. PICK n \in Others, t \in Kinds : kind[n] = "free" /\ kind' = [kind EXCEPT ![n] = t]
    BY <1>3 DEF SetEntityDeclaration, ParseReplacementText, AddChildEntityReference, AddChild,
       NewNode, Kinds
  <2>2. private \subseteq private'
    BY <1>3 DEF SetEntityDeclaration, ParseReplacementText, AddChildEntityReference, AddChild,
       objects, CreateWrappers
  <2>3. call = "none" /\ call' = "none" /\ \A m \in Allocated : kind'[m] = kind[m]
    <3>1. call = "none"
      BY <1>3 DEF SetEntityDeclaration, ParseReplacementText, AddChildEntityReference, AddChild, Idle
    <3>2. kind \in [Nodes -> Kinds]
      BY DEF Inv, GraphTypeOK
    <3>3. call' = call
      BY <1>3 DEF SetEntityDeclaration, ParseReplacementText, AddChildEntityReference, AddChild, NewNode
    <3> QED BY <2>1, <3>1, <3>2, <3>3 DEF Allocated
  <2> QED BY <2>2, <2>3, Extends
<1> QED BY <1>1, <1>2, <1>3

LEMMA ReturnExtends ==
  ASSUME Inv, Inv', ReturnNodes \/ ReturnNoNodes \/ ReturnConverted \/ (Evaluate /\ call' = "none")
  PROVE  Removal!Extend
<1>1. CASE ReturnNodes
  <2>1. call \in Methods /\ call' = "none"
    BY <1>1 DEF ReturnNodes, Methods, FreeResult, End
  <2> QED BY <1>1, <2>1, ReturnNodesInv, Extends
<1>2. CASE ReturnNoNodes \/ ReturnConverted \/ (Evaluate /\ call' = "none")
  <2>1. call \in Methods /\ private' = private /\ kind' = kind /\ call' = "none"
    <3>1. call \in Methods /\ private' = private /\ kind' = kind
      BY <1>2 DEF ReturnNoNodes, ReturnConverted, Evaluate, Methods, FreeResult, objects, graph
    <3>2. call' = "none"
      BY <1>2 DEF ReturnNoNodes, ReturnConverted, FreeResult, End
    <3> QED BY <3>1, <3>2
  <2> QED BY <2>1, Extends
<1> QED BY <1>1, <1>2

LEMMA NodeRemovedLoses == ASSUME Inv, NodeRemoved PROVE Removal!Lose
<1> DEFINE gone == Tree(parent, target)
<1>1. call = "remove" /\ stack = <<>> /\ call' = "none"
  BY DEF NodeRemoved, End
<1>2. /\ target \in Allocated /\ target # Doc /\ Linked /\ before.kind = kind
      /\ Wrapped \subseteq before.wrapped /\ before.wrapped \ Wrapped \subseteq gone
      /\ private \cap gone \subseteq Pending \cup {Doc}
  BY <1>1 DEF Inv, Removing
<1>3. Pending = {}
  BY <1>1, PendingEmpty DEF Pending
<1>4. \A n \in gone : n \in Nodes /\ kind[n] # "free"
  BY <1>2, PlacedBelow, TreeClosed DEF Inv, Placed, Allocated
<1>5. /\ private' = private /\ object' = object /\ kind' \in [Nodes -> Kinds]
      /\ \A n \in Nodes : kind'[n] = IF n \in gone THEN "free" ELSE kind[n]
  BY NodeRemovedInv
<1> HIDE DEF gone
<1>6. Wrapped' = Wrapped /\ Wrapped \subseteq private \ {Doc} /\ before.wrapped \subseteq Nodes
  BY <1>1, <1>2, <1>5 DEF Wrapped, Linked, Inv, GraphTypeOK
<1>7. Wrapped' = {n \in before.wrapped : kind'[n] = before.kind[n]}
  BY <1>2, <1>3, <1>4, <1>5, <1>6
<1> QED BY <1>1, <1>5, <1>7 DEF Removal!Lose, Removal!Kept

LEMMA DeletedLoses == ASSUME Inv, Deleted PROVE Removal!Lose
<1>1. call = "delete" /\ stack = <<>> /\ call' = "none"
  BY DEF Deleted, End
<1>2. /\ target = Doc /\ target \in Allocated /\ Linked /\ before.kind = kind
      /\ Wrapped \subseteq before.wrapped /\ before.wrapped \ Wrapped \subseteq Tree(parent, Doc)
  BY <1>1 DEF Inv, Removing
<1>3. \A n \in Tree(parent, Doc) : kind[n] # "free"
  BY <1>2, PlacedBelow DEF Inv, Placed, Allocated
<1>4. kind' \in [Nodes -> Kinds] /\ \A n \in Nodes : kind'[n] = "free" /\ object'[n] = NULL
  BY DeletedInv
<1>5. \A n \in Wrapped : kind[n] # "free"
  BY <1>2 DEF Wrapped, Linked, Inv, GraphTypeOK, Allocated
<1>6. before.wrapped \subseteq Nodes /\ Wrapped' = {}
  BY <1>1, <1>4 DEF Inv, GraphTypeOK, Wrapped
<1>7. Wrapped' = {n \in before.wrapped : kind'[n] = before.kind[n]}
  BY <1>2, <1>3, <1>4, <1>5, <1>6
<1> QED BY <1>1, <1>4, <1>7 DEF Removal!Lose, Removal!Kept

LEMMA DeleteRestLoses == ASSUME Inv, DeleteRest PROVE Removal!Lose
<1>1. call = "check" /\ call' = "none"
  BY DEF DeleteRest, End
<1>2. /\ kind' = kind
      /\ \A n \in Nodes \ {Doc} : object'[n] # NULL <=> n \in before.wrapped /\ kind[n] = before.kind[n]
  BY DeleteRestInv
<1>3. before.wrapped \subseteq Nodes \ {Doc} /\ kind \in [Nodes -> Kinds]
  BY <1>1 DEF Inv, GraphTypeOK
<1>4. Wrapped' = {n \in before.wrapped : kind'[n] = before.kind[n]}
  BY <1>2, <1>3 DEF Wrapped
<1> QED BY <1>1, <1>2, <1>3, <1>4 DEF Removal!Lose, Removal!Kept

\* In a call the caller sees nothing of it.
LEMMA SeenUnchanged ==
  ASSUME Inv, SeenKind' = SeenKind, SeenWrapped' = SeenWrapped
  PROVE  UNCHANGED Removal!vars
  BY DEF SeenKind, SeenWrapped, Removal!vars

LEMMA BeginStutters ==
  ASSUME Inv, NEW name \in Walks \cup Methods, NEW n, Begin(name, n)
  PROVE  UNCHANGED Removal!vars
<1>1. call = "none" /\ call' = name /\ before' = [kind |-> kind, wrapped |-> Wrapped]
  BY DEF Begin, Idle
<1>2. name # "none"
  BY DEF Walks, Methods
<1>3. SeenKind' = SeenKind /\ SeenWrapped' = SeenWrapped
  BY <1>1, <1>2 DEF SeenKind, SeenWrapped
<1> QED BY <1>3, SeenUnchanged

LEMMA ContinueStutters ==
  ASSUME Inv, call # "none", call' # "none", before' = before
  PROVE  UNCHANGED Removal!vars
<1>1. SeenKind' = SeenKind /\ SeenWrapped' = SeenWrapped
  BY DEF SeenKind, SeenWrapped
<1> QED BY <1>1, SeenUnchanged

LEMMA RemovalStep ==
  ASSUME OutsideDeclaration \notin Uses, Inv, [Next]_vars
  PROVE  [Removal!Next]_(Removal!vars)
<1>1. Inv'
  BY StepInv
<1>2. CASE \/ NewDocument \/ SetEntityDeclaration \/ ParseReplacementText
           \/ AddChildEntityReference \/ AddChild \/ \E n \in Nodes : GetNode(n)
  BY <1>1, <1>2, IdleExtends DEF Removal!Next
<1>3. CASE ReturnNodes \/ ReturnNoNodes \/ ReturnConverted \/ (Evaluate /\ call' = "none")
  BY <1>1, <1>3, ReturnExtends DEF Removal!Next
<1>4. CASE NodeRemoved \/ Deleted \/ DeleteRest
  BY <1>4, NodeRemovedLoses, DeletedLoses, DeleteRestLoses DEF Removal!Next
<1>5. CASE \/ Delete \/ ProcessXInclude \/ \E n \in Nodes : RemoveNode(n)
           \/ \E method \in Methods : NewXPathContext(method)
  <2>1. PICK name \in Walks \cup Methods, n \in Nodes \cup {NULL} : Begin(name, n)
    BY <1>5 DEF Delete, ProcessXInclude, RemoveNode, NewXPathContext, Walks, Nodes
  <2> QED BY <2>1, BeginStutters
<1>6. CASE Descend \/ VisitNode \/ ReturnFromNode
  <2>1. call # "none" /\ call' = call /\ before' = before
    BY <1>6, StackFacts DEF Descend, VisitNode, ReturnFromNode
  <2> QED BY <2>1, ContinueStutters
<1>7. CASE Included \/ WalkDocument
  <2>1. call # "none" /\ call' # "none" /\ before' = before
    BY <1>7 DEF Included, WalkDocument
  <2> QED BY <2>1, ContinueStutters
<1>8. CASE Evaluate /\ call' # "none"
  <2>1. call # "none" /\ before' = before
    BY <1>8, EvaluatingFacts DEF Evaluate, FreeResult, End
  <2> QED BY <1>8, <2>1, ContinueStutters
<1>9. CASE UNCHANGED vars
  <2>1. SeenKind' = SeenKind /\ SeenWrapped' = SeenWrapped
    BY <1>9 DEF vars, graph, objects, SeenKind, SeenWrapped, Wrapped
  <2> QED BY <2>1, SeenUnchanged
<1> QED BY <1>2, <1>3, <1>4, <1>5, <1>6, <1>7, <1>8, <1>9 DEF Next, Continue

\* Exactly those wrappers go whose nodes go, or are of another type after the call.
THEOREM ImplementsWrapperRemovalHolds ==
  ASSUME OutsideDeclaration \notin Uses
  PROVE  Spec => ImplementsWrapperRemoval
<1>1. Init => Removal!Init
  BY DEF Init, Removal!Init, Removal!Allocated, Wrapped, Kinds
<1>2. Inv /\ [Next]_vars => [Removal!Next]_(Removal!vars)
  BY RemovalStep
<1>3. Spec => []Inv
  BY InvHolds
<1> QED BY <1>1, <1>2, <1>3, PTL DEF Spec, ImplementsWrapperRemoval, Removal!Spec

-----------------------------------------------------------------------------
(* The walks end: each node is entered, visited and left once.             *)

\* The active calls of a stack, without their order.
FramesIn(s) == {s[i] : i \in DOMAIN s}

\* The nodes for which an active call will make another, and all that these calls will be in.
WaitingOf(k, par, f) ==
  f.todo \cup {m \in Nodes : f.phase = "children" /\ par[m] = f.node /\ k[m] = "attribute"}
AheadIn(k, par, F) == UNION {Tree(par, m) : m \in UNION {WaitingOf(k, par, f) : f \in F}}

\* What is left to be done in a walk.
WorkIn(k, par, F) ==
  (AheadIn(k, par, F) \X {"enter", "visit", "leave"})
    \cup {<<f.node, "visit">> : f \in {f \in F : f.phase = "children"}}
    \cup {<<f.node, "leave">> : f \in F}
Work == WorkIn(kind, parent, FramesIn(stack))

\* No active call is for a node that another is still to be made for, and attributes are for the
\* second loop.
OnceIn(k, par, F) ==
  /\ \A f \in F : f.node \notin AheadIn(k, par, F)
  /\ \A f \in F : \A m \in f.todo : f.phase = "children" => k[m] # "attribute"
Once == OnceIn(kind, parent, FramesIn(stack))

\* The frames of a stack that has a top.
LEMMA FramesOfStack ==
  ASSUME Inv, stack # <<>>
  PROVE  /\ FramesIn(stack) = FramesIn(Below) \cup {top}
         /\ \A f \in FramesIn(Below) : f.node # top.node /\ f \in Frames
         /\ \A f \in FramesIn(stack) : \A m \in WaitingOf(kind, parent, f) : m \in Nodes /\ parent[m] = f.node
<1>1. /\ stack \in Seq(Frames) /\ top \in Frames /\ NestedIn(parent, stack)
  BY StackFacts
<1>2. /\ DOMAIN stack = 1..Len(stack) /\ Len(stack) \in Nat \ {0}
      /\ DOMAIN Below = 1..(Len(stack) - 1)
      /\ \A i \in 1..(Len(stack) - 1) : Below[i] = stack[i]
  BY <1>1, PopSeq DEF Below
<1>2a. Len(stack) \in Nat \ {0}
  BY <1>2
<1>3. /\ \A i \in 1..Len(stack) : i = Len(stack) \/ i \in 1..(Len(stack) - 1)
      /\ \A i \in 1..(Len(stack) - 1) : i \in 1..Len(stack)
      /\ Len(stack) \in 1..Len(stack)
  BY <1>2a
<1>4. FramesIn(stack) = FramesIn(Below) \cup {top}
  <2>1. \A i \in DOMAIN stack : stack[i] \in FramesIn(Below) \cup {top}
    BY <1>2, <1>3 DEF FramesIn, top
  <2>2. \A i \in DOMAIN Below : Below[i] \in FramesIn(stack)
    BY <1>2, <1>3 DEF FramesIn
  <2>3. top \in FramesIn(stack)
    BY <1>2, <1>3 DEF FramesIn, top
  <2> QED BY <2>1, <2>2, <2>3 DEF FramesIn
<1>5. \A i \in 1..(Len(stack) - 1) : stack[i].node # top.node /\ stack[i] \in Frames
  BY <1>1, <1>2, NestedOnce DEF top
<1>6. \A f \in FramesIn(Below) : f.node # top.node /\ f \in Frames
  BY <1>2, <1>5 DEF FramesIn
<1>7. \A f \in FramesIn(stack) : f \in Frames /\ \A m \in f.todo : parent[m] = f.node
  BY <1>1 DEF FramesIn, NestedIn
<1> QED BY <1>4, <1>6, <1>7 DEF WaitingOf, Frames

\* A call is made.
LEMMA FramesPush ==
  ASSUME NEW s \in Seq(Frames), NEW f \in Frames
  PROVE  FramesIn(Append(s, f)) = FramesIn(s) \cup {f}
<1>1. DOMAIN s = 1..Len(s) /\ Len(s) \in Nat /\ DOMAIN Append(s, f) = 1..(Len(s) + 1)
      /\ Append(s, f)[Len(s) + 1] = f /\ \A i \in 1..Len(s) : Append(s, f)[i] = s[i]
  BY PushSeq
<1>2. \A i \in 1..(Len(s) + 1) : i = Len(s) + 1 \/ i \in 1..Len(s)
  BY <1>1
<1> QED BY <1>1, <1>2 DEF FramesIn

\* Fewer calls are left to be made.
LEMMA FewerAhead ==
  ASSUME NEW k, NEW par, NEW F, NEW G,
         \A g \in G : \A m \in WaitingOf(k, par, g) : m \in AheadIn(k, par, F) /\ m \in Nodes
  PROVE  AheadIn(k, par, G) \subseteq AheadIn(k, par, F)
<1> SUFFICES ASSUME NEW g \in G, NEW m \in WaitingOf(k, par, g)
             PROVE  Tree(par, m) \subseteq AheadIn(k, par, F)
  BY DEF AheadIn
<1>1. PICK f \in F : \E c \in WaitingOf(k, par, f) : m \in Tree(par, c)
  BY DEF AheadIn
<1>2. PICK c \in WaitingOf(k, par, f) : m \in Tree(par, c)
  BY <1>1
<1>3. Tree(par, c) \subseteq AheadIn(k, par, F)
  BY DEF AheadIn
<1>4. Tree(par, m) \subseteq Tree(par, c)
  <2>1. ASSUME NEW S \in SUBSET Nodes, c \in S, ClosedIn(par, S)
        PROVE  m \in S
    BY <1>2, <2>1 DEF Tree
  <2> QED BY <2>1 DEF Tree
<1> QED BY <1>3, <1>4

\* What waits is ahead.
LEMMA WaitingAhead ==
  ASSUME NEW k, NEW par, NEW F, NEW f \in F, NEW m \in WaitingOf(k, par, f), m \in Nodes
  PROVE  m \in AheadIn(k, par, F) /\ Tree(par, m) \subseteq AheadIn(k, par, F)
<1>1. Tree(par, m) \subseteq AheadIn(k, par, F)
  BY DEF AheadIn
<1> QED BY <1>1, TreeClosed

\* The document and what is in it are finitely many nodes.
LEMMA NodesFinite == ASSUME IsFiniteSet(Others) PROVE IsFiniteSet(Nodes)
<1>1. Nodes = {Doc} \cup ({Dtd} \cup ({Root} \cup Others))
  BY DEF Nodes
<1>2. IsFiniteSet({Root} \cup Others)
  BY FS_Singleton, FS_Union
<1>3. IsFiniteSet({Dtd} \cup ({Root} \cup Others))
  BY <1>2, FS_Singleton, FS_Union
<1> QED BY <1>1, <1>3, FS_Singleton, FS_Union

\* There are never more active calls than nodes.
LEMMA NoOverflow ==
  ASSUME IsFiniteSet(Others), Inv
  PROVE  ~StackOverflow
<1> DEFINE S == 1..Len(stack)
           f == [i \in S |-> stack[i].node]
<1>1. stack \in Seq(Frames) /\ DOMAIN stack = S /\ Len(stack) \in Nat
  BY DEF Inv, GraphTypeOK, Frames
<1>2. \A i \in S : f[i] \in Nodes
  <2>1. \A i \in DOMAIN stack : stack[i] \in Frames
    BY <1>1
  <2> QED BY <1>1, <2>1 DEF Frames
<1>3. \A i, j \in S : f[i] = f[j] => i = j
  BY <1>1, NestedOnce DEF Inv, Nested
<1>4. f \in Injection(S, Nodes)
  BY <1>2, <1>3 DEF Injection, IsInjective
<1>5. IsFiniteSet(Nodes)
  BY NodesFinite
<1>6. Cardinality(S) <= Cardinality(Nodes) /\ Cardinality(S) = Len(stack)
  <2>1. Cardinality(S) <= Cardinality(Nodes)
    BY <1>4, <1>5, FS_Injection
  <2>2. Cardinality(S) = Len(stack)
    BY <1>1, FS_Interval
  <2> QED BY <2>1, <2>2
<1>7. Cardinality(Nodes) \in Nat
  BY <1>5, FS_CardinalityType
<1> QED BY <1>1, <1>6, <1>7 DEF StackOverflow

\* Whatever has all that is ahead, and what each active call has left, has all the work there is.
LEMMA WorkLess ==
  ASSUME NEW k, NEW par, NEW F, NEW W,
         \A m \in AheadIn(k, par, F) : \A w \in {"enter", "visit", "leave"} : <<m, w>> \in W,
         \A f \in F : (f.phase = "children" => <<f.node, "visit">> \in W) /\ <<f.node, "leave">> \in W
  PROVE  WorkIn(k, par, F) \subseteq W
<1> DEFINE A == AheadIn(k, par, F)
           T == {"enter", "visit", "leave"}
<1>0. \A m \in A, x \in T : <<m, x>> \in W
  OBVIOUS
<1>1. \A w \in A \X T : w \in W
  <2> HIDE DEF A, T
  <2>1. \A w \in A \X T : \E m \in A, x \in T : w = <<m, x>>
    OBVIOUS
  <2> QED BY <1>0, <2>1
<1> QED BY <1>1 DEF WorkIn

\* A step of one of the recursive functions.
WalkStep == Descend \/ VisitNode \/ ReturnFromNode

\* A step that does not put a node into what is ahead and takes work away.
Progress == Once' /\ Work' \subseteq Work /\ Work' # Work

\* The call at the top makes another one, and so enters a node.
LEMMA DescendProgress ==
  ASSUME IsFiniteSet(Others), Inv, Once, Descend
  PROVE  Progress
<1> DEFINE n == First(top.todo)
           f == [top EXCEPT !.todo = @ \ {n}]
           e == Frame(n)
           F == FramesIn(stack)
           B == FramesIn(Below)
           G == B \cup {f, e}
<1>1. stack # <<>> /\ top.todo # {} /\ kind' = kind /\ parent' = parent
      /\ stack' = Append(Append(Below, f), e)
  BY NoOverflow DEF Descend, graph
<1>2. n \in top.todo
  BY <1>1 DEF First
<1>3. /\ F = B \cup {top} /\ \A g \in B : g.node # top.node /\ g \in Frames
      /\ \A g \in F : \A m \in WaitingOf(kind, parent, g) : m \in Nodes /\ parent[m] = g.node
  BY <1>1, FramesOfStack
<1>4. Below \in Seq(Frames) /\ top \in Frames
  BY <1>1, StackFacts
<1>5. n \in Nodes /\ parent[n] = top.node
  BY <1>2, <1>3 DEF WaitingOf
<1> HIDE DEF n
<1>6. /\ f \in Frames /\ f.node = top.node /\ f.phase = top.phase /\ f.todo = top.todo \ {n}
      /\ e \in Frames /\ e.node = n /\ e.phase = "children" /\ e.todo = ChildrenOf(n)
  BY <1>4, <1>5, FrameOf DEF Inv, Frames, Frame
<1> HIDE DEF f, e
<1>7. FramesIn(stack') = G
  <2>1. Append(Below, f) \in Seq(Frames) /\ FramesIn(Append(Below, f)) = B \cup {f}
    BY <1>4, <1>6, FramesPush
  <2>2. FramesIn(Append(Append(Below, f), e)) = (B \cup {f}) \cup {e}
    BY <1>6, <2>1, FramesPush
  <2> QED BY <1>1, <2>2
<1> DEFINE A == AheadIn(kind, parent, F)
           C == AheadIn(kind, parent, G)
<1>8. Placed /\ parent[n] \notin Tree(parent, n) /\ parent[n] \in Nodes
  BY <1>4, <1>5 DEF Inv, Placed, PlacedIn, Frames
<1>9. n \in A /\ Tree(parent, n) \subseteq A
  BY <1>2, <1>3, <1>5, WaitingAhead DEF WaitingOf
<1>10. \A m \in WaitingOf(kind, parent, e) : m \in Nodes /\ parent[m] = n
  BY <1>6 DEF WaitingOf, ChildrenOf, Allocated
<1>11. WaitingOf(kind, parent, f) \subseteq WaitingOf(kind, parent, top) /\ n \notin WaitingOf(kind, parent, f)
  BY <1>1, <1>2, <1>3, <1>6 DEF WaitingOf, Once, OnceIn
<1> HIDE DEF F, B
<1>12. C \subseteq A
  <2>1. ASSUME NEW g \in G, NEW m \in WaitingOf(kind, parent, g)
        PROVE  m \in A /\ m \in Nodes
    <3>1. CASE g = e
      BY <1>5, <1>9, <1>10, <2>1, <3>1, TreeClosed DEF ClosedIn
    <3>2. CASE g = f
      BY <1>3, <1>11, <2>1, <3>2, WaitingAhead
    <3>3. CASE g \in B
      BY <1>3, <2>1, <3>3, WaitingAhead
    <3> QED BY <3>1, <3>2, <3>3
  <2> QED BY <2>1, FewerAhead
<1>13. n \notin C
  <2> SUFFICES ASSUME NEW g \in G, NEW m \in WaitingOf(kind, parent, g), n \in Tree(parent, m)
               PROVE  FALSE
    BY DEF AheadIn
  <2>1. CASE g = e
    <3>1. m \in Nodes /\ parent[m] = n
      BY <1>10, <2>1
    <3> QED BY <1>5, <1>8, <3>1 DEF Placed, PlacedIn
  <2>2. CASE g = f
    <3>1. m \in Nodes /\ parent[m] = top.node /\ m # n
      BY <1>3, <1>11, <2>2
    <3>2. top.node \in Tree(parent, m)
      BY <1>5, <3>1, TreeParent
    <3> QED BY <1>5, <1>8, <3>1, <3>2 DEF Placed, PlacedIn
  <2>3. CASE g \in B
    <3>1. m \in Nodes /\ parent[m] = g.node /\ g.node # top.node /\ g \in F
      BY <1>3, <2>3
    <3>2. top.node \in Tree(parent, m)
      BY <1>5, <3>1, TreeParent
    <3>3. top.node \in A
      BY <3>1, <3>2, WaitingAhead
    <3> QED BY <1>3, <3>3 DEF Once, OnceIn, F
  <2> QED BY <2>1, <2>2, <2>3
<1> HIDE DEF A, C, G
<1>14. \A g \in G : g.node \notin C
  BY <1>3, <1>6, <1>12, <1>13 DEF Once, OnceIn, A, F, G
<1>15. \A g \in G : \A m \in g.todo : g.phase = "children" => kind[m] # "attribute"
  BY <1>3, <1>6 DEF Once, OnceIn, F, G, ChildrenOf
<1>16. Once'
  BY <1>1, <1>7, <1>14, <1>15 DEF Once, OnceIn, C
<1>17. WorkIn(kind, parent, G) \subseteq WorkIn(kind, parent, F)
  <2>1. \A g \in G : g.phase = "children" => <<g.node, "visit">> \in WorkIn(kind, parent, F)
    BY <1>3, <1>6, <1>9 DEF WorkIn, A, G
  <2>2. \A g \in G : <<g.node, "leave">> \in WorkIn(kind, parent, F)
    BY <1>3, <1>6, <1>9 DEF WorkIn, A, G
  <2>3. \A m \in C : \A w \in {"enter", "visit", "leave"} : <<m, w>> \in WorkIn(kind, parent, F)
    BY <1>12 DEF WorkIn, A
  <2> QED BY <2>1, <2>2, <2>3, WorkLess DEF C
<1>18. <<n, "enter">> \in WorkIn(kind, parent, F) /\ <<n, "enter">> \notin WorkIn(kind, parent, G)
  BY <1>9, <1>13 DEF WorkIn, A, C
<1>19. Work = WorkIn(kind, parent, F) /\ Work' = WorkIn(kind, parent, G)
  BY <1>1, <1>7 DEF Work, F
<1> QED BY <1>16, <1>17, <1>18, <1>19 DEF Progress

\* The call at the top goes on with its second loop, or returns.
LEMMA TopProgress ==
  ASSUME Inv, Once, VisitNode \/ ReturnFromNode
  PROVE  Progress
<1> DEFINE n == top.node
           f == [top EXCEPT !.phase = "attributes", !.todo = AttributesOf(n)]
           F == FramesIn(stack)
           B == FramesIn(Below)
           G == FramesIn(stack')
           done == IF VisitNode THEN "visit" ELSE "leave"
<1>1. stack # <<>> /\ top.todo = {} /\ kind' = kind /\ parent' = parent
  BY DEF VisitNode, ReturnFromNode, graph
<1>2. /\ F = B \cup {top} /\ \A g \in B : g.node # n /\ g \in Frames
      /\ \A g \in F : \A m \in WaitingOf(kind, parent, g) : m \in Nodes /\ parent[m] = g.node
  BY <1>1, FramesOfStack
<1>3. Below \in Seq(Frames) /\ top \in Frames /\ n \in Nodes
  BY <1>1, StackFacts DEF Frames
<1>4. f \in Frames /\ f.node = n /\ f.phase = "attributes" /\ f.todo = AttributesOf(n)
  BY <1>3 DEF Frames, AttributesOf
<1> HIDE DEF f
<1>5. VisitNode => top.phase = "children" /\ stack' \in {Below, Append(Below, f)}
  BY DEF VisitNode, f
<1>6. ~VisitNode => stack' = Below
  BY DEF ReturnFromNode
<1>7. G = B \/ (VisitNode /\ G = B \cup {f})
  <2>1. FramesIn(Append(Below, f)) = B \cup {f}
    BY <1>3, <1>4, FramesPush
  <2> QED BY <1>5, <1>6, <2>1
<1> HIDE DEF F, B, G, n
<1>8. VisitNode => WaitingOf(kind, parent, f) \subseteq WaitingOf(kind, parent, top)
  BY <1>4, <1>5 DEF WaitingOf, AttributesOf, n
<1> DEFINE A == AheadIn(kind, parent, F)
           C == AheadIn(kind, parent, G)
<1>9. C \subseteq A
  <2>1. ASSUME NEW g \in G, NEW m \in WaitingOf(kind, parent, g)
        PROVE  m \in A /\ m \in Nodes
    <3>1. CASE g = f /\ VisitNode
      BY <1>2, <1>8, <2>1, <3>1, WaitingAhead
    <3>2. CASE g \in B
      BY <1>2, <2>1, <3>2, WaitingAhead
    <3> QED BY <1>7, <3>1, <3>2
  <2> QED BY <2>1, FewerAhead
<1> HIDE DEF A, C
<1>10. \A g \in F : g.node \notin A
  BY DEF Once, OnceIn, A, F
<1>11. \A g \in G : g.node \notin C
  BY <1>2, <1>4, <1>7, <1>9, <1>10 DEF n
<1>12. \A g \in G : \A m \in g.todo : g.phase = "children" => kind[m] # "attribute"
  BY <1>2, <1>4, <1>7 DEF Once, OnceIn, F
<1>13. Once'
  BY <1>1, <1>11, <1>12 DEF Once, OnceIn, C, G
<1>14. Work = WorkIn(kind, parent, F) /\ Work' = WorkIn(kind, parent, G)
  BY <1>1 DEF Work, F, G
<1>15. Work' \subseteq Work
  <2>1. \A g \in F : (g.phase = "children" => <<g.node, "visit">> \in Work) /\ <<g.node, "leave">> \in Work
    BY <1>14 DEF WorkIn
  <2>2. \A g \in G : (g.phase = "children" => <<g.node, "visit">> \in Work) /\ <<g.node, "leave">> \in Work
    BY <1>2, <1>4, <1>7, <2>1 DEF n
  <2>3. \A m \in C : \A w \in {"enter", "visit", "leave"} : <<m, w>> \in Work
    BY <1>9, <1>14 DEF WorkIn, A
  <2> QED BY <1>14, <2>2, <2>3, WorkLess DEF C
<1>16. <<n, done>> \in Work
  BY <1>2, <1>5, <1>14 DEF WorkIn, n
<1>17. <<n, done>> \notin Work'
  <2>1. n \notin C
    BY <1>2, <1>9, <1>10 DEF n
  <2>2. \A g \in G : g.node = n => VisitNode /\ g.phase = "attributes"
    BY <1>2, <1>4, <1>7
  <2>3. <<n, done>> \notin C \X {"enter", "visit", "leave"}
    BY <2>1
  <2>4. \A g \in G : g.phase = "children" => <<g.node, "visit">> # <<n, done>>
    BY <2>2
  <2>5. \A g \in G : <<g.node, "leave">> # <<n, done>>
    BY <2>2
  <2> QED BY <1>14, <2>3, <2>4, <2>5 DEF WorkIn, C
<1> QED BY <1>13, <1>15, <1>16, <1>17 DEF Progress

\* Outside the walks there are no active calls, and one when a walk begins.
LEMMA OtherSteps ==
  ASSUME Inv, [Next]_vars, ~WalkStep
  PROVE  \/ stack' = <<>> \/ UNCHANGED vars
         \/ \E n \in Nodes : Walk(n) /\ kind' = kind /\ parent' = parent
<1>1. CASE call = "none" /\ stack' = stack
  BY <1>1, IdleInv
<1>2. CASE NewDocument \/ SetEntityDeclaration \/ ParseReplacementText \/ AddChildEntityReference
           \/ AddChild \/ (\E n \in Nodes : GetNode(n)) \/ \E m \in Methods : NewXPathContext(m)
  <2>1. call = "none" /\ stack' = stack
    BY <1>2 DEF NewDocument, SetEntityDeclaration, ParseReplacementText, AddChildEntityReference,
       AddChild, GetNode, NewXPathContext, Begin, Idle, NewNode
  <2> QED BY <1>1, <2>1
<1>3. CASE Delete \/ ProcessXInclude \/ \E n \in Nodes : RemoveNode(n)
  <2>1. \E n \in Nodes : Walk(n) /\ UNCHANGED graph
    BY <1>3 DEF Delete, ProcessXInclude, RemoveNode, Begin, Nodes
  <2> QED BY <2>1 DEF graph
<1>4. CASE WalkDocument
  <2>1. Walk(Doc) /\ UNCHANGED graph /\ Doc \in Nodes
    BY <1>4 DEF WalkDocument, Nodes
  <2> QED BY <2>1 DEF graph
<1>5. CASE NodeRemoved \/ Deleted \/ Included \/ DeleteRest
  BY <1>5 DEF NodeRemoved, Deleted, Included, DeleteRest
<1>6. CASE Evaluate \/ ReturnNodes \/ ReturnNoNodes \/ ReturnConverted
  <2>1. call \in Methods /\ stack' = stack
    BY <1>6 DEF Evaluate, ReturnNodes, ReturnNoNodes, ReturnConverted, FreeResult, Methods
  <2> QED BY <2>1, EvaluatingFacts
<1> QED BY <1>2, <1>3, <1>4, <1>5, <1>6 DEF Next, Continue, WalkStep

\* Every action keeps Once: a walk begins above all that is ahead of it, and no other action goes on
\* with it.
LEMMA OnceKept ==
  ASSUME IsFiniteSet(Others), Inv, Once, [Next]_vars
  PROVE  Once'
<1>1. CASE WalkStep
  BY <1>1, DescendProgress, TopProgress DEF WalkStep, Progress
<1>2. CASE stack' = <<>>
  BY <1>2 DEF Once, OnceIn, FramesIn
<1>3. CASE \E n \in Nodes : Walk(n) /\ kind' = kind /\ parent' = parent
  <2>1. PICK n \in Nodes : Walk(n) /\ kind' = kind /\ parent' = parent
    BY <1>3
  <2>2. /\ FramesIn(stack') = {Frame(n)} /\ Frame(n).node = n /\ Frame(n).todo = ChildrenOf(n)
    BY <2>1 DEF Walk, FramesIn, Frame
  <2>3. \A m \in WaitingOf(kind, parent, Frame(n)) : m \in Nodes /\ parent[m] = n
    BY <2>2 DEF WaitingOf, ChildrenOf, Allocated
  <2>4. n \notin AheadIn(kind, parent, {Frame(n)})
    <3> SUFFICES ASSUME NEW m \in WaitingOf(kind, parent, Frame(n)), n \in Tree(parent, m)
                 PROVE  FALSE
      BY DEF AheadIn
    <3>1. m \in Nodes /\ parent[m] = n /\ parent[m] # NULL
      BY <2>1, <2>3
    <3> QED BY <3>1 DEF Inv, Placed, PlacedIn
  <2>5. \A m \in ChildrenOf(n) : kind[m] # "attribute"
    BY DEF ChildrenOf
  <2> DEFINE G == FramesIn(stack')
  <2>6. OnceIn(kind, parent, G)
    BY <2>2, <2>4, <2>5 DEF OnceIn
  <2> QED BY <2>1, <2>6 DEF Once
<1>4. CASE UNCHANGED vars
  BY <1>4 DEF Once, vars, graph
<1> QED BY <1>1, <1>2, <1>3, <1>4, OtherSteps

\* No walk comes to a node again.
LEMMA OnceHolds ==
  ASSUME OutsideDeclaration \notin Uses, IsFiniteSet(Others)
  PROVE  Spec => [](Inv /\ Once)
<1>1. Init => Once
  BY DEF Init, Once, OnceIn, FramesIn
<1>2. Inv /\ Once /\ [Next]_vars => Once'
  BY OnceKept
<1> QED BY <1>1, <1>2, InvHolds, PTL DEF Spec

\* There is only so much work in a walk: three steps for each node.
LEMMA WorkFinite ==
  ASSUME IsFiniteSet(Others), Inv
  PROVE  IsFiniteSet(Work) /\ Work \subseteq Nodes \X {"enter", "visit", "leave"}
<1> DEFINE T == {"enter", "visit", "leave"}
           F == FramesIn(stack)
<1>1. \A f \in F : f.node \in Nodes
  <2>1. stack \in Seq(Frames)
    BY DEF Inv, GraphTypeOK, Frames
  <2>2. \A i \in DOMAIN stack : stack[i] \in Frames
    BY <2>1
  <2> QED BY <2>2 DEF FramesIn, Frames
<1>2. AheadIn(kind, parent, F) \subseteq Nodes
  BY DEF AheadIn, Tree
<1>3. Work \subseteq Nodes \X T
  <2>1. \A m \in AheadIn(kind, parent, F) : \A w \in T : <<m, w>> \in Nodes \X T
    BY <1>2
  <2>2. \A f \in F : <<f.node, "visit">> \in Nodes \X T /\ <<f.node, "leave">> \in Nodes \X T
    BY <1>1
  <2> QED BY <2>1, <2>2, WorkLess DEF Work
<1>4. IsFiniteSet(Nodes) /\ IsFiniteSet(T)
  <2>1. IsFiniteSet(T)
    <3>1. T = {"enter"} \cup ({"visit"} \cup {"leave"})
      OBVIOUS
    <3>2. IsFiniteSet({"enter"}) /\ IsFiniteSet({"visit"}) /\ IsFiniteSet({"leave"})
      BY FS_Singleton
    <3>3. IsFiniteSet({"visit"} \cup {"leave"})
      BY <3>2, FS_Union
    <3>4. IsFiniteSet({"enter"} \cup ({"visit"} \cup {"leave"}))
      BY <3>2, <3>3, FS_Union
    <3> QED BY <3>1, <3>4
  <2> QED BY <2>1, NodesFinite
<1>5. IsFiniteSet(Nodes \X T)
  BY <1>4, FS_Product
<1> QED BY <1>3, <1>5, FS_Subset

\* A walk always ends, and its recursion is never deeper than there are nodes, whatever cycle entities
\* refer to each other in: each step of the recursion does one of the finitely many things that are
\* left to do, and adds none (Node::free_wrappers(), find_wrappers(), remove_found_wrappers()).
THEOREM WalksEnd ==
  ASSUME OutsideDeclaration \notin Uses, IsFiniteSet(Others)
  PROVE  /\ Spec => []~StackOverflow
         /\ Spec => []IsFiniteSet(Work)
         /\ Spec => [][WalkStep => Work' \subseteq Work /\ Work' # Work]_vars
<1>1. Spec => [](Inv /\ Once)
  BY OnceHolds
<1>2. Inv => ~StackOverflow /\ IsFiniteSet(Work)
  BY NoOverflow, WorkFinite
<1>3. Inv /\ Once /\ [Next]_vars => [WalkStep => Work' \subseteq Work /\ Work' # Work]_vars
  BY DescendProgress, TopProgress DEF WalkStep, Progress
<1> QED BY <1>1, <1>2, <1>3, PTL DEF Spec
=============================================================================
