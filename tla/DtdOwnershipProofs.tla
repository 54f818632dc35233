-------------------------- MODULE DtdOwnershipProofs --------------------------
(* Proofs about DtdOwnership, for every set of addresses and any streams,  *)
(* as long as the caller makes none of the Uses.                           *)
EXTENDS DtdOwnership, TLAPS

USE DtdNamesAssumption

-----------------------------------------------------------------------------
(* Heaps in order.                                                         *)

\* What DtdInv says of the heap alone.
InOrder(h) ==
  /\ h \in Heap
  /\ \A o \in h.live : h.dtd[o] # NULL => h.private[h.dtd[o]] = o
  /\ \A x \in Dtds : h.private[x] \in Objects => h.private[x] \in h.live /\ h.dtd[h.private[x]] = x
  /\ \A o \in Objects \ h.live : h.dtd[o] = NULL
  /\ \A o \in Objects : h.isOwner[o] => h.dtd[o] # NULL

\* A Dtd owns x.
Owned(h, x) == h.private[x] \in Objects /\ h.isOwner[h.private[x]]

\* What it says of types.
LEMMA InOrderTypes ==
  ASSUME NEW h, InOrder(h)
  PROVE  /\ h.live \subseteq Objects
         /\ \A x \in Dtds : h.private[x] \in Objects \cup {NULL, "free"}
         /\ \A o \in Objects : h.dtd[o] \in Dtds \cup {NULL} /\ h.isOwner[o] \in BOOLEAN
  BY DEF InOrder, Heap

\* g is h, apart from object o, which now has x, and the xmlDtd it had.
LEMMA ConstructInOrder ==
  ASSUME NEW h, InOrder(h), NEW o \in Objects \ h.live, NEW x \in Dtds \cup {NULL},
         x # NULL => h.private[x] \in {NULL, "free"}
  PROVE  LET g == Construct(h, o, x) IN
         /\ InOrder(g) /\ g.live = h.live \cup {o} /\ g.dtd[o] = x /\ ~g.isOwner[o]
         /\ \A p \in Objects \ {o} : g.dtd[p] = h.dtd[p] /\ g.isOwner[p] = h.isOwner[p]
         /\ \A y \in Dtds : g.private[y] = IF y = x THEN o ELSE h.private[y]
<1> DEFINE g == Construct(h, o, x)
<1>1. /\ g.live = h.live \cup {o} /\ g.dtd[o] = x /\ ~g.isOwner[o]
      /\ \A p \in Objects \ {o} : g.dtd[p] = h.dtd[p] /\ g.isOwner[p] = h.isOwner[p]
      /\ \A y \in Dtds : g.private[y] = IF y = x THEN o ELSE h.private[y]
  BY DEF Construct, InOrder, Heap
<1>2. g \in Heap
  BY DEF Construct, InOrder, Heap
<1> HIDE DEF g
<1>3. InOrder(g)
  BY <1>1, <1>2 DEF InOrder, Heap
<1> QED BY <1>1, <1>3 DEF g

LEMMA ReleaseInOrder ==
  ASSUME NEW h, InOrder(h), NEW o \in h.live
  PROVE  LET g == ReleaseUnderlying(h, o) IN
         /\ InOrder(g) /\ g.live = h.live /\ g.dtd[o] = NULL /\ ~g.isOwner[o]
         /\ \A p \in Objects \ {o} : g.dtd[p] = h.dtd[p] /\ g.isOwner[p] = h.isOwner[p]
         /\ \A y \in Dtds : g.private[y] = IF y # h.dtd[o] THEN h.private[y]
                                           ELSE IF h.isOwner[o] THEN "free" ELSE NULL
<1> DEFINE g == ReleaseUnderlying(h, o)
<1>1. /\ g.live = h.live /\ g.dtd[o] = NULL /\ ~g.isOwner[o]
      /\ \A p \in Objects \ {o} : g.dtd[p] = h.dtd[p] /\ g.isOwner[p] = h.isOwner[p]
      /\ \A y \in Dtds : g.private[y] = IF y # h.dtd[o] THEN h.private[y]
                                        ELSE IF h.isOwner[o] THEN "free" ELSE NULL
  <2>1. CASE h.dtd[o] = NULL
    BY <2>1 DEF ReleaseUnderlying, InOrder, Heap
  <2>2. CASE h.dtd[o] # NULL
    BY <2>2 DEF ReleaseUnderlying, InOrder, Heap
  <2> QED BY <2>1, <2>2
<1>2. g \in Heap
  BY DEF ReleaseUnderlying, InOrder, Heap
<1> HIDE DEF g
<1>3. InOrder(g)
  BY <1>1, <1>2 DEF InOrder, Heap
<1> QED BY <1>1, <1>3 DEF g

LEMMA DeleteInOrder ==
  ASSUME NEW h, InOrder(h), NEW o \in h.live
  PROVE  LET g == Delete(h, o) IN
         /\ InOrder(g) /\ g.live = h.live \ {o} /\ g.dtd[o] = NULL /\ ~g.isOwner[o]
         /\ \A p \in Objects \ {o} : g.dtd[p] = h.dtd[p] /\ g.isOwner[p] = h.isOwner[p]
         /\ \A y \in Dtds : g.private[y] = IF y # h.dtd[o] THEN h.private[y]
                                           ELSE IF h.isOwner[o] THEN "free" ELSE NULL
<1> DEFINE r == ReleaseUnderlying(h, o)
           g == Delete(h, o)
<1>1. /\ InOrder(r) /\ r.live = h.live /\ r.dtd[o] = NULL /\ ~r.isOwner[o]
      /\ \A p \in Objects \ {o} : r.dtd[p] = h.dtd[p] /\ r.isOwner[p] = h.isOwner[p]
      /\ \A y \in Dtds : r.private[y] = IF y # h.dtd[o] THEN h.private[y]
                                        ELSE IF h.isOwner[o] THEN "free" ELSE NULL
  BY ReleaseInOrder
<1>2. g = [r EXCEPT !.live = @ \ {o}]
  BY DEF Delete
<1> HIDE DEF r, g
<1>3. /\ g.live = h.live \ {o} /\ g.dtd = r.dtd /\ g.isOwner = r.isOwner /\ g.private = r.private
      /\ g \in Heap
  BY <1>1, <1>2 DEF InOrder, Heap
<1>4. InOrder(g)
  BY <1>1, <1>3 DEF InOrder, Heap
<1> QED BY <1>1, <1>3, <1>4 DEF g

LEMMA AssignInOrder ==
  ASSUME NEW h, InOrder(h), NEW o \in h.live, h.dtd[o] = NULL, NEW x \in Dtds, h.private[x] = "free"
  PROVE  LET g == Assign(h, o, x) IN
         /\ InOrder(g) /\ g.live = h.live /\ g.dtd[o] = x /\ g.isOwner[o]
         /\ \A p \in Objects \ {o} : g.dtd[p] = h.dtd[p] /\ g.isOwner[p] = h.isOwner[p]
         /\ \A y \in Dtds : g.private[y] = IF y = x THEN o ELSE h.private[y]
<1> DEFINE g == Assign(h, o, x)
<1>1. /\ g.live = h.live /\ g.dtd[o] = x /\ g.isOwner[o]
      /\ \A p \in Objects \ {o} : g.dtd[p] = h.dtd[p] /\ g.isOwner[p] = h.isOwner[p]
      /\ \A y \in Dtds : g.private[y] = IF y = x THEN o ELSE h.private[y]
  BY DEF Assign, InOrder, Heap
<1>2. g \in Heap
  BY DEF Assign, InOrder, Heap
<1> HIDE DEF g
<1>3. InOrder(g)
  BY <1>1, <1>2 DEF InOrder, Heap
<1> QED BY <1>1, <1>3 DEF g

-----------------------------------------------------------------------------
(* The inductive invariant, without the sets in which OneOwner collects    *)
(* owners.                                                                 *)

Types ==
  /\ document \in [live : BOOLEAN, intSubset : Dtds \cup {NULL}]
  /\ caller \in [objects : SUBSET Objects, dtds : SUBSET Dtds]
  /\ validator \in [dtd : Objects \cup {NULL}, isOwner : BOOLEAN]
  /\ ~document.live => document.intSubset = NULL
  /\ validator.isOwner => validator.dtd # NULL
  /\ validator.dtd # NULL => validator.dtd \in heap.live

StreamGood ==
  /\ stream \in StreamStates \cup {NULL}
  /\ stream # NULL => stream.into \in heap.live /\ heap.dtd[stream.into] = NULL
  /\ stream # NULL /\ ~stream.good /\ ~stream.lost => stream.left = 0

XmlDtdsOwned ==
  \A x \in Dtds :
    /\ x = document.intSubset \/ x \in caller.dtds => heap.private[x] # "free" /\ ~Owned(heap, x)
    /\ ~(x = document.intSubset /\ x \in caller.dtds)
    /\ heap.private[x] # "free" => x = document.intSubset \/ x \in caller.dtds \/ Owned(heap, x)

OfDocument(o)  == document.intSubset # NULL /\ heap.private[document.intSubset] = o
OfValidator(o) == validator.isOwner /\ validator.dtd = o
OfCaller(o)    == o \in caller.objects

ObjectsOwned ==
  \A o \in Objects :
    /\ OfDocument(o) => ~OfValidator(o) /\ ~OfCaller(o)
    /\ OfValidator(o) => ~OfCaller(o)
    /\ o \in heap.live <=> OfDocument(o) \/ OfValidator(o) \/ OfCaller(o)

Ownership == Types /\ InOrder(heap) /\ XmlDtdsOwned /\ ObjectsOwned

\* A step that leaves the document alone, and the Dtd it has.
KeepsSubset == document' = document /\ \A p \in Objects : OfDocument(p) => OfDocument(p)'

LEMMA InitOwnership == DtdInit => Ownership /\ StreamGood /\ WholeStream
<1> SUFFICES ASSUME DtdInit PROVE Ownership /\ StreamGood /\ WholeStream
  OBVIOUS
<1> USE DEF DtdInit, NoDocument
<1>1. Types /\ StreamGood /\ WholeStream
  BY DEF Types, StreamGood, WholeStream
<1>2. InOrder(heap)
  BY DEF InOrder, Heap
<1>3. XmlDtdsOwned /\ ObjectsOwned
  BY DEF XmlDtdsOwned, ObjectsOwned, Owned, OfDocument, OfValidator, OfCaller
<1> QED BY <1>1, <1>2, <1>3 DEF Ownership

\* The Dtd of the document does not own its xmlDtd and is not the caller's.
LEMMA DocumentsDtdType ==
  ASSUME Ownership
  PROVE  /\ DocumentsDtd(heap) = NULL \/ DocumentsDtd(heap) \in heap.live
         /\ DocumentsDtd(heap) # NULL => /\ document.intSubset \in Dtds
                                         /\ heap.dtd[DocumentsDtd(heap)] = document.intSubset
                                         /\ ~heap.isOwner[DocumentsDtd(heap)]
         /\ document.intSubset # NULL => /\ DocumentsDtd(heap) = heap.private[document.intSubset]
                                         /\ heap.private[document.intSubset] \in Objects \cup {NULL}
<1>1. CASE document.intSubset = NULL
  BY <1>1 DEF DocumentsDtd
<1>2. CASE document.intSubset # NULL
  <2>1. document.intSubset \in Dtds /\ DocumentsDtd(heap) = heap.private[document.intSubset]
    BY <1>2 DEF Ownership, Types, DocumentsDtd
  <2>2. heap.private[document.intSubset] \in Objects \cup {NULL}
    BY <2>1 DEF Ownership, InOrder, Heap, XmlDtdsOwned
  <2> QED BY <2>1, <2>2 DEF Ownership, InOrder, XmlDtdsOwned, Owned
<1> QED BY <1>1, <1>2

\* What release_underlying() of the validator leaves.
LEMMA DroppedInOrder ==
  ASSUME NEW h, InOrder(h), validator \in [dtd : Objects \cup {NULL}, isOwner : BOOLEAN],
         validator.dtd # NULL => validator.dtd \in h.live
  PROVE  LET g == Dropped(h)
             o == IF validator.isOwner THEN validator.dtd ELSE NULL IN
         /\ InOrder(g) /\ g.live = h.live \ {o}
         /\ \A p \in Objects \ {o} : g.dtd[p] = h.dtd[p] /\ g.isOwner[p] = h.isOwner[p]
         /\ \A y \in Dtds : g.private[y] = IF o = NULL \/ y # h.dtd[o] THEN h.private[y]
                                           ELSE IF h.isOwner[o] THEN "free" ELSE NULL
<1>1. CASE validator.dtd # NULL /\ validator.isOwner
  <2>1. Dropped(h) = Delete(h, validator.dtd)
    BY <1>1 DEF Dropped
  <2> QED BY <1>1, <2>1, DeleteInOrder
<1>2. CASE ~(validator.dtd # NULL /\ validator.isOwner)
  <2>1. Dropped(h) = h
    BY <1>2 DEF Dropped
  <2>2. NULL \notin h.live
    BY DEF InOrder, Heap
  <2> QED BY <1>2, <2>1, <2>2
<1> QED BY <1>1, <1>2

-----------------------------------------------------------------------------
(* Each call keeps it.                                                     *)

LEMMA DocumentSteps ==
  ASSUME Ownership, NewDocument \/ GetInternalSubset \/ SetInternalSubset \/ DeleteDocument
  PROVE  Ownership'
<1> USE DEF Owned, OfDocument, OfValidator, OfCaller
<1>1. CASE NewDocument
  <2>1. PICK x \in FreshDtds(heap) \cup {NULL} :
          /\ document' = [live |-> TRUE, intSubset |-> x]
          /\ heap' = [heap EXCEPT !.private = [y \in Dtds |-> IF y = x THEN NULL ELSE @[y]]]
    BY <1>1 DEF NewDocument
  <2>2. /\ heap'.live = heap.live /\ heap'.dtd = heap.dtd /\ heap'.isOwner = heap.isOwner
        /\ \A y \in Dtds : heap'.private[y] = IF y = x THEN NULL ELSE heap.private[y]
        /\ heap' \in Heap
    BY <2>1 DEF Ownership, InOrder, Heap
  <2>3. document.intSubset = NULL /\ caller' = caller /\ validator' = validator
    BY <1>1 DEF NewDocument, Ownership, Types
  <2>4. x # NULL => x \in Dtds /\ heap.private[x] = "free"
    BY DEF FreshDtds
  <2>5. Types'
    BY <2>1, <2>2, <2>3, <2>4 DEF Types, Ownership
  <2>6. InOrder(heap')
    BY <2>2, <2>4, InOrderTypes DEF InOrder, Ownership
  <2>7. XmlDtdsOwned'
    BY <2>1, <2>2, <2>3, <2>4 DEF XmlDtdsOwned, Ownership
  <2>8. ObjectsOwned'
    BY <2>1, <2>2, <2>3, <2>4 DEF ObjectsOwned, Ownership
  <2> QED BY <2>5, <2>6, <2>7, <2>8 DEF Ownership
<1>2. CASE GetInternalSubset \/ SetInternalSubset
  <2>1. CASE UNCHANGED <<heap, document, caller, validator>>
    BY <2>1 DEF Ownership, Types, InOrder, XmlDtdsOwned, ObjectsOwned
  <2>2. ASSUME NEW x \in Dtds, NEW o \in FreshObjects(heap), heap.private[x] \in {NULL, "free"},
               heap' = Construct(heap, o, x), document' = [document EXCEPT !.intSubset = x],
               UNCHANGED <<caller, validator>>, document.live,
               \/ document.intSubset = x /\ heap.private[x] = NULL
               \/ document.intSubset = NULL /\ heap.private[x] = "free"
        PROVE  Ownership'
    <3>1. /\ InOrder(heap') /\ heap'.live = heap.live \cup {o} /\ heap'.dtd[o] = x /\ ~heap'.isOwner[o]
          /\ \A p \in Objects \ {o} : heap'.dtd[p] = heap.dtd[p] /\ heap'.isOwner[p] = heap.isOwner[p]
          /\ \A y \in Dtds : heap'.private[y] = IF y = x THEN o ELSE heap.private[y]
          /\ o \in Objects /\ o \notin heap.live
      <4>1. o \in Objects \ heap.live /\ InOrder(heap) /\ heap.private[x] \in {NULL, "free"}
        BY <2>2 DEF FreshObjects, Ownership
      <4> DEFINE g == Construct(heap, o, x)
      <4>2. /\ InOrder(g) /\ g.live = heap.live \cup {o} /\ g.dtd[o] = x
            /\ ~g.isOwner[o]
            /\ \A p \in Objects \ {o} : g.dtd[p] = heap.dtd[p] /\ g.isOwner[p] = heap.isOwner[p]
            /\ \A y \in Dtds : g.private[y] = IF y = x THEN o ELSE heap.private[y]
        BY <4>1, ConstructInOrder
      <4>3. heap' = g
        BY <2>2
      <4> HIDE DEF g
      <4> QED BY <4>1, <4>2, <4>3
    <3>2. /\ document' \in [live : BOOLEAN, intSubset : Dtds \cup {NULL}]
          /\ document'.intSubset = x /\ document'.live
      BY <2>2 DEF Ownership, Types
    <3>3. Types'
      BY <2>2, <3>1, <3>2 DEF Types, Ownership
    <3>4. \A y \in Dtds : heap.private[y] # o
      BY <3>1 DEF Ownership, InOrder
    <3>5. XmlDtdsOwned'
      <4> SUFFICES ASSUME NEW y \in Dtds
                   PROVE  /\ y = x \/ y \in caller.dtds => heap'.private[y] # "free" /\ ~Owned(heap', y)
                          /\ ~(y = x /\ y \in caller.dtds)
                          /\ heap'.private[y] # "free" => y = x \/ y \in caller.dtds \/ Owned(heap', y)
        BY <2>2, <3>2 DEF XmlDtdsOwned
      <4>1. y # x => /\ heap'.private[y] = heap.private[y]
                     /\ Owned(heap', y) = Owned(heap, y)
        BY <3>1, <3>4
      <4>2. ~Owned(heap', x) /\ heap'.private[x] # "free"
        BY <3>1
      <4>3. x \notin caller.dtds
        BY <2>2 DEF Ownership, XmlDtdsOwned
      <4>4. y # x => y # document.intSubset
        BY <2>2
      <4> QED BY <4>1, <4>2, <4>3, <4>4 DEF Ownership, XmlDtdsOwned
    <3>6. ObjectsOwned'
      <4>1. \A p \in Objects : OfDocument(p)' <=> p = o
        BY <3>1, <3>2
      <4>2. \A p \in Objects : ~OfDocument(p)
        BY <2>2, <3>1, InOrderTypes DEF Ownership
      <4>3. \A p \in Objects : OfValidator(p)' = OfValidator(p) /\ OfCaller(p)' = OfCaller(p)
        BY <2>2
      <4> QED BY <3>1, <4>1, <4>2, <4>3 DEF ObjectsOwned, Ownership
    <3> QED BY <3>1, <3>3, <3>5, <3>6 DEF Ownership
  <2>3. CASE GetInternalSubset
    <3>1. document.intSubset \in Dtds /\ document = [document EXCEPT !.intSubset = document.intSubset]
          /\ document.live
      BY <2>3 DEF GetInternalSubset, Ownership, Types
    <3>2. CASE heap.private[document.intSubset] # NULL
      BY <2>1, <2>3, <3>2 DEF GetInternalSubset
    <3>3. CASE heap.private[document.intSubset] = NULL
      <4>1. PICK o \in FreshObjects(heap) : heap' = Construct(heap, o, document.intSubset)
        BY <2>3, <3>3 DEF GetInternalSubset
      <4>2. document' = [document EXCEPT !.intSubset = document.intSubset]
            /\ UNCHANGED <<caller, validator>>
        BY <2>3, <3>1 DEF GetInternalSubset
      <4> QED BY <2>2, <3>1, <3>3, <4>1, <4>2
    <3> QED BY <3>2, <3>3
  <2>4. CASE SetInternalSubset
    BY <2>1, <2>2, <2>4 DEF SetInternalSubset, FreshDtds
  <2> QED BY <1>2, <2>3, <2>4
<1>3. CASE DeleteDocument
  <2> DEFINE o == DocumentsDtd(heap)
             h == IF o = NULL THEN heap ELSE Delete(heap, o)
             x == document.intSubset
  <2>1. /\ o = NULL \/ o # validator.dtd
        /\ heap' = [h EXCEPT !.private = [y \in Dtds |-> IF y = x THEN "free" ELSE @[y]]]
        /\ document' = NoDocument /\ UNCHANGED <<caller, validator>>
    BY <1>3 DEF DeleteDocument
  <2>2. /\ o = NULL \/ o \in heap.live
        /\ o # NULL => x \in Dtds /\ heap.dtd[o] = x /\ ~heap.isOwner[o]
        /\ x # NULL => o = heap.private[x] /\ x \in Dtds
    BY DocumentsDtdType DEF Ownership, Types
  <2>3. x = NULL => o = NULL
    BY DEF DocumentsDtd
  <2> HIDE DEF o
  <2>4. /\ InOrder(h) /\ h.live = heap.live \ {o}
        /\ \A p \in Objects \ {o} : h.dtd[p] = heap.dtd[p] /\ h.isOwner[p] = heap.isOwner[p]
        /\ \A y \in Dtds \ {x} : h.private[y] = heap.private[y]
        /\ x # NULL => h.private[x] = NULL
    <3>1. CASE o = NULL
      BY <2>2, <3>1 DEF Ownership, InOrder, Heap
    <3>2. CASE o # NULL
      BY <2>2, <3>2, DeleteInOrder DEF Ownership
    <3> QED BY <3>1, <3>2
  <2> HIDE DEF h
  <2>5. /\ heap'.live = h.live /\ heap'.dtd = h.dtd /\ heap'.isOwner = h.isOwner /\ heap' \in Heap
        /\ \A y \in Dtds : heap'.private[y] = IF y = x THEN "free" ELSE h.private[y]
    BY <2>1, <2>4 DEF InOrder, Heap
  <2> HIDE DEF x
  <2>6. InOrder(heap')
    BY <2>4, <2>5, InOrderTypes DEF InOrder
  <2>7. Types'
    BY <2>1, <2>2, <2>4, <2>5 DEF Types, Ownership, NoDocument
  <2>8. XmlDtdsOwned'
    <3>1. document'.intSubset = NULL /\ caller' = caller
      BY <2>1 DEF NoDocument
    <3>2. ASSUME NEW y \in Dtds PROVE /\ heap'.private[y] # "free" => y # x /\ heap'.private[y] = heap.private[y]
                                      /\ y # x => Owned(heap', y) = Owned(heap, y)
      BY <2>2, <2>4, <2>5 DEF Ownership, InOrder
    <3> QED BY <2>4, <2>5, <3>1, <3>2 DEF XmlDtdsOwned, Ownership, x
  <2>9. ObjectsOwned'
    <3>1. document'.intSubset = NULL /\ caller' = caller /\ validator' = validator
      BY <2>1 DEF NoDocument
    <3> QED BY <2>1, <2>2, <2>3, <2>4, <2>5, <3>1 DEF ObjectsOwned, Ownership, x
  <2> QED BY <2>6, <2>7, <2>8, <2>9 DEF Ownership
<1> QED BY <1>1, <1>2, <1>3


LEMMA CallerSteps ==
  ASSUME Ownership, NewDtd \/ NewParsedDtd \/ OwnXmlDtd
  PROVE  Ownership' /\ KeepsSubset
<1> USE DEF Owned, OfDocument, OfValidator, OfCaller
<1>0. caller \in [objects : SUBSET Objects, dtds : SUBSET Dtds] /\ InOrder(heap)
  BY DEF Ownership, Types
\* A new Dtd of the caller's, of nothing or of an xmlDtd of its own.
<1>1. ASSUME NEW o \in FreshObjects(heap), UNCHANGED <<document, validator>>,
             caller' = [caller EXCEPT !.objects = @ \cup {o}], InOrder(heap'),
             heap'.live = heap.live \cup {o},
             \A p \in Objects \ {o} : heap'.dtd[p] = heap.dtd[p] /\ heap'.isOwner[p] = heap.isOwner[p],
             \A y \in Dtds : heap'.private[y] = heap.private[y]
                            \/ (heap'.private[y] = o /\ heap'.isOwner[o] /\ heap.private[y] = "free")
      PROVE  Ownership' /\ KeepsSubset
  <2>1. /\ caller'.objects = caller.objects \cup {o} /\ caller'.dtds = caller.dtds
        /\ caller' \in [objects : SUBSET Objects, dtds : SUBSET Dtds]
        /\ o \in Objects \ heap.live
    BY <1>0, <1>1 DEF FreshObjects
  <2>2. \A y \in Dtds : heap.private[y] # o
    BY <2>1 DEF Ownership, InOrder
  <2>3. Types'
    BY <1>1, <2>1 DEF Types, Ownership
  <2>4. XmlDtdsOwned'
    BY <1>1, <2>1, <2>2 DEF XmlDtdsOwned, Ownership
  <2>5. \A p \in Objects : OfDocument(p)' = OfDocument(p)
    BY <1>1, <2>1, <2>2 DEF Ownership, XmlDtdsOwned, Types
  <2>6. ObjectsOwned'
    <3>2. \A p \in Objects : OfValidator(p)' = OfValidator(p) /\ (OfCaller(p)' <=> OfCaller(p) \/ p = o)
      BY <1>1, <2>1
    <3> HIDE DEF OfDocument, OfValidator, OfCaller
    <3> QED BY <1>1, <2>1, <2>5, <3>2 DEF ObjectsOwned, Ownership
  <2> QED BY <1>1, <2>3, <2>4, <2>5, <2>6 DEF Ownership, KeepsSubset
<1>2. CASE NewDtd
  <2>1. PICK o \in FreshObjects(heap) :
          heap' = Construct(heap, o, NULL) /\ caller' = [caller EXCEPT !.objects = @ \cup {o}]
    BY <1>2 DEF NewDtd
  <2>2. UNCHANGED <<document, validator>>
    BY <1>2 DEF NewDtd
  <2>3. o \in Objects \ heap.live
    BY DEF FreshObjects
  <2> DEFINE g == Construct(heap, o, NULL)
  <2>4. /\ InOrder(g) /\ g.live = heap.live \cup {o}
        /\ \A p \in Objects \ {o} : g.dtd[p] = heap.dtd[p] /\ g.isOwner[p] = heap.isOwner[p]
        /\ \A y \in Dtds : g.private[y] = heap.private[y]
    BY <1>0, <2>3, ConstructInOrder
  <2>5. heap' = g
    BY <2>1
  <2> HIDE DEF g
  <2>6. /\ InOrder(heap') /\ heap'.live = heap.live \cup {o}
        /\ \A p \in Objects \ {o} : heap'.dtd[p] = heap.dtd[p] /\ heap'.isOwner[p] = heap.isOwner[p]
        /\ \A y \in Dtds : heap'.private[y] = heap.private[y]
                            \/ (heap'.private[y] = o /\ heap'.isOwner[o] /\ heap.private[y] = "free")
    BY <2>4, <2>5
  <2> QED BY <1>1, <2>1, <2>2, <2>6
<1>3. CASE NewParsedDtd
  <2>1. CASE UNCHANGED <<heap, caller>>
    BY <1>3, <2>1 DEF NewParsedDtd, Ownership, Types, InOrder, XmlDtdsOwned, ObjectsOwned, KeepsSubset
  <2>2. ASSUME NEW o \in FreshObjects(heap), NEW x \in FreshDtds(heap),
               heap' = Assign(Construct(heap, o, NULL), o, x),
               caller' = [caller EXCEPT !.objects = @ \cup {o}]
        PROVE  Ownership' /\ KeepsSubset
    <3>1. UNCHANGED <<document, validator>>
      BY <1>3 DEF NewParsedDtd
    <3>2. o \in Objects \ heap.live /\ x \in Dtds /\ heap.private[x] = "free"
      BY DEF FreshObjects, FreshDtds
    <3> DEFINE g == Construct(heap, o, NULL)
               k == Assign(g, o, x)
    <3>3. /\ InOrder(g) /\ g.live = heap.live \cup {o} /\ g.dtd[o] = NULL
          /\ \A p \in Objects \ {o} : g.dtd[p] = heap.dtd[p] /\ g.isOwner[p] = heap.isOwner[p]
          /\ \A y \in Dtds : g.private[y] = heap.private[y]
      BY <1>0, <3>2, ConstructInOrder
    <3> HIDE DEF g
    <3>4. /\ InOrder(k) /\ k.live = g.live /\ k.isOwner[o]
          /\ \A p \in Objects \ {o} : k.dtd[p] = g.dtd[p] /\ k.isOwner[p] = g.isOwner[p]
          /\ \A y \in Dtds : k.private[y] = IF y = x THEN o ELSE g.private[y]
      BY <3>2, <3>3, AssignInOrder
    <3>5. heap' = k
      BY <2>2 DEF g
    <3> HIDE DEF k
    <3>6. /\ InOrder(heap') /\ heap'.live = heap.live \cup {o}
          /\ \A p \in Objects \ {o} : heap'.dtd[p] = heap.dtd[p] /\ heap'.isOwner[p] = heap.isOwner[p]
          /\ \A y \in Dtds : heap'.private[y] = heap.private[y]
                            \/ (heap'.private[y] = o /\ heap'.isOwner[o] /\ heap.private[y] = "free")
      BY <3>2, <3>3, <3>4, <3>5
    <3> QED BY <1>1, <2>2, <3>1, <3>6
  <2> QED BY <1>3, <2>1, <2>2 DEF NewParsedDtd
<1>4. CASE OwnXmlDtd
  <2>1. PICK x \in FreshDtds(heap) :
          heap' = [heap EXCEPT !.private[x] = NULL] /\ caller' = [caller EXCEPT !.dtds = @ \cup {x}]
    BY <1>4 DEF OwnXmlDtd
  <2>2. UNCHANGED <<document, validator>> /\ x \in Dtds /\ heap.private[x] = "free"
    BY <1>4 DEF OwnXmlDtd, FreshDtds
  <2>3. /\ heap'.live = heap.live /\ heap'.dtd = heap.dtd /\ heap'.isOwner = heap.isOwner
        /\ \A y \in Dtds : heap'.private[y] = IF y = x THEN NULL ELSE heap.private[y]
        /\ heap' \in Heap
    BY <2>1, <2>2 DEF Ownership, InOrder, Heap
  <2>4. /\ caller'.objects = caller.objects /\ caller'.dtds = caller.dtds \cup {x}
        /\ caller' \in [objects : SUBSET Objects, dtds : SUBSET Dtds]
    BY <1>0, <2>1, <2>2
  <2>5. Types'
    BY <2>2, <2>3, <2>4 DEF Types, Ownership
  <2>6. InOrder(heap')
    BY <2>2, <2>3, InOrderTypes DEF InOrder, Ownership
  <2>7. XmlDtdsOwned'
    BY <2>2, <2>3, <2>4 DEF XmlDtdsOwned, Ownership
  <2>8. ObjectsOwned'
    BY <2>2, <2>3, <2>4 DEF ObjectsOwned, XmlDtdsOwned, Ownership, Types
  <2>9. KeepsSubset
    BY <2>2, <2>3 DEF KeepsSubset, Ownership, Types, XmlDtdsOwned
  <2> QED BY <2>5, <2>6, <2>7, <2>8, <2>9 DEF Ownership
<1> QED BY <1>2, <1>3, <1>4

LEMMA WrapStep ==
  ASSUME Ownership, Uses = {}, NEW own \in BOOLEAN, WrapXmlDtd(own)
  PROVE  Ownership' /\ KeepsSubset /\ KeepsSubset
<1> USE DEF Owned, OfDocument, OfValidator, OfCaller
<1>1. PICK o \in FreshObjects(heap), x \in caller.dtds \cup ({document.intSubset} \ {NULL}) :
        /\ heap.private[x] = NULL /\ x # document.intSubset
        /\ heap' = [Construct(heap, o, x) EXCEPT !.isOwner[o] = own]
        /\ caller' = [objects |-> caller.objects \cup {o},
                      dtds |-> IF own THEN caller.dtds \ {x} ELSE caller.dtds]
  BY DEF WrapXmlDtd
<1>2. /\ UNCHANGED <<document, validator>> /\ o \in Objects \ heap.live
      /\ x \in caller.dtds /\ x \in Dtds /\ InOrder(heap)
      /\ caller \in [objects : SUBSET Objects, dtds : SUBSET Dtds]
  BY <1>1 DEF WrapXmlDtd, FreshObjects, Ownership, Types
<1> DEFINE g == Construct(heap, o, x)
<1>3. /\ InOrder(g) /\ g.live = heap.live \cup {o} /\ g.dtd[o] = x
      /\ \A p \in Objects \ {o} : g.dtd[p] = heap.dtd[p] /\ g.isOwner[p] = heap.isOwner[p]
      /\ \A y \in Dtds : g.private[y] = IF y = x THEN o ELSE heap.private[y]
  BY <1>1, <1>2, ConstructInOrder
<1>4. heap' = [g EXCEPT !.isOwner[o] = own]
  BY <1>1
<1> HIDE DEF g
<1>5. /\ heap'.live = g.live /\ heap'.dtd = g.dtd /\ heap'.private = g.private /\ heap' \in Heap
      /\ \A p \in Objects : heap'.isOwner[p] = IF p = o THEN own ELSE g.isOwner[p]
  BY <1>2, <1>3, <1>4 DEF InOrder, Heap
<1>6. InOrder(heap')
  BY <1>2, <1>3, <1>5 DEF InOrder
<1>7. /\ caller'.objects = caller.objects \cup {o}
      /\ caller'.dtds = IF own THEN caller.dtds \ {x} ELSE caller.dtds
      /\ caller' \in [objects : SUBSET Objects, dtds : SUBSET Dtds]
  BY <1>1, <1>2
<1>8. Types'
  BY <1>2, <1>3, <1>5, <1>7 DEF Types, Ownership
<1>9. \A y \in Dtds : heap.private[y] # o
  BY <1>2 DEF InOrder
<1>10. XmlDtdsOwned'
  <2>1. \A y \in Dtds : y # x => /\ heap'.private[y] = heap.private[y]
                                 /\ Owned(heap', y) = Owned(heap, y)
                                 /\ (y \in caller'.dtds <=> y \in caller.dtds)
    BY <1>3, <1>5, <1>7, <1>9
  <2>2. /\ heap'.private[x] = o /\ (Owned(heap', x) <=> own) /\ (x \in caller'.dtds <=> ~own)
    BY <1>2, <1>3, <1>5, <1>7
  <2> QED BY <1>1, <1>2, <2>1, <2>2 DEF XmlDtdsOwned, Ownership
<1>11. \A p \in Objects : OfDocument(p)' = OfDocument(p)
  BY <1>1, <1>2, <1>3, <1>5 DEF Ownership, Types
<1>12. ObjectsOwned'
  <2>2. \A p \in Objects : OfValidator(p)' = OfValidator(p) /\ (OfCaller(p)' <=> OfCaller(p) \/ p = o)
    BY <1>2, <1>7
  <2> HIDE DEF OfDocument, OfValidator, OfCaller
  <2>3. ~OfDocument(o) /\ ~OfValidator(o)
    BY <1>2 DEF Ownership, ObjectsOwned
  <2> QED BY <1>2, <1>3, <1>5, <1>11, <2>2, <2>3 DEF ObjectsOwned, Ownership
<1> QED BY <1>2, <1>6, <1>8, <1>10, <1>11, <1>12 DEF Ownership, KeepsSubset

\* XmlDtdsOwned and OfDocument of another heap.
Accounted(h) ==
  \A x \in Dtds :
    /\ x = document.intSubset \/ x \in caller.dtds => h.private[x] # "free" /\ ~Owned(h, x)
    /\ ~(x = document.intSubset /\ x \in caller.dtds)
    /\ h.private[x] # "free" => x = document.intSubset \/ x \in caller.dtds \/ Owned(h, x)
SubsetsDtd(h, o) == document.intSubset # NULL /\ h.private[document.intSubset] = o

\* A heap in which g has the Dtds of h, o without the xmlDtd it had.
LEMMA ReleasedAccounted ==
  ASSUME NEW h, InOrder(h), Accounted(h), NEW o \in h.live, ~SubsetsDtd(h, o), Types,
         NEW g, InOrder(g), \A p \in Objects \ {o} : g.isOwner[p] = h.isOwner[p],
         \A y \in Dtds : g.private[y] = IF y # h.dtd[o] THEN h.private[y]
                                       ELSE IF h.isOwner[o] THEN "free" ELSE NULL
  PROVE  Accounted(g) /\ \A p \in Objects : SubsetsDtd(g, p) = SubsetsDtd(h, p)
<1> USE DEF Owned
<1>1. \A y \in Dtds : y = h.dtd[o] => h.private[y] = o /\ o \in Objects
  BY InOrderTypes DEF InOrder
<1>2. \A y \in Dtds : y # h.dtd[o] => g.private[y] = h.private[y] /\ h.private[y] # o
  BY InOrderTypes DEF InOrder
<1>3. \A y \in Dtds : y # h.dtd[o] => Owned(g, y) = Owned(h, y)
  BY <1>2
<1>4. Accounted(g)
  <2> SUFFICES ASSUME NEW y \in Dtds
               PROVE  /\ y = document.intSubset \/ y \in caller.dtds => g.private[y] # "free" /\ ~Owned(g, y)
                      /\ ~(y = document.intSubset /\ y \in caller.dtds)
                      /\ g.private[y] # "free" => y = document.intSubset \/ y \in caller.dtds \/ Owned(g, y)
    BY DEF Accounted
  <2>1. CASE y # h.dtd[o]
    BY <2>1, <1>2, <1>3 DEF Accounted
  <2>2. CASE y = h.dtd[o]
    BY <2>2, <1>1 DEF Accounted
  <2> QED BY <2>1, <2>2
<1>5. ASSUME NEW p \in Objects PROVE SubsetsDtd(g, p) = SubsetsDtd(h, p)
  BY <1>1 DEF SubsetsDtd, Types
<1> QED BY <1>4, <1>5

\* One more xmlDtd, made for a Dtd that has none.
LEMMA AssignedAccounted ==
  ASSUME NEW h, InOrder(h), Accounted(h), NEW o \in h.live, h.dtd[o] = NULL, NEW x \in Dtds,
         h.private[x] = "free", Types
  PROVE  LET g == Assign(h, o, x) IN
         Accounted(g) /\ \A p \in Objects : SubsetsDtd(g, p) = SubsetsDtd(h, p)
<1> USE DEF Owned
<1> DEFINE g == Assign(h, o, x)
<1>1. /\ InOrder(g) /\ g.isOwner[o] /\ \A p \in Objects \ {o} : g.isOwner[p] = h.isOwner[p]
      /\ \A y \in Dtds : g.private[y] = IF y = x THEN o ELSE h.private[y]
  BY AssignInOrder
<1> HIDE DEF g
<1>2. \A y \in Dtds : h.private[y] # o
  BY InOrderTypes DEF InOrder
<1>3. o \in Objects
  BY InOrderTypes
<1>4. Accounted(g)
  BY <1>1, <1>2, <1>3 DEF Accounted
<1>5. ASSUME NEW p \in Objects PROVE SubsetsDtd(g, p) = SubsetsDtd(h, p)
  BY <1>1 DEF SubsetsDtd, Types, Accounted
<1> QED BY <1>4, <1>5 DEF g

LEMMA NowAccounted ==
  /\ XmlDtdsOwned <=> Accounted(heap)
  /\ \A p \in Objects : OfDocument(p) = SubsetsDtd(heap, p)
  /\ document' = document /\ caller'.dtds = caller.dtds /\ Accounted(heap') => XmlDtdsOwned'
  /\ document' = document => \A p \in Objects : OfDocument(p)' = SubsetsDtd(heap', p)
BY DEF XmlDtdsOwned, Accounted, OfDocument, SubsetsDtd, Owned

\* The Dtds a caller may use, and those that are its own.
LEMMA KnownDtds ==
  ASSUME Ownership
  PROVE  /\ \A o \in Known : o \in heap.live /\ o \in Objects
         /\ \A o \in caller.objects : o \in heap.live /\ o \in Objects /\ ~OfDocument(o) /\ ~OfValidator(o)
         /\ \A o \in Objects : o # DocumentsDtd(heap) => ~OfDocument(o)
<1>1. heap.live \subseteq Objects /\ caller.objects \subseteq Objects
  BY InOrderTypes DEF Ownership, Types
<1>2. \A o \in caller.objects : o \in heap.live /\ ~OfDocument(o) /\ ~OfValidator(o)
  BY <1>1 DEF Ownership, ObjectsOwned, OfCaller
<1>3. \A o \in Objects : o # DocumentsDtd(heap) => ~OfDocument(o)
  BY DEF DocumentsDtd, OfDocument
<1> QED BY <1>1, <1>2, <1>3 DEF Known

LEMMA FreeStep ==
  ASSUME Ownership, NEW x \in Dtds, FreeXmlDtd(x)
  PROVE  Ownership' /\ KeepsSubset
<1> USE DEF Owned, OfDocument, OfValidator, OfCaller
<1>1. /\ x \in caller.dtds /\ heap.private[x] = NULL /\ UNCHANGED <<document, validator>>
      /\ heap' = [heap EXCEPT !.private[x] = "free"] /\ caller' = [caller EXCEPT !.dtds = @ \ {x}]
  BY DEF FreeXmlDtd
<1>2. /\ heap'.live = heap.live /\ heap'.dtd = heap.dtd /\ heap'.isOwner = heap.isOwner
      /\ \A y \in Dtds : heap'.private[y] = IF y = x THEN "free" ELSE heap.private[y]
      /\ heap' \in Heap
  BY <1>1 DEF Ownership, InOrder, Heap
<1>3. /\ caller'.objects = caller.objects /\ caller'.dtds = caller.dtds \ {x}
      /\ caller' \in [objects : SUBSET Objects, dtds : SUBSET Dtds]
  BY <1>1 DEF Ownership, Types
<1>4. Types'
  BY <1>1, <1>2, <1>3 DEF Types, Ownership
<1>5. InOrder(heap')
  BY <1>1, <1>2, InOrderTypes DEF InOrder, Ownership
<1>6. XmlDtdsOwned'
  BY <1>1, <1>2, <1>3 DEF XmlDtdsOwned, Ownership
<1>7. \A p \in Objects : OfDocument(p)' = OfDocument(p)
  BY <1>1, <1>2 DEF Ownership, Types, XmlDtdsOwned
<1>8. ObjectsOwned'
  <2>1. \A p \in Objects : OfValidator(p)' = OfValidator(p) /\ OfCaller(p)' = OfCaller(p)
    BY <1>1, <1>3
  <2> HIDE DEF OfDocument, OfValidator, OfCaller
  <2> QED BY <1>2, <1>7, <2>1 DEF ObjectsOwned, Ownership
<1> QED BY <1>1, <1>4, <1>5, <1>6, <1>7, <1>8 DEF Ownership, KeepsSubset

LEMMA DeleteStep ==
  ASSUME Ownership, NEW o \in Objects, DeleteDtd(o)
  PROVE  Ownership' /\ KeepsSubset
<1>1. /\ o \in caller.objects /\ o # validator.dtd /\ UNCHANGED <<document, validator>>
      /\ heap' = Delete(heap, o) /\ caller' = [caller EXCEPT !.objects = @ \ {o}]
  BY DEF DeleteDtd
<1>2. o \in heap.live /\ ~OfDocument(o) /\ InOrder(heap) /\ Types
  BY <1>1, KnownDtds DEF Ownership
<1> DEFINE g == Delete(heap, o)
<1>3. /\ InOrder(g) /\ g.live = heap.live \ {o}
      /\ \A p \in Objects \ {o} : g.dtd[p] = heap.dtd[p] /\ g.isOwner[p] = heap.isOwner[p]
      /\ \A y \in Dtds : g.private[y] = IF y # heap.dtd[o] THEN heap.private[y]
                                        ELSE IF heap.isOwner[o] THEN "free" ELSE NULL
  BY <1>2, DeleteInOrder
<1>4. heap' = g
  BY <1>1
<1> HIDE DEF g
<1>5. Accounted(heap) /\ ~SubsetsDtd(heap, o)
  BY <1>2, NowAccounted DEF Ownership
<1>6. Accounted(g) /\ \A p \in Objects : SubsetsDtd(g, p) = SubsetsDtd(heap, p)
  BY <1>2, <1>3, <1>5, ReleasedAccounted
<1>7. /\ caller'.objects = caller.objects \ {o} /\ caller'.dtds = caller.dtds
      /\ caller' \in [objects : SUBSET Objects, dtds : SUBSET Dtds]
  BY <1>1 DEF Ownership, Types
<1>8. XmlDtdsOwned' /\ \A p \in Objects : OfDocument(p)' = OfDocument(p)
  BY <1>1, <1>4, <1>6, <1>7, NowAccounted
<1>9. Types'
  BY <1>1, <1>3, <1>4, <1>7 DEF Types, Ownership
<1>10. ObjectsOwned'
  <2>1. \A p \in Objects : /\ OfValidator(p)' = OfValidator(p)
                           /\ (OfCaller(p)' <=> OfCaller(p) /\ p # o)
    BY <1>1, <1>7 DEF OfValidator, OfCaller
  <2>2. ~OfValidator(o)
    BY <1>1, KnownDtds
  <2> QED BY <1>2, <1>3, <1>4, <1>8, <2>1, <2>2 DEF ObjectsOwned, Ownership
<1> QED BY <1>1, <1>3, <1>4, <1>8, <1>9, <1>10 DEF Ownership, KeepsSubset

\* A step that only gives a Dtd another xmlDtd, or none.
LEMMA SameObjects ==
  ASSUME Ownership, UNCHANGED <<document, caller, validator>>, InOrder(heap'), heap'.live = heap.live,
         Accounted(heap'), \A p \in Objects : SubsetsDtd(heap', p) = SubsetsDtd(heap, p)
  PROVE  Ownership' /\ KeepsSubset
<1>1. XmlDtdsOwned' /\ \A p \in Objects : OfDocument(p)' = OfDocument(p)
  BY NowAccounted
<1>2. Types'
  BY DEF Types, Ownership
<1>3. ObjectsOwned'
  <2>1. \A p \in Objects : OfValidator(p)' = OfValidator(p) /\ OfCaller(p)' = OfCaller(p)
    BY DEF OfValidator, OfCaller
  <2> QED BY <1>1, <2>1 DEF ObjectsOwned, Ownership
<1> QED BY <1>1, <1>2, <1>3 DEF Ownership, KeepsSubset

\* The xmlDtd that a Dtd loses when it parses.
LEMMA ParseReleases ==
  ASSUME Ownership, Uses = {}, NEW o, MayParse(o)
  PROVE  LET h == ReleaseUnderlying(heap, o) IN
         /\ o \in heap.live /\ InOrder(h) /\ h.live = heap.live /\ h.dtd[o] = NULL
         /\ Accounted(h) /\ \A p \in Objects : SubsetsDtd(h, p) = SubsetsDtd(heap, p)
<1>1. o \in heap.live /\ o \in Objects /\ ~OfDocument(o) /\ InOrder(heap) /\ Types
  BY KnownDtds DEF MayParse, Ownership
<1> DEFINE h == ReleaseUnderlying(heap, o)
<1>2. /\ InOrder(h) /\ h.live = heap.live /\ h.dtd[o] = NULL
      /\ \A p \in Objects \ {o} : h.dtd[p] = heap.dtd[p] /\ h.isOwner[p] = heap.isOwner[p]
      /\ \A y \in Dtds : h.private[y] = IF y # heap.dtd[o] THEN heap.private[y]
                                        ELSE IF heap.isOwner[o] THEN "free" ELSE NULL
  BY <1>1, ReleaseInOrder
<1> HIDE DEF h
<1>3. Accounted(heap) /\ ~SubsetsDtd(heap, o)
  BY <1>1, NowAccounted DEF Ownership
<1>4. Accounted(h) /\ \A p \in Objects : SubsetsDtd(h, p) = SubsetsDtd(heap, p)
  BY <1>1, <1>2, <1>3, ReleasedAccounted
<1> QED BY <1>1, <1>2, <1>4 DEF h

LEMMA ParseStep ==
  ASSUME Ownership, Uses = {}, NEW o \in Objects, ParseSubset(o)
  PROVE  Ownership' /\ KeepsSubset
<1> DEFINE h == ReleaseUnderlying(heap, o)
<1>1. /\ o \in heap.live /\ InOrder(h) /\ h.live = heap.live /\ h.dtd[o] = NULL
      /\ Accounted(h) /\ \A p \in Objects : SubsetsDtd(h, p) = SubsetsDtd(heap, p)
  BY ParseReleases DEF ParseSubset
<1>2. /\ UNCHANGED <<document, caller, validator>>
      /\ (\E x \in FreshDtds(h) : heap' = Assign(h, o, x)) \/ heap' = h
  BY DEF ParseSubset
<1> HIDE DEF h
<1>3. CASE heap' = h
  BY <1>1, <1>2, <1>3, SameObjects
<1>4. ASSUME NEW x \in FreshDtds(h), heap' = Assign(h, o, x) PROVE Ownership' /\ KeepsSubset
  <2> DEFINE g == Assign(h, o, x)
  <2>1. x \in Dtds /\ h.private[x] = "free" /\ Types
    BY DEF FreshDtds, Ownership
  <2>2. /\ InOrder(g) /\ g.live = h.live
        /\ Accounted(g) /\ \A p \in Objects : SubsetsDtd(g, p) = SubsetsDtd(h, p)
    BY <1>1, <2>1, AssignInOrder, AssignedAccounted
  <2>3. heap' = g
    BY <1>4
  <2> HIDE DEF g
  <2> QED BY <1>1, <1>2, <2>2, <2>3, SameObjects
<1> QED BY <1>2, <1>3, <1>4

\* Streams.
LEMMA StartStream ==
  ASSUME Ownership, Uses = {}, NEW o \in Objects, NEW n \in 0..Length, ParseStream(o, n)
  PROVE  Ownership' /\ KeepsSubset /\ StreamGood' /\ WholeStream'
<1> DEFINE h == ReleaseUnderlying(heap, o)
<1>1. /\ o \in heap.live /\ InOrder(h) /\ h.live = heap.live /\ h.dtd[o] = NULL
      /\ Accounted(h) /\ \A p \in Objects : SubsetsDtd(h, p) = SubsetsDtd(heap, p)
  BY ParseReleases DEF ParseStream
<1>2. UNCHANGED <<document, caller, validator>> /\ heap' = h
  BY DEF ParseStream
<1> HIDE DEF h
<1>3. Ownership' /\ KeepsSubset
  BY <1>1, <1>2, SameObjects
<1>4. /\ stream' \in StreamStates /\ stream'.into = o /\ stream'.left = n /\ stream'.got = 0
      /\ stream'.length = n /\ stream'.good /\ stream'.more
  BY StreamAssumption DEF ParseStream, StreamStates
<1>5. StreamGood'
  BY <1>1, <1>2, <1>4 DEF StreamGood
<1>6. WholeStream'
  BY <1>4 DEF WholeStream
<1> QED BY <1>3, <1>5, <1>6

LEMMA ReadStep ==
  ASSUME Ownership, StreamGood, WholeStream, OnRead
  PROVE  Ownership' /\ KeepsSubset /\ StreamGood' /\ WholeStream'
<1>1. Ownership' /\ KeepsSubset
  BY DEF OnRead, Ownership, KeepsSubset, Types, InOrder, XmlDtdsOwned, ObjectsOwned, OfDocument,
         OfValidator, OfCaller
<1>2. PICK count \in 0..ReadLen : count <= stream.left /\ stream' = DoRead(stream, count)
  BY DEF OnRead
<1>3. stream \in StreamStates /\ stream # NULL /\ stream.more /\ heap' = heap
  BY DEF OnRead, StreamGood
<1>4. /\ stream.left \in 0..Length /\ stream.got \in 0..Length /\ stream.length \in 0..Length
      /\ stream.good \in BOOLEAN /\ stream.lost \in BOOLEAN /\ stream.into \in Objects
      /\ stream.got + stream.left = stream.length
  BY <1>3 DEF StreamStates, WholeStream
<1>5. CASE ~stream.good
  <2>1. /\ stream' \in StreamStates /\ stream'.into = stream.into /\ stream'.left = stream.left
        /\ stream'.got = stream.got /\ stream'.length = stream.length /\ ~stream'.more
        /\ ~stream'.good /\ stream'.lost = stream.lost
    BY <1>2, <1>3, <1>5 DEF DoRead, StreamStates
  <2>2. ~stream.lost => stream.left = 0
    BY <1>3, <1>5 DEF StreamGood
  <2>3. StreamGood'
    BY <1>3, <2>1, <2>2 DEF StreamGood
  <2>4. WholeStream'
    BY <1>4, <2>1, <2>2 DEF WholeStream
  <2> QED BY <1>1, <2>3, <2>4
<1>6. CASE stream.good
  <2> DEFINE good == count = ReadLen
             lost == stream.lost \/ (count < ReadLen /\ count < stream.left)
             more == count > 0
  <2>1. /\ stream.left - count \in 0..Length /\ stream.got + count \in 0..Length
        /\ good \in BOOLEAN /\ lost \in BOOLEAN /\ more \in BOOLEAN
    BY <1>2, <1>4, StreamAssumption
  <2> HIDE DEF good, lost, more
  <2>2. stream' = [stream EXCEPT !.left = stream.left - count, !.good = good, !.lost = lost,
                                 !.got = stream.got + count, !.more = more]
    BY <1>2, <1>3, <1>6 DEF DoRead, StreamRead, good, lost, more, StreamStates
  <2>3. /\ stream' \in StreamStates /\ stream'.into = stream.into /\ stream'.left = stream.left - count
        /\ stream'.got = stream.got + count /\ stream'.length = stream.length
        /\ stream'.good = good /\ stream'.lost = lost /\ stream'.more = more
    BY <1>3, <2>1, <2>2 DEF StreamStates
  <2>4. ~good /\ ~lost => stream.left - count = 0
    BY <1>2, <1>4, StreamAssumption DEF good, lost
  <2>5. ~more => ~good /\ count = 0
    BY <1>2, StreamAssumption DEF more, good
  <2>6. StreamGood'
    BY <1>3, <2>3, <2>4 DEF StreamGood
  <2>7. WholeStream'
    <3>1. stream'.got + stream'.left = stream'.length
      BY <1>2, <1>4, <2>3, StreamAssumption
    <3>2. ~stream'.more /\ ~stream'.lost => stream'.left = 0
      BY <2>3, <2>4, <2>5
    <3> QED BY <1>4, <2>1, <2>3, <3>1, <3>2 DEF WholeStream
  <2> QED BY <1>1, <2>6, <2>7
<1> QED BY <1>4, <1>5, <1>6

LEMMA StreamEnds ==
  ASSUME Ownership, StreamGood, ParsedStream \/ StreamParseError
  PROVE  Ownership' /\ KeepsSubset /\ StreamGood' /\ WholeStream'
<1>1. stream' = NULL /\ UNCHANGED <<document, caller, validator>>
  BY DEF ParsedStream, StreamParseError
<1>2. StreamGood' /\ WholeStream'
  BY <1>1 DEF StreamGood, WholeStream
<1>3. CASE StreamParseError
  BY <1>2, <1>3 DEF StreamParseError, Ownership, KeepsSubset, Types, InOrder, XmlDtdsOwned,
                    ObjectsOwned, OfDocument, OfValidator, OfCaller
<1>4. CASE ParsedStream
  <2> DEFINE o == stream.into
  <2>1. PICK x \in FreshDtds(heap) : heap' = Assign(heap, o, x)
    BY <1>4 DEF ParsedStream
  <2>2. o \in heap.live /\ heap.dtd[o] = NULL
    BY <1>4 DEF ParsedStream, StreamGood
  <2> HIDE DEF o
  <2>3. x \in Dtds /\ heap.private[x] = "free" /\ Types /\ InOrder(heap) /\ Accounted(heap)
    BY NowAccounted DEF FreshDtds, Ownership
  <2> DEFINE g == Assign(heap, o, x)
  <2>4. /\ InOrder(g) /\ g.live = heap.live
        /\ Accounted(g) /\ \A p \in Objects : SubsetsDtd(g, p) = SubsetsDtd(heap, p)
    BY <2>2, <2>3, AssignInOrder, AssignedAccounted
  <2>5. heap' = g
    BY <2>1
  <2> HIDE DEF g
  <2> QED BY <1>1, <1>2, <2>4, <2>5, SameObjects
<1> QED BY <1>3, <1>4

\* The validator.
LEMMA DroppedAccounted ==
  ASSUME Types, NEW h, InOrder(h), Accounted(h), heap.live \subseteq h.live,
         validator.isOwner => ~SubsetsDtd(h, validator.dtd)
  PROVE  LET g == Dropped(h) IN
         /\ InOrder(g) /\ Accounted(g) /\ \A p \in Objects : SubsetsDtd(g, p) = SubsetsDtd(h, p)
         /\ g.live = h.live \ (IF validator.isOwner THEN {validator.dtd} ELSE {})
<1>1. CASE ~validator.isOwner
  <2>1. Dropped(h) = h
    BY <1>1 DEF Dropped
  <2> QED BY <1>1, <2>1
<1>2. CASE validator.isOwner
  <2> DEFINE o == validator.dtd
             g == Delete(h, o)
  <2>1. o # NULL /\ o \in h.live /\ ~SubsetsDtd(h, o)
    BY <1>2 DEF Types
  <2>2. Dropped(h) = g
    BY <1>2, <2>1 DEF Dropped
  <2> HIDE DEF o
  <2>3. /\ InOrder(g) /\ g.live = h.live \ {o}
        /\ \A p \in Objects \ {o} : g.dtd[p] = h.dtd[p] /\ g.isOwner[p] = h.isOwner[p]
        /\ \A y \in Dtds : g.private[y] = IF y # h.dtd[o] THEN h.private[y]
                                          ELSE IF h.isOwner[o] THEN "free" ELSE NULL
    BY <2>1, DeleteInOrder
  <2> HIDE DEF g
  <2>4. Accounted(g) /\ \A p \in Objects : SubsetsDtd(g, p) = SubsetsDtd(h, p)
    BY <2>1, <2>3, ReleasedAccounted
  <2> QED BY <1>2, <2>2, <2>3, <2>4 DEF o
<1> QED BY <1>1, <1>2

LEMMA SetStep ==
  ASSUME Ownership, NEW o \in Objects, NEW own \in BOOLEAN, SetDtd(o, own)
  PROVE  Ownership' /\ KeepsSubset
<1>1. /\ o \in Known /\ o # validator.dtd /\ (own => o \in caller.objects)
      /\ heap' = Dropped(heap) /\ validator' = [dtd |-> o, isOwner |-> own] /\ document' = document
      /\ caller' = IF own THEN [caller EXCEPT !.objects = @ \ {o}] ELSE caller
  BY DEF SetDtd
<1>2. Types /\ InOrder(heap) /\ Accounted(heap) /\ o \in heap.live
  BY <1>1, KnownDtds, NowAccounted DEF Ownership
<1>3. validator.isOwner => /\ validator.dtd \in Objects /\ validator.dtd \notin caller.objects
                           /\ ~OfDocument(validator.dtd) /\ ~SubsetsDtd(heap, validator.dtd)
  BY NowAccounted DEF Ownership, Types, ObjectsOwned, OfValidator, OfCaller
<1> DEFINE g == Dropped(heap)
<1>4. /\ InOrder(g) /\ Accounted(g) /\ \A p \in Objects : SubsetsDtd(g, p) = SubsetsDtd(heap, p)
      /\ g.live = heap.live \ (IF validator.isOwner THEN {validator.dtd} ELSE {})
  BY <1>2, <1>3, DroppedAccounted
<1>5. heap' = g
  BY <1>1
<1> HIDE DEF g
<1>6. /\ caller' \in [objects : SUBSET Objects, dtds : SUBSET Dtds] /\ caller'.dtds = caller.dtds
      /\ caller'.objects = IF own THEN caller.objects \ {o} ELSE caller.objects
  <2>1. CASE own
    BY <1>1, <1>2, <2>1 DEF Types
  <2>2. CASE ~own
    BY <1>1, <1>2, <2>2 DEF Types
  <2> QED BY <2>1, <2>2
<1>7. XmlDtdsOwned' /\ \A p \in Objects : OfDocument(p)' = OfDocument(p)
  BY <1>1, <1>4, <1>5, <1>6, NowAccounted
<1>8. /\ validator' \in [dtd : Objects \cup {NULL}, isOwner : BOOLEAN] /\ validator'.dtd = o
      /\ (validator'.isOwner <=> own)
  BY <1>1
<1>9. Types'
  BY <1>1, <1>2, <1>4, <1>5, <1>6, <1>8 DEF Types
<1>10. ObjectsOwned'
  <2>1. \A p \in Objects : /\ OfValidator(p)' <=> own /\ p = o
                           /\ OfCaller(p)' <=> OfCaller(p) /\ ~(own /\ p = o)
    BY <1>6, <1>8 DEF OfValidator, OfCaller
  <2>2. own => OfCaller(o) /\ ~OfDocument(o)
    BY <1>1, KnownDtds DEF OfCaller
  <2>3. \A p \in Objects : p \in heap'.live <=> p \in heap.live /\ ~OfValidator(p)
    BY <1>4, <1>5 DEF OfValidator
  <2> QED BY <1>7, <2>1, <2>2, <2>3 DEF ObjectsOwned, Ownership
<1> QED BY <1>1, <1>4, <1>5, <1>7, <1>9, <1>10 DEF Ownership, KeepsSubset

LEMMA DeleteValidatorStep ==
  ASSUME Ownership, DeleteValidator
  PROVE  Ownership' /\ KeepsSubset
<1>1. /\ heap' = Dropped(heap) /\ validator' = [dtd |-> NULL, isOwner |-> FALSE]
      /\ UNCHANGED <<document, caller>>
  BY DEF DeleteValidator
<1>2. Types /\ InOrder(heap) /\ Accounted(heap)
  BY NowAccounted DEF Ownership
<1>3. validator.isOwner => ~SubsetsDtd(heap, validator.dtd)
  BY NowAccounted DEF Ownership, Types, ObjectsOwned, OfValidator, OfCaller
<1> DEFINE g == Dropped(heap)
<1>4. /\ InOrder(g) /\ Accounted(g) /\ \A p \in Objects : SubsetsDtd(g, p) = SubsetsDtd(heap, p)
      /\ g.live = heap.live \ (IF validator.isOwner THEN {validator.dtd} ELSE {})
  BY <1>2, <1>3, DroppedAccounted
<1>5. heap' = g
  BY <1>1
<1> HIDE DEF g
<1>6. XmlDtdsOwned' /\ \A p \in Objects : OfDocument(p)' = OfDocument(p)
  BY <1>1, <1>4, <1>5, NowAccounted
<1>7. Types'
  BY <1>1, <1>2 DEF Types
<1>8. ObjectsOwned'
  <2>1. \A p \in Objects : /\ ~OfValidator(p)' /\ (OfCaller(p)' <=> OfCaller(p))
                           /\ (p \in heap'.live <=> p \in heap.live /\ ~OfValidator(p))
    BY <1>1, <1>4, <1>5 DEF OfValidator, OfCaller
  <2> QED BY <1>6, <2>1 DEF ObjectsOwned, Ownership
<1> QED BY <1>1, <1>4, <1>5, <1>6, <1>7, <1>8 DEF Ownership, KeepsSubset

LEMMA ParseIntoStep ==
  ASSUME Ownership, ParseIntoValidator
  PROVE  Ownership' /\ KeepsSubset
<1>1. UNCHANGED <<document, caller>>
  BY DEF ParseIntoValidator
<1>2. CASE UNCHANGED <<heap, validator>>
  BY <1>1, <1>2 DEF Ownership, KeepsSubset, Types, InOrder, XmlDtdsOwned, ObjectsOwned, OfDocument,
                    OfValidator, OfCaller
<1>3. ASSUME NEW o \in FreshObjects(heap), NEW x \in FreshDtds(heap),
             heap' = Dropped(Assign(Construct(heap, o, NULL), o, x)),
             validator' = [dtd |-> o, isOwner |-> TRUE]
      PROVE  Ownership' /\ KeepsSubset
  <2> DEFINE h == Construct(heap, o, NULL)
             k == Assign(h, o, x)
             g == Dropped(k)
  <2>1. /\ o \in Objects \ heap.live /\ x \in Dtds /\ heap.private[x] = "free"
        /\ Types /\ InOrder(heap) /\ Accounted(heap)
    BY NowAccounted DEF FreshObjects, FreshDtds, Ownership
  <2>2. /\ InOrder(h) /\ h.live = heap.live \cup {o} /\ h.dtd[o] = NULL
        /\ \A p \in Objects \ {o} : h.isOwner[p] = heap.isOwner[p]
        /\ \A y \in Dtds : h.private[y] = heap.private[y]
    BY <2>1, ConstructInOrder
  <2> HIDE DEF h
  <2>3. Accounted(h) /\ \A p \in Objects : SubsetsDtd(h, p) = SubsetsDtd(heap, p)
    <3>1. \A y \in Dtds : heap.private[y] # o
      BY <2>1 DEF InOrder
    <3>2. \A y \in Dtds : Owned(h, y) = Owned(heap, y)
      BY <2>2, <3>1 DEF Owned
    <3> QED BY <2>1, <2>2, <3>2 DEF Accounted, SubsetsDtd, Types
  <2>4. /\ InOrder(k) /\ k.live = h.live
        /\ Accounted(k) /\ \A p \in Objects : SubsetsDtd(k, p) = SubsetsDtd(h, p)
    BY <2>1, <2>2, <2>3, AssignInOrder, AssignedAccounted
  <2> HIDE DEF k
  <2>5. validator.isOwner => validator.dtd \in Objects /\ ~SubsetsDtd(k, validator.dtd)
    BY <2>3, <2>4, NowAccounted DEF Ownership, Types, ObjectsOwned, OfValidator, OfCaller
  <2>6. /\ InOrder(g) /\ Accounted(g) /\ \A p \in Objects : SubsetsDtd(g, p) = SubsetsDtd(k, p)
        /\ g.live = k.live \ (IF validator.isOwner THEN {validator.dtd} ELSE {})
    BY <2>1, <2>2, <2>4, <2>5, DroppedAccounted
  <2>7. heap' = g
    BY <1>3 DEF h, k
  <2> HIDE DEF g
  <2>8. validator.isOwner => validator.dtd \in heap.live
    BY <2>1 DEF Types
  <2>9. XmlDtdsOwned' /\ \A p \in Objects : OfDocument(p)' = OfDocument(p)
    BY <1>1, <2>3, <2>4, <2>6, <2>7, NowAccounted
  <2>10. /\ validator' \in [dtd : Objects \cup {NULL}, isOwner : BOOLEAN]
         /\ validator'.dtd = o /\ validator'.isOwner
    BY <1>3, <2>1
  <2>11. \A p \in Objects : /\ (OfValidator(p)' <=> p = o) /\ (OfCaller(p)' <=> OfCaller(p))
                            /\ (p \in heap'.live <=> p = o \/ (p \in heap.live /\ ~OfValidator(p)))
    BY <1>1, <2>1, <2>2, <2>4, <2>6, <2>7, <2>8, <2>10 DEF OfValidator, OfCaller
  <2>12. Types'
    BY <1>1, <2>1, <2>10, <2>11 DEF Types
  <2>13. ObjectsOwned'
    BY <2>1, <2>9, <2>11 DEF ObjectsOwned, Ownership
  <2> QED BY <1>1, <2>6, <2>7, <2>9, <2>12, <2>13 DEF Ownership, KeepsSubset
<1> QED BY <1>2, <1>3 DEF ParseIntoValidator

-----------------------------------------------------------------------------
(* The theorems.                                                           *)

\* A step keeps the Dtd of a document that stays.
Stable ==
  document.live /\ document'.live =>
    /\ document.intSubset # NULL => document'.intSubset = document.intSubset
    /\ DocumentsDtd(heap) # NULL => DocumentsDtd(heap)' = DocumentsDtd(heap)

LEMMA KeptIsStable == ASSUME Ownership, KeepsSubset PROVE Stable
<1>1. document' = document
  BY DEF KeepsSubset
<1>2. ASSUME NEW p, p = DocumentsDtd(heap), p # NULL PROVE DocumentsDtd(heap)' = p
  <2>1. p \in Objects /\ OfDocument(p)
    BY <1>2, DocumentsDtdType, InOrderTypes DEF Ownership, OfDocument, DocumentsDtd
  <2>2. OfDocument(p)'
    BY <2>1 DEF KeepsSubset
  <2> QED BY <1>1, <2>2 DEF DocumentsDtd, OfDocument
<1> QED BY <1>1, <1>2 DEF Stable

LEMMA DocumentStable ==
  ASSUME Ownership, NewDocument \/ GetInternalSubset \/ SetInternalSubset \/ DeleteDocument
  PROVE  Stable
<1>1. CASE NewDocument
  BY <1>1 DEF NewDocument, Stable
<1>2. CASE GetInternalSubset
  BY <1>2 DEF GetInternalSubset, Stable, DocumentsDtd
<1>3. CASE SetInternalSubset
  BY <1>3 DEF SetInternalSubset, Stable, DocumentsDtd
<1>4. CASE DeleteDocument
  BY <1>4 DEF DeleteDocument, NoDocument, Stable
<1> QED BY <1>1, <1>2, <1>3, <1>4

Invariant == Ownership /\ StreamGood /\ WholeStream

LEMMA Step ==
  ASSUME Invariant, Uses = {}, [DtdNext]_dtdVars
  PROVE  Invariant' /\ Stable
<1> DEFINE Kept == Ownership' /\ Stable
           Calls == \/ NewDocument \/ GetInternalSubset \/ SetInternalSubset \/ DeleteDocument
                    \/ NewDtd \/ NewParsedDtd \/ OwnXmlDtd
                    \/ \E own \in BOOLEAN : WrapXmlDtd(own)
                    \/ \E x \in Dtds : FreeXmlDtd(x)
                    \/ \E o \in Objects : DeleteDtd(o) \/ ParseSubset(o)
                    \/ \E o \in Objects, own \in BOOLEAN : SetDtd(o, own)
                    \/ ParseIntoValidator \/ DeleteValidator
           Streaming == \/ \E o \in Objects, n \in 0..Length : ParseStream(o, n)
                        \/ OnRead \/ ParsedStream \/ StreamParseError
<1>0. Ownership /\ StreamGood /\ WholeStream
  BY DEF Invariant
<1>1. ASSUME NewDocument \/ GetInternalSubset \/ SetInternalSubset \/ DeleteDocument PROVE Kept
  BY <1>0, <1>1, DocumentSteps, DocumentStable
<1>2. ASSUME NewDtd \/ NewParsedDtd \/ OwnXmlDtd PROVE Kept
  BY <1>0, <1>2, CallerSteps, KeptIsStable
<1>3. ASSUME NEW own \in BOOLEAN, WrapXmlDtd(own) PROVE Kept
  BY <1>0, <1>3, WrapStep, KeptIsStable
<1>4. ASSUME NEW x \in Dtds, FreeXmlDtd(x) PROVE Kept
  BY <1>0, <1>4, FreeStep, KeptIsStable
<1>5. ASSUME NEW o \in Objects, DeleteDtd(o) PROVE Kept
  BY <1>0, <1>5, DeleteStep, KeptIsStable
<1>6. ASSUME NEW o \in Objects, ParseSubset(o) PROVE Kept
  BY <1>0, <1>6, ParseStep, KeptIsStable
<1>7. ASSUME NEW o \in Objects, NEW own \in BOOLEAN, SetDtd(o, own) PROVE Kept
  BY <1>0, <1>7, SetStep, KeptIsStable
<1>8. ASSUME ParseIntoValidator PROVE Kept
  BY <1>0, <1>8, ParseIntoStep, KeptIsStable
<1>9. ASSUME DeleteValidator PROVE Kept
  BY <1>0, <1>9, DeleteValidatorStep, KeptIsStable
<1>10. CASE Calls
  <2>1. Kept
    <3> HIDE DEF Kept
    <3> QED BY <1>1, <1>2, <1>3, <1>4, <1>5, <1>6, <1>7, <1>8, <1>9, <1>10 DEF Kept
  <2>2. stream = NULL /\ stream' = NULL
    BY <1>10 DEF NewDocument, GetInternalSubset, SetInternalSubset, DeleteDocument, NewDtd,
       NewParsedDtd, OwnXmlDtd, WrapXmlDtd, FreeXmlDtd, DeleteDtd, ParseSubset, SetDtd,
       ParseIntoValidator, DeleteValidator, Idle
  <2> QED BY <2>1, <2>2 DEF Invariant, StreamGood, WholeStream
<1>11. ASSUME NEW o \in Objects, NEW n \in 0..Length, ParseStream(o, n) PROVE Invariant' /\ Stable
  BY <1>0, <1>11, StartStream, KeptIsStable DEF Invariant
<1>12. CASE OnRead
  BY <1>0, <1>12, ReadStep, KeptIsStable DEF Invariant
<1>13. CASE ParsedStream \/ StreamParseError
  BY <1>0, <1>13, StreamEnds, KeptIsStable DEF Invariant
<1>14. CASE UNCHANGED dtdVars
  BY <1>0, <1>14 DEF dtdVars, Invariant, Ownership, StreamGood, WholeStream, Types, InOrder, XmlDtdsOwned,
     ObjectsOwned, OfDocument, OfValidator, OfCaller, Stable, DocumentsDtd
<1>15. Calls \/ Streaming \/ UNCHANGED dtdVars
  BY DEF DtdNext
<1> HIDE DEF Calls
<1> QED BY <1>10, <1>11, <1>12, <1>13, <1>14, <1>15

\* What the inductive invariant says of the properties.
LEMMA InvariantImplies == Invariant => DtdInv /\ OneOwner /\ WholeStream
<1> SUFFICES ASSUME Invariant PROVE DtdInv /\ OneOwner
  BY DEF Invariant
<1> USE DEF Invariant, Ownership
<1>1. DtdTypeOK
  BY DEF DtdTypeOK, Types, InOrder, StreamGood
<1>2. LinksAgree
  BY DEF LinksAgree, Types, InOrder, StreamGood
<1>3. DtdInv
  BY <1>1, <1>2 DEF DtdInv, Types, InOrder
<1>4. XmlDtdOwnership
  <2> SUFFICES ASSUME NEW x \in Dtds
               PROVE  IF heap.private[x] = "free" THEN Owners(x) = {} ELSE ExactlyOne(Owners(x))
    BY DEF XmlDtdOwnership
  <2> DEFINE Os == {o \in heap.live : heap.isOwner[o] /\ heap.dtd[o] = x}
  <2>1. Os = IF Owned(heap, x) THEN {heap.private[x]} ELSE {}
    BY InOrderTypes DEF InOrder, Owned
  <2>2. Owners(x) = (IF x = document.intSubset THEN {"document"} ELSE {})
                      \cup (IF x \in caller.dtds THEN {"caller"} ELSE {}) \cup Os
    BY DEF Owners
  <2> HIDE DEF Os
  <2>3. /\ x = document.intSubset \/ x \in caller.dtds => heap.private[x] # "free" /\ ~Owned(heap, x)
        /\ ~(x = document.intSubset /\ x \in caller.dtds)
        /\ heap.private[x] # "free" => x = document.intSubset \/ x \in caller.dtds \/ Owned(heap, x)
        /\ Owned(heap, x) => heap.private[x] # "free"
    BY DEF XmlDtdsOwned, Owned
  <2>4. CASE heap.private[x] = "free"
    BY <2>1, <2>2, <2>3, <2>4
  <2>5. CASE x = document.intSubset
    BY <2>1, <2>2, <2>3, <2>5 DEF ExactlyOne
  <2>6. CASE x \in caller.dtds
    BY <2>1, <2>2, <2>3, <2>6 DEF ExactlyOne
  <2>7. CASE Owned(heap, x)
    BY <2>1, <2>2, <2>3, <2>7 DEF ExactlyOne
  <2> QED BY <2>3, <2>4, <2>5, <2>6, <2>7
<1>5. DtdDeletion
  <2> SUFFICES ASSUME NEW o \in Objects
               PROVE  IF o \in heap.live THEN ExactlyOne(Deleters(o)) ELSE Deleters(o) = {}
    BY DEF DtdDeletion
  <2>1. Deleters(o) = (IF OfCaller(o) THEN {"caller"} ELSE {})
                        \cup (IF OfValidator(o) THEN {"validator"} ELSE {})
                        \cup (IF OfDocument(o) THEN {"document"} ELSE {})
    <3>1. o = DocumentsDtd(heap) <=> OfDocument(o)
      BY DEF DocumentsDtd, OfDocument
    <3>2. o = validator.dtd /\ validator.isOwner <=> OfValidator(o)
      BY DEF OfValidator
    <3>3. o \in caller.objects <=> OfCaller(o)
      BY DEF OfCaller
    <3> QED BY <3>1, <3>2, <3>3 DEF Deleters
  <2>2. /\ OfDocument(o) => ~OfValidator(o) /\ ~OfCaller(o)
        /\ OfValidator(o) => ~OfCaller(o)
        /\ o \in heap.live <=> OfDocument(o) \/ OfValidator(o) \/ OfCaller(o)
    BY DEF ObjectsOwned
  <2> QED BY <2>1, <2>2 DEF ExactlyOne
<1> QED BY <1>3, <1>4, <1>5 DEF OneOwner

\* The inductive invariant: ownership and links, and what has been read of a stream.
THEOREM Invariance == ASSUME Uses = {} PROVE DtdSpec => []Invariant
<1>1. DtdInit => Invariant
  BY InitOwnership DEF Invariant
<1>2. Invariant /\ [DtdNext]_dtdVars => Invariant'
  BY Step
<1> QED BY <1>1, <1>2, PTL DEF DtdSpec

\* Links between Dtds and xmlDtds agree at all times (Dtd::Dtd, Dtd::release_underlying).
THEOREM DtdInvHolds == ASSUME Uses = {} PROVE DtdSpec => []DtdInv
BY Invariance, InvariantImplies, PTL

\* Every Dtd and every xmlDtd has exactly one owner, whoever makes, parses, shares, gives away
\* and deletes them, and whichever parse fails (DtdValidator::set_dtd, Dtd::parse_subset).
THEOREM OneOwnerHolds == ASSUME Uses = {} PROVE DtdSpec => []OneOwner
BY Invariance, InvariantImplies, PTL

\* Of a stream of any length, read in pieces of any size, nothing is lost
\* (IStreamParserInputBuffer::do_read).
THEOREM WholeStreamHolds == ASSUME Uses = {} PROVE DtdSpec => []WholeStream
BY Invariance, InvariantImplies, PTL

\* A document keeps its Dtd (Document::get_internal_subset).
THEOREM StableSubsetHolds == ASSUME Uses = {} PROVE DtdSpec => StableSubset
<1>1. Invariant /\ [DtdNext]_dtdVars => [Stable]_dtdVars
  BY Step
<1> QED BY <1>1, Invariance, PTL DEF DtdSpec, StableSubset, Stable

=============================================================================
