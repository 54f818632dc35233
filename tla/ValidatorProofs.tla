--------------------------- MODULE ValidatorProofs ---------------------------
(* Proofs about Validator, for every set of schema objects and addresses.  *)
EXTENDS Validator, TLAPS

USE SchemasAssumption

(***************************************************************************)
(* Ownership, whatever the caller does and whatever handlers throw.        *)
(***************************************************************************)
OwnershipInv == ValidatorTypeOK /\ SchemaOwnership /\ UnderlyingOwnership

LEMMA EmptyType ==
  /\ \A free \in SUBSET Underlying : Empty \in Impls(free)
  /\ Held(Empty) = {}
  BY DEF Empty, Impls, Held

\* What a schema object can wrap is of libxml2's addresses.
LEMMA HeldType ==
  ASSUME NEW free \in SUBSET Underlying, NEW p \in Impls(free)
  PROVE  Held(p) \subseteq free /\ p \in Impls(Underlying)
  BY DEF Impls, Held

\* One object of a family that shares nothing is made to wrap p, whose parts are free, and the
\* objects in `gone` are given up: still nothing is shared, lost or freed twice.
LEMMA OneHolder ==
  ASSUME OwnershipInv,
         NEW gone \in SUBSET objects, NEW s \in Schemas \cup {NULL}, NEW p \in Impls(Underlying),
         s \notin gone, s = NULL => p = Empty,
         \A x \in objects \ gone : x # s => Held(impl[x]) \cap Held(p) = {},
         objects' = (objects \ gone) \cup ({s} \ {NULL}),
         \A x \in Schemas : impl'[x] = IF x = s THEN p ELSE IF x \in gone THEN Empty ELSE impl[x],
         NEW freed, underlying' = (underlying \ freed) \cup Held(p),
         \A x \in gone : Held(impl[x]) \subseteq freed,
         s \in objects /\ impl[s] # p => Held(impl[s]) \subseteq freed,
         \A x \in objects \ gone : x # s => Held(impl[x]) \cap freed = {}
  PROVE  underlying' \subseteq Underlying /\ UnderlyingOwnership'
  <1> USE DEF OwnershipInv, ValidatorTypeOK
  <1>2. Held(p) \subseteq Underlying
    BY HeldType
  <1>3. underlying' \subseteq Underlying
    BY <1>2
  <1>4. \A x \in objects' : x \in Schemas
    BY DEF SchemaOwnership
  <1>5. \A x \in objects' : \/ x = s /\ impl'[x] = p
                            \/ x # s /\ x \in objects \ gone /\ impl'[x] = impl[x]
    BY <1>4
  <1>6. underlying' = UNION {Held(impl'[x]) : x \in objects'}
    <2>1. ASSUME NEW v \in underlying' PROVE \E x \in objects' : v \in Held(impl'[x])
      <3>1. CASE v \in Held(p)
        <4>1. s # NULL
          BY <3>1, EmptyType
        <4>2. s \in objects' /\ impl'[s] = p
          BY <4>1
        <4> QED
          BY <3>1, <4>2
      <3>2. CASE v \in underlying \ freed
        <4>1. PICK x \in objects : v \in Held(impl[x])
          BY <3>2 DEF UnderlyingOwnership
        <4>2. x \notin gone
          BY <4>1, <3>2
        <4>3. CASE x = s
          <5>1. impl[s] = p
            BY <4>1, <4>3, <3>2
          <5> QED
            BY <3>1, <4>1, <4>3, <5>1
        <4>4. CASE x # s
          BY <4>1, <4>2, <4>4
        <4> QED
          BY <4>3, <4>4
      <3> QED
        BY <2>1, <3>1, <3>2
    <2>2. ASSUME NEW x \in objects', NEW v \in Held(impl'[x]) PROVE v \in underlying'
      <3>1. CASE x = s
        BY <3>1, <2>2, <1>5
      <3>2. CASE x # s
        <4>1. x \in objects \ gone /\ impl'[x] = impl[x]
          BY <3>2, <1>5
        <4>2. v \in underlying
          BY <4>1, <2>2 DEF UnderlyingOwnership
        <4>3. v \notin freed
          BY <4>1, <2>2, <3>2
        <4> QED
          BY <4>2, <4>3
      <3> QED
        BY <3>1, <3>2
    <2> QED
      BY <2>1, <2>2
  <1>7. \A x \in Schemas \ objects' : impl'[x] = Empty
    BY DEF UnderlyingOwnership
  <1>8. \A x, y \in objects' : x # y => Held(impl'[x]) \cap Held(impl'[y]) = {}
    <2>1. SUFFICES ASSUME NEW x \in objects', NEW y \in objects', x # y
                   PROVE  Held(impl'[x]) \cap Held(impl'[y]) = {}
      OBVIOUS
    <2>2. CASE x # s /\ y # s
      BY <2>1, <2>2, <1>5 DEF UnderlyingOwnership
    <2>3. CASE x = s \/ y = s
      BY <2>1, <2>3, <1>5
    <2> QED
      BY <2>2, <2>3
  <1> QED
    BY <1>3, <1>6, <1>7, <1>8 DEF UnderlyingOwnership

\* What a validator does to its schema keeps every owner unique: it refers to an object that
\* it lets the caller keep, or takes over, or has made itself around something new.
LEMMA ReplaceKeepsOwnership ==
  ASSUME OwnershipInv,
         NEW s \in Schemas \cup {NULL}, NEW p \in Impls(Underlying), NEW own \in BOOLEAN,
         \/ s \in callers /\ p = impl[s]
         \/ s \in Schemas \ objects /\ p \in Impls(Free) /\ own
         \/ s = NULL /\ p = Empty,
         s # NULL => alive',
         Replace(s, p),
         is_schema_owner' = own \/ s = NULL, is_schema_owner' \in BOOLEAN,
         callers' = IF own THEN callers \ {s} ELSE callers
  PROVE  /\ objects' \subseteq Schemas /\ callers' \subseteq Schemas
         /\ impl' \in [Schemas -> Impls(Underlying)] /\ underlying' \subseteq Underlying
         /\ schema' \in Schemas \cup {NULL} /\ context' \in Context
         /\ SchemaOwnership' /\ UnderlyingOwnership'
  <1> USE DEF OwnershipInv, ValidatorTypeOK
  <1>0. Released = Owned
    BY DEF Released, Owned
  <1>1. /\ objects' \subseteq Schemas /\ callers' \subseteq Schemas
        /\ schema' \in Schemas \cup {NULL} /\ context' \in Context
    BY DEF Replace, Released, NoContext, Context
  <1>2. s \notin Released
    BY <1>0 DEF SchemaOwnership, Owned
  <1>3. SchemaOwnership'
    BY <1>0, <1>2 DEF SchemaOwnership, Owned, Replace
  <1>4. Released \subseteq objects
    BY <1>0 DEF SchemaOwnership, Owned
  <1>5. \A x \in objects \ Released : x # s => Held(impl[x]) \cap Held(p) = {}
    <2>1. CASE s \in callers /\ p = impl[s]
      BY <2>1 DEF UnderlyingOwnership, SchemaOwnership
    <2>2. CASE p \in Impls(Free)
      <3>1. Held(p) \subseteq Free
        BY <2>2, HeldType DEF Free
      <3>2. \A x \in objects : Held(impl[x]) \subseteq underlying
        BY DEF UnderlyingOwnership
      <3> QED
        BY <3>1, <3>2 DEF Free
    <2>3. CASE p = Empty
      BY <2>3, EmptyType
    <2> QED
      BY <2>1, <2>2, <2>3
  <1>6. s \in objects => impl[s] = p
    BY DEF SchemaOwnership
  <1>7. /\ impl' \in [Schemas -> Impls(Underlying)] /\ underlying' \subseteq Underlying
        /\ UnderlyingOwnership'
    <2> DEFINE freed == UNION {Held(impl[x]) : x \in Released}
    <2>1. /\ \A x \in Released : Held(impl[x]) \subseteq freed
          /\ s \in objects /\ impl[s] # p => Held(impl[s]) \subseteq freed
          /\ \A x \in objects \ Released : x # s => Held(impl[x]) \cap freed = {}
      BY <1>4, <1>6 DEF UnderlyingOwnership
    <2>2. /\ objects' = (objects \ Released) \cup ({s} \ {NULL})
          /\ \A x \in Schemas : impl'[x] = IF x = s THEN p ELSE IF x \in Released THEN Empty ELSE impl[x]
          /\ underlying' = (underlying \ freed) \cup Held(p)
      BY DEF Replace
    <2>3. Released \in SUBSET objects /\ (s = NULL => p = Empty)
      BY <1>4
    <2>4. impl' \in [Schemas -> Impls(Underlying)]
      BY EmptyType DEF Replace
    <2> HIDE DEF freed
    <2> QED
      BY <1>2, <1>5, <2>1, <2>2, <2>3, <2>4, OneHolder
  <1> QED
    BY <1>1, <1>3, <1>7

LEMMA OutcomeType == \A k \in Outcomes : Outcome(k) \in Result
  BY DEF Outcome, Result

LEMMA NowType == \A subject \in Subjects : Now(subject) \subseteq Notes
  BY DEF Now, Notes

LEMMA NoContextType == NoContext \in Context
  BY DEF NoContext, Context

LEMMA InitOwnership == Init => OwnershipInv
  <1> SUFFICES ASSUME Init PROVE OwnershipInv
    OBVIOUS
  <1>1. result \in Result /\ context \in Context
    BY OutcomeType, NoContextType DEF Init, Outcomes
  <1>2. ValidatorTypeOK
    BY <1>1, EmptyType DEF Init, ValidatorTypeOK
  <1>3. SchemaOwnership
    BY DEF Init, SchemaOwnership, Owned
  <1>4. UnderlyingOwnership
    BY DEF Init, UnderlyingOwnership
  <1> QED
    BY <1>2, <1>3, <1>4 DEF OwnershipInv

\* How a call other than validate() ends is of the right type.
LEMMA EndsType ==
  ASSUME ValidatorTypeOK, NEW k \in Outcomes, Ends(k)
  PROVE  /\ pc' \in {"user", "validating"} /\ result' \in Result /\ invalid' \in BOOLEAN
         /\ reported' \subseteq {"error", "warning"} /\ lastThrown' \subseteq HandlerExc
  BY DEF ValidatorTypeOK, Ends, Outcome, Result

\* Nothing that ownership is about changes.
LEMMA SameOwnership ==
  ASSUME SchemaOwnership, UnderlyingOwnership, UNCHANGED schemaVars, UNCHANGED <<schema, is_schema_owner>>,
         alive => alive'
  PROVE  SchemaOwnership' /\ UnderlyingOwnership'
  BY DEF SchemaOwnership, UnderlyingOwnership, Owned, schemaVars

\* A schema object that exists wraps something else, or nothing: parse_*() and deletion.
LEMMA WrapKeepsOwnership ==
  ASSUME OwnershipInv, NEW s \in objects, NEW p \in Impls(FreeFor(s)), Wrap(s, p),
         \/ UNCHANGED objects
         \/ p = Empty /\ objects' = objects \ {s}
  PROVE  /\ impl' \in [Schemas -> Impls(Underlying)] /\ underlying' \subseteq Underlying
         /\ UnderlyingOwnership'
  <1> USE DEF OwnershipInv, ValidatorTypeOK
  <1>1. s \in Schemas /\ impl[s] \in Impls(Underlying)
    OBVIOUS
  <1>2. Held(impl[s]) \subseteq underlying
    BY DEF UnderlyingOwnership
  <1>3. FreeFor(s) \subseteq Underlying
    BY <1>2 DEF FreeFor, Free
  <1>4. Held(p) \subseteq FreeFor(s) /\ p \in Impls(Underlying)
    BY <1>3, HeldType
  <1>5. \A x \in objects : x # s => Held(impl[x]) \cap Held(p) = {}
    BY <1>4 DEF UnderlyingOwnership, FreeFor, Free
  <1>6. impl' \in [Schemas -> Impls(Underlying)] /\ \A x \in Schemas : impl'[x] = IF x = s THEN p ELSE impl[x]
    BY <1>4 DEF Wrap
  <1>7. underlying' = (underlying \ Held(impl[s])) \cup Held(p)
    BY DEF Wrap
  <1>8. CASE UNCHANGED objects
    <2>1. ASSUME NEW v \in underlying' PROVE \E x \in objects' : v \in Held(impl'[x])
      <3>1. CASE v \in Held(p)
        BY <1>1, <1>6, <1>8, <3>1
      <3>2. CASE v \in underlying \ Held(impl[s])
        <4>1. PICK x \in objects : v \in Held(impl[x])
          BY <3>2 DEF UnderlyingOwnership
        <4>2. x # s
          BY <3>2, <4>1
        <4> QED
          BY <1>6, <1>8, <4>1, <4>2
      <3> QED
        BY <1>7, <2>1, <3>1, <3>2
    <2>2. ASSUME NEW x \in objects', NEW v \in Held(impl'[x]) PROVE v \in underlying'
      <3>1. CASE x = s
        BY <1>1, <1>6, <1>7, <2>2, <3>1
      <3>2. CASE x # s
        BY <1>6, <1>7, <1>8, <2>2, <3>2 DEF UnderlyingOwnership
      <3> QED
        BY <3>1, <3>2
    <2>3. underlying' = UNION {Held(impl'[x]) : x \in objects'}
      BY <2>1, <2>2
    <2>4. \A x \in Schemas \ objects' : impl'[x] = Empty
      BY <1>6, <1>8 DEF UnderlyingOwnership
    <2>5. \A x, y \in objects' : x # y => Held(impl'[x]) \cap Held(impl'[y]) = {}
      <3>1. \A x \in objects : impl'[x] = IF x = s THEN p ELSE impl[x]
        BY <1>6
      <3> QED
        BY <1>5, <1>8, <3>1 DEF UnderlyingOwnership
    <2>6. underlying' \subseteq Underlying
      BY <1>3, <1>4, <1>7
    <2> QED
      BY <1>6, <2>3, <2>4, <2>5, <2>6 DEF UnderlyingOwnership
  <1>9. CASE p = Empty /\ objects' = objects \ {s}
    <2>1. underlying' = underlying \ Held(impl[s])
      BY <1>7, <1>9, EmptyType
    <2>2. \A x \in objects' : x \in objects /\ x # s /\ impl'[x] = impl[x]
      BY <1>6, <1>9
    <2>3. ASSUME NEW v \in underlying' PROVE \E x \in objects' : v \in Held(impl'[x])
      <3>1. PICK x \in objects : v \in Held(impl[x])
        BY <2>1, <2>3 DEF UnderlyingOwnership
      <3>2. x \in objects'
        BY <1>9, <2>1, <2>3, <3>1
      <3> QED
        BY <2>2, <3>1, <3>2
    <2>4. ASSUME NEW x \in objects', NEW v \in Held(impl'[x]) PROVE v \in underlying'
      BY <2>1, <2>2, <2>4 DEF UnderlyingOwnership
    <2>5. underlying' = UNION {Held(impl'[x]) : x \in objects'}
      BY <2>3, <2>4
    <2>6. \A x \in Schemas \ objects' : impl'[x] = Empty
      BY <1>6, <1>9 DEF UnderlyingOwnership
    <2>7. \A x, y \in objects' : x # y => Held(impl'[x]) \cap Held(impl'[y]) = {}
      BY <2>2 DEF UnderlyingOwnership
    <2> QED
      BY <1>6, <2>1, <2>5, <2>6, <2>7 DEF UnderlyingOwnership
  <1> QED
    BY <1>8, <1>9

\* A validator refers to a schema of the caller's, or to one that it has made.
LEMMA ReferKeepsOwnership ==
  ASSUME OwnershipInv, alive', OwnNew \/ \E s \in Schemas : ReferTo(s)
  PROVE  /\ objects' \subseteq Schemas /\ callers' \subseteq Schemas /\ is_schema_owner' \in BOOLEAN
         /\ impl' \in [Schemas -> Impls(Underlying)] /\ underlying' \subseteq Underlying
         /\ schema' \in Schemas \cup {NULL} /\ context' \in Context
         /\ SchemaOwnership' /\ UnderlyingOwnership'
  <1>1. CASE OwnNew
    <2>1. PICK s \in Schemas \ objects, p \in Parsed(Free) : Replace(s, p)
      BY <1>1 DEF OwnNew
    <2>2. p \in Impls(Free) /\ p \in Impls(Underlying)
      BY HeldType DEF Parsed, Free
    <2>3. callers' = callers \ {s} /\ is_schema_owner' = TRUE
      BY <1>1 DEF OwnNew, OwnershipInv, SchemaOwnership
    <2> QED
      BY <2>1, <2>2, <2>3, ReplaceKeepsOwnership
  <1>2. ASSUME NEW s \in Schemas, ReferTo(s) PROVE
         /\ objects' \subseteq Schemas /\ callers' \subseteq Schemas /\ is_schema_owner' \in BOOLEAN
         /\ impl' \in [Schemas -> Impls(Underlying)] /\ underlying' \subseteq Underlying
         /\ schema' \in Schemas \cup {NULL} /\ context' \in Context
         /\ SchemaOwnership' /\ UnderlyingOwnership'
    <2>1. PICK own \in BOOLEAN : /\ is_schema_owner' = own
                                 /\ callers' = IF own THEN callers \ {s} ELSE callers
      BY <1>2 DEF ReferTo
    <2>2. impl[s] \in Impls(Underlying) /\ s \in callers /\ Replace(s, impl[s])
      BY <1>2 DEF ReferTo, OwnershipInv, ValidatorTypeOK
    <2> QED
      BY <2>1, <2>2, ReplaceKeepsOwnership
  <1> QED
    BY <1>1, <1>2

LEMMA OwnershipStep ==
  ASSUME NoParserContext \notin Uses
  PROVE  OwnershipInv /\ [Next]_vars => OwnershipInv'
  <1> SUFFICES ASSUME OwnershipInv, [Next]_vars PROVE OwnershipInv'
    OBVIOUS
  <1>0. ValidatorTypeOK /\ SchemaOwnership /\ UnderlyingOwnership
    BY DEF OwnershipInv
  <1> USE DEF schemaVars, validatorVars, messageVars, callVars
  <1>1. CASE NewSchema
    <2>1. PICK s \in Schemas \ objects, p \in Parsed(Free) \cup {Empty} :
            /\ objects' = objects \cup {s} /\ callers' = callers \cup {s}
            /\ impl' = [impl EXCEPT ![s] = p]
            /\ underlying' = underlying \cup Held(p)
      BY <1>1 DEF NewSchema
    <2>2. UNCHANGED <<kind, validatorVars, messageVars>> /\ Ends("returns")
      BY <1>1 DEF NewSchema
    <2>3. p \in Impls(Underlying) /\ Held(p) \subseteq Free
      BY HeldType, EmptyType DEF Parsed, Free
    <2>4. /\ impl' \in [Schemas -> Impls(Underlying)] /\ underlying' \subseteq Underlying
          /\ UnderlyingOwnership'
      <3> DEFINE freed == {}
      <3>1. underlying' = (underlying \ freed) \cup Held(p)
        BY <2>1
      <3>2. /\ \A x \in {} : Held(impl[x]) \subseteq freed
            /\ s \in objects /\ impl[s] # p => Held(impl[s]) \subseteq freed
            /\ \A x \in objects \ {} : x # s => Held(impl[x]) \cap freed = {}
        OBVIOUS
      <3>3. objects' = (objects \ {}) \cup ({s} \ {NULL})
        BY <2>1
      <3>4. /\ impl' \in [Schemas -> Impls(Underlying)]
            /\ \A x \in Schemas : impl'[x] = IF x = s THEN p ELSE IF x \in {} THEN Empty ELSE impl[x]
        BY <1>0, <2>1, <2>3 DEF ValidatorTypeOK
      <3>5. s \in Schemas \cup {NULL} /\ s \notin {} /\ (s = NULL => p = Empty) /\ {} \in SUBSET objects
        OBVIOUS
      <3>6. \A x \in objects \ {} : x # s => Held(impl[x]) \cap Held(p) = {}
        BY <1>0, <2>3 DEF UnderlyingOwnership, Free
      <3> HIDE DEF freed
      <3> QED
        BY <2>3, <3>1, <3>2, <3>3, <3>4, <3>5, <3>6, OneHolder
    <2>5. SchemaOwnership'
      BY <1>0, <2>1, <2>2 DEF SchemaOwnership, Owned
    <2>6. ValidatorTypeOK'
      BY <1>0, <2>1, <2>2, <2>4, EndsType DEF ValidatorTypeOK, Outcomes
    <2> QED
      BY <2>4, <2>5, <2>6 DEF OwnershipInv
  <1>1a. CASE ParseFails
    <2>1. UNCHANGED <<schemaVars, validatorVars, messageVars>> /\ Ends("parse_error")
      BY <1>1a DEF ParseFails
    <2>2. ValidatorTypeOK'
      BY <1>0, <2>1, EndsType DEF ValidatorTypeOK, Outcomes
    <2> QED
      BY <1>0, <2>1, <2>2, SameOwnership DEF OwnershipInv
  <1>2. ASSUME NEW s \in Schemas, ParseSchema(s)
        PROVE  OwnershipInv'
    <2>1. s \in objects /\ UNCHANGED <<kind, objects, callers, validatorVars, messageVars>>
      BY <1>2 DEF ParseSchema
    <2>2. PICK k \in {"parse_error", "returns"} : Ends(k)
      BY <1>2 DEF ParseSchema, ParseDtd, ParseXsd, ParseRelaxNG, ParseAnew, NoDocument
    <2>3. (\E p \in Impls(FreeFor(s)) : Wrap(s, p)) \/ UNCHANGED <<impl, underlying>>
      <3>1. Empty \in Impls(FreeFor(s)) /\ \A p \in Parsed(FreeFor(s)) : p \in Impls(FreeFor(s))
        BY DEF Parsed, Impls, Empty
      <3>2. \A d \in FreeFor(s) : [Empty EXCEPT !.document = d] \in Impls(FreeFor(s))
        <4>1. ASSUME NEW d \in FreeFor(s) PROVE [Empty EXCEPT !.document = d] \in Impls(FreeFor(s))
          <5>1. [Empty EXCEPT !.document = d] = [schema |-> NULL, document |-> d]
            BY DEF Empty
          <5> QED
            BY <5>1 DEF Impls
        <4> QED
          BY <4>1
      <3> QED
        BY <1>2, <3>1, <3>2 DEF ParseSchema, ParseDtd, ParseXsd, ParseRelaxNG, ParseAnew, NoDocument
    <2>4. /\ impl' \in [Schemas -> Impls(Underlying)] /\ underlying' \subseteq Underlying
          /\ UnderlyingOwnership'
      <3>1. CASE UNCHANGED <<impl, underlying>>
        BY <1>0, <2>1, <3>1 DEF UnderlyingOwnership, ValidatorTypeOK
      <3>2. CASE \E p \in Impls(FreeFor(s)) : Wrap(s, p)
        BY <2>1, <3>2, WrapKeepsOwnership
      <3> QED
        BY <2>3, <3>1, <3>2
    <2>5. ValidatorTypeOK'
      BY <1>0, <2>1, <2>2, <2>4, EndsType DEF ValidatorTypeOK, Outcomes
    <2>6. SchemaOwnership'
      BY <1>0, <2>1 DEF SchemaOwnership, Owned
    <2> QED
      BY <2>4, <2>5, <2>6 DEF OwnershipInv
  <1>3. ASSUME NEW s \in Schemas, DeleteSchema(s)
        PROVE  OwnershipInv'
    <2>2. /\ s \in callers /\ schema # s /\ objects' = objects \ {s} /\ callers' = callers \ {s}
          /\ Wrap(s, Empty) /\ Ends("returns") /\ UNCHANGED <<kind, validatorVars, messageVars>>
      BY <1>3 DEF DeleteSchema
    <2>3. s \in objects /\ Empty \in Impls(FreeFor(s))
      BY <1>0, <2>2 DEF SchemaOwnership, Impls, Empty
    <2>4. /\ impl' \in [Schemas -> Impls(Underlying)] /\ underlying' \subseteq Underlying
          /\ UnderlyingOwnership'
      BY <2>2, <2>3, WrapKeepsOwnership
    <2>5. ValidatorTypeOK'
      BY <1>0, <2>2, <2>4, EndsType DEF ValidatorTypeOK, Outcomes
    <2>6. SchemaOwnership'
      BY <1>0, <2>2 DEF SchemaOwnership, Owned
    <2> QED
      BY <2>4, <2>5, <2>6 DEF OwnershipInv
  <1>4. CASE Construct
    <2>1. /\ ~alive /\ alive' = TRUE /\ is_schema_owner' = FALSE
          /\ exception_' = {} /\ validate_error_' = {} /\ validate_warning_' = {}
          /\ Ends("returns") /\ UNCHANGED <<schemaVars, schema, context>>
      BY <1>4 DEF Construct, NoMessages
    <2>2. ValidatorTypeOK'
      BY <1>0, <2>1, EndsType DEF ValidatorTypeOK, Outcomes
    <2>3. schema = NULL
      BY <1>0, <2>1 DEF SchemaOwnership
    <2>4. SchemaOwnership' /\ UnderlyingOwnership'
      BY <1>0, <2>1, <2>3 DEF SchemaOwnership, UnderlyingOwnership, Owned
    <2> QED
      BY <2>2, <2>4 DEF OwnershipInv
  <1>5. ASSUME OwnNew \/ \E s \in Schemas : ReferTo(s), alive' = TRUE,
               NoMessages \/ UNCHANGED messageVars, Ends("returns"), UNCHANGED kind
        PROVE  OwnershipInv'
    <2>1. /\ objects' \subseteq Schemas /\ callers' \subseteq Schemas /\ is_schema_owner' \in BOOLEAN
          /\ impl' \in [Schemas -> Impls(Underlying)] /\ underlying' \subseteq Underlying
          /\ schema' \in Schemas \cup {NULL} /\ context' \in Context
          /\ SchemaOwnership' /\ UnderlyingOwnership'
      BY <1>5, ReferKeepsOwnership
    <2>2. ValidatorTypeOK'
      BY <1>0, <1>5, <2>1, EndsType DEF ValidatorTypeOK, Outcomes, NoMessages
    <2> QED
      BY <2>1, <2>2 DEF OwnershipInv
  <1>6. CASE ConstructWithSchema \/ ParseIntoValidator \/ \E s \in Schemas : SetSchema(s)
    <2>1. alive' = TRUE
      BY <1>0, <1>6 DEF ConstructWithSchema, ParseIntoValidator, SetSchema, ValidatorTypeOK
    <2> QED
      BY <1>5, <1>6, <2>1 DEF ConstructWithSchema, ParseIntoValidator, SetSchema
  <1>7. CASE Destroy
    <2>1. /\ alive' = FALSE /\ Replace(NULL, Empty) /\ Ends("returns")
          /\ UNCHANGED <<kind, callers, is_schema_owner, messageVars>>
      BY <1>7 DEF Destroy
    <2>2. /\ objects' \subseteq Schemas /\ callers' \subseteq Schemas
          /\ impl' \in [Schemas -> Impls(Underlying)] /\ underlying' \subseteq Underlying
          /\ schema' \in Schemas \cup {NULL} /\ context' \in Context
          /\ SchemaOwnership' /\ UnderlyingOwnership'
      <3>1. is_schema_owner' \in BOOLEAN /\ Empty \in Impls(Underlying)
        BY <1>0, <2>1, EmptyType DEF ValidatorTypeOK
      <3>2. callers' = IF FALSE THEN callers \ {NULL} ELSE callers
        BY <2>1
      <3> QED
        BY <2>1, <3>1, <3>2, ReplaceKeepsOwnership
    <2>3. ValidatorTypeOK'
      BY <1>0, <2>1, <2>2, EndsType DEF ValidatorTypeOK, Outcomes
    <2> QED
      BY <2>2, <2>3 DEF OwnershipInv
  <1>8. CASE RefuseToValidate
    <2>1. UNCHANGED <<schemaVars, validatorVars, messageVars>>
      BY <1>8 DEF RefuseToValidate
    <2>2. ValidatorTypeOK'
      BY <1>0, <1>8, EndsType DEF RefuseToValidate, ValidatorTypeOK, Outcomes
    <2> QED
      BY <1>0, <2>1, <2>2, SameOwnership DEF OwnershipInv
  <1>a. HasSchema => ContextToUse \in Context
    <2>1. HasSchema => schema \in Schemas /\ impl[schema] \in Impls(Underlying)
      BY <1>0 DEF HasSchema, ValidatorTypeOK
    <2> QED
      BY <1>0, <2>1 DEF ContextToUse, ValidatorTypeOK, Context, Impls
  <1>b. Aged(exception_) \subseteq Notes
    <2>1. \A note \in exception_ : note[1] \in Subjects
      BY <1>0 DEF ValidatorTypeOK, Notes
    <2> QED
      BY <2>1 DEF Aged, Notes
  <1>9. CASE StartValidation
    <2>1. ValidatorTypeOK'
      BY <1>0, <1>9, <1>a, <1>b DEF StartValidation, ValidatorTypeOK, InitializeContext
    <2>2. UNCHANGED <<schemaVars, schema, is_schema_owner, alive>>
      BY <1>9 DEF StartValidation
    <2> QED
      BY <1>0, <2>1, <2>2, SameOwnership DEF OwnershipInv
  <1>9a. CASE ValidateUnreadableFile
    <2>1. UNCHANGED <<schemaVars, schema, is_schema_owner, alive>>
      BY <1>9a DEF ValidateUnreadableFile
    <2>2. CASE Ends("parse_error") /\ UNCHANGED <<messageVars, context>>
      <3>1. ValidatorTypeOK'
        BY <1>0, <2>1, <2>2, EndsType DEF ValidatorTypeOK, Outcomes
      <3> QED
        BY <1>0, <2>1, <3>1, SameOwnership DEF OwnershipInv
    <2>3. CASE /\ HasSchema
               /\ context' = ContextToUse
               /\ result' = [kind |-> IF exception_ = {} THEN "validity_error" ELSE "handlers",
                             tells |-> Aged(exception_)]
               /\ NoMessages
               /\ invalid' = TRUE /\ reported' = {} /\ lastThrown' = {}
               /\ UNCHANGED pc
      <3>1. result' \in Result
        BY <1>b, <2>3 DEF Result, Outcomes
      <3>2. ValidatorTypeOK'
        BY <1>0, <1>a, <2>1, <2>3, <3>1 DEF ValidatorTypeOK, NoMessages
      <3> QED
        BY <1>0, <2>1, <3>2, SameOwnership DEF OwnershipInv
    <2> QED
      BY <1>9a, <2>2, <2>3 DEF ValidateUnreadableFile
  <1>10. CASE CallbackErrorOrWarning \/ Valid \/ Invalid
    <2>1. UNCHANGED <<schemaVars, validatorVars>>
      BY <1>10 DEF CallbackErrorOrWarning, Valid, Invalid
    <2>2. ValidatorTypeOK'
      <3>1. CASE CallbackErrorOrWarning
        <4>1. PICK subject \in {"error", "warning"} :
                Callback(subject) /\ (CollectMessage(subject) \/ HandlerThrows(subject))
          BY <3>1 DEF CallbackErrorOrWarning
        <4>2. UNCHANGED <<schemaVars, validatorVars, pc, result>> /\ invalid' \in BOOLEAN
          BY <1>0, <3>1, <4>1 DEF CallbackErrorOrWarning, Callback, ValidatorTypeOK
        <4>3. /\ Now("error") \subseteq Notes /\ Now("warning") \subseteq Notes
              /\ \A e \in HandlerExc : Now(e) \subseteq Notes
          BY NowType DEF Subjects
        <4>4. CASE CollectMessage(subject)
          BY <1>0, <4>2, <4>3, <4>4 DEF CollectMessage, ValidatorTypeOK
        <4>5. CASE HandlerThrows(subject)
          BY <1>0, <4>2, <4>3, <4>5 DEF HandlerThrows, ValidatorTypeOK
        <4> QED
          BY <4>1, <4>4, <4>5
      <3>3. CASE Valid
        <4>1. result' \in Result
          BY <3>3, OutcomeType DEF Valid, Outcomes
        <4> QED
          BY <1>0, <3>3, <4>1 DEF Valid, ValidatorTypeOK
      <3>4. CASE Invalid
        <4>1. exception_ \in SUBSET Notes /\ What \cup Messages \in SUBSET Notes
          BY <1>0 DEF Messages, What, ValidatorTypeOK
        <4>2. /\ \/ result' = [kind |-> "handlers", tells |-> exception_]
                 \/ result' = [kind |-> "validity_error", tells |-> What \cup Messages]
              /\ exception_' = {} /\ validate_error_' = {} /\ validate_warning_' = {}
              /\ pc' = "user"
              /\ UNCHANGED <<schemaVars, validatorVars, invalid, reported, lastThrown>>
          BY <3>4 DEF Invalid, CheckForException
        <4>3. "handlers" \in Outcomes /\ "validity_error" \in Outcomes
          BY DEF Outcomes
        <4>4. result' \in Result
          BY <4>1, <4>2, <4>3 DEF Result
        <4> QED
          BY <1>0, <4>2, <4>4 DEF ValidatorTypeOK
      <3> QED
        BY <1>10, <3>1, <3>3, <3>4
    <2> QED
      BY <1>0, <2>1, <2>2, SameOwnership DEF OwnershipInv
  <1>11. CASE UNCHANGED vars
    <2>1. ValidatorTypeOK'
      BY <1>0, <1>11 DEF vars, ValidatorTypeOK
    <2> QED
      BY <1>0, <1>11, <2>1, SameOwnership DEF vars, OwnershipInv
  <1> QED
    BY <1>1, <1>1a, <1>2, <1>3, <1>4, <1>6, <1>7, <1>8, <1>9, <1>9a, <1>10, <1>11 DEF Next

\* Every schema object has one owner, the caller or the validator, the validator's pointer
\* never dangles, and what libxml2 allocates for schemas is neither leaked nor freed twice
\* (set_schema, release_underlying), unless libxml2 has no memory for a parser context.
THEOREM OwnershipHolds ==
  ASSUME NoParserContext \notin Uses
  PROVE  Spec => []Ownership
  <1>1. OwnershipInv => Ownership
    BY DEF OwnershipInv, Ownership
  <1>2. OwnershipInv /\ [Next]_vars => OwnershipInv'
    BY OwnershipStep
  <1> QED
    BY <1>1, <1>2, InitOwnership, PTL DEF Spec

(***************************************************************************)
(* The context and the messages, as long as no schema is parsed again      *)
(* under a context and no handler of warnings throws.                      *)
(***************************************************************************)
CallInv == ContextGood /\ Pending /\ TellsOfThisCall /\ HidesOnlyReplaced

LEMMA InitCall == Init => CallInv
  <1> SUFFICES ASSUME Init PROVE CallInv
    OBVIOUS
  <1>1. ContextGood
    BY DEF Init, ContextGood, NoContext
  <1>2. Pending
    BY DEF Init, Pending
  <1>3. TellsOfThisCall /\ HidesOnlyReplaced
    BY DEF Init, TellsOfThisCall, HidesOnlyReplaced, Outcome
  <1> QED
    BY <1>1, <1>2, <1>3 DEF CallInv

\* A call other than validate() throws nothing that handlers have to do with.
LEMMA EndsCall ==
  ASSUME Pending, NEW k \in Outcomes \ {"validity_error", "handlers"},
         pc = "user", Ends(k), UNCHANGED messageVars \/ NoMessages
  PROVE  Pending' /\ TellsOfThisCall' /\ HidesOnlyReplaced'
  <1>1. result'.kind = k /\ result'.tells = {} /\ pc' = "user"
    BY DEF Ends, Outcome
  <1>2. Pending'
    BY <1>1 DEF Pending, messageVars, NoMessages
  <1> QED
    BY <1>1, <1>2 DEF TellsOfThisCall, HidesOnlyReplaced

\* What the context was created for is not touched.
LEMMA SameContext ==
  ASSUME ContextGood, UNCHANGED <<kind, validatorVars, pc>>, schema # NULL => impl'[schema] = impl[schema]
  PROVE  ContextGood'
  BY DEF ContextGood, validatorVars

\* A message is collected: the buffers hold what has been reported.
LEMMA ReportPends ==
  ASSUME Pending, pc = "validating", UNCHANGED <<pc, exception_, lastThrown>>,
         NEW subject, Messages' = Messages \cup Now(subject),
         reported' = reported \cup {subject},
         invalid => invalid', validate_error_' # validate_error_ => invalid'
  PROVE  Pending'
  <1>1. {note[1] : note \in Messages} = reported /\ {note[1] : note \in exception_} = lastThrown
    BY DEF Pending
  <1>2. <<subject, "now">>[1] = subject /\ <<subject, "now">>[2] = "now"
    OBVIOUS
  <1>3. {note[1] : note \in Messages'} = {note[1] : note \in Messages} \cup {subject}
    BY <1>2 DEF Now
  <1>4. \A note \in exception_' \cup Messages' : note[2] = "now"
    BY <1>2 DEF Pending, Now
  <1> QED
    BY <1>1, <1>3, <1>4 DEF Pending

\* A handler throws: its exception alone is pending.
LEMMA ThrowPends ==
  ASSUME Pending, pc = "validating",
         UNCHANGED <<pc, validate_error_, validate_warning_, reported>>,
         NEW e, exception_' = Now(e), lastThrown' = {e}, invalid'
  PROVE  Pending'
  <1>1. <<e, "now">>[1] = e /\ <<e, "now">>[2] = "now"
    OBVIOUS
  <1>2. {note[1] : note \in exception_'} = lastThrown'
    BY <1>1 DEF Now
  <1>3. Messages' = Messages /\ \A note \in exception_' \cup Messages' : note[2] = "now"
    BY <1>1 DEF Pending, Now, Messages
  <1> QED
    BY <1>2, <1>3 DEF Pending

LEMMA CallStep ==
  ASSUME Uses \subseteq {NoParserContext}
  PROVE  OwnershipInv /\ CallInv /\ [Next]_vars => CallInv'
  <1> SUFFICES ASSUME OwnershipInv, CallInv, [Next]_vars PROVE CallInv'
    OBVIOUS
  <1>0. /\ ValidatorTypeOK /\ SchemaOwnership /\ UnderlyingOwnership
        /\ ContextGood /\ Pending /\ TellsOfThisCall /\ HidesOnlyReplaced
    BY DEF OwnershipInv, CallInv
  <1>u. Reparse \notin Uses /\ WarningHandlerThrows \notin Uses
    BY DEF Reparse, WarningHandlerThrows, NoParserContext
  <1> USE DEF schemaVars, validatorVars, messageVars, callVars
  <1>1. CASE NewSchema
    <2>1. pc = "user" /\ Ends("returns") /\ UNCHANGED <<kind, validatorVars, messageVars>>
      BY <1>1 DEF NewSchema
    <2>2. PICK s \in Schemas \ objects, p \in Parsed(Free) \cup {Empty} : impl' = [impl EXCEPT ![s] = p]
      BY <1>1 DEF NewSchema
    <2>3. schema # NULL => impl'[schema] = impl[schema]
      BY <1>0, <2>2 DEF ValidatorTypeOK, SchemaOwnership
    <2>4. ContextGood'
      BY <1>0, <2>1, <2>3, SameContext DEF Ends
    <2> QED
      BY <1>0, <2>1, <2>4, EndsCall DEF CallInv, Outcomes
  <1>1a. CASE ParseFails
    <2>1. pc = "user" /\ Ends("parse_error") /\ UNCHANGED <<kind, impl, validatorVars, messageVars>>
      BY <1>1a DEF ParseFails
    <2>2. ContextGood'
      BY <1>0, <2>1, SameContext DEF Ends
    <2> QED
      BY <1>0, <2>1, <2>2, EndsCall DEF CallInv, Outcomes
  <1>2. ASSUME NEW s \in Schemas, ParseSchema(s) \/ DeleteSchema(s)
        PROVE  CallInv'
    <2>1. pc = "user" /\ UNCHANGED <<kind, validatorVars, messageVars>>
      BY <1>2 DEF ParseSchema, DeleteSchema
    <2>2. PICK k \in {"parse_error", "returns"} : Ends(k)
      BY <1>2 DEF ParseSchema, ParseDtd, ParseXsd, ParseRelaxNG, ParseAnew, NoDocument, DeleteSchema
    <2>3. (\E p : Wrap(s, p)) \/ UNCHANGED impl
      BY <1>2 DEF ParseSchema, ParseDtd, ParseXsd, ParseRelaxNG, ParseAnew, NoDocument, DeleteSchema
    <2>4. ~ContextFor(s)
      BY <1>2, <1>u DEF ParseSchema, DeleteSchema, ContextFor
    <2>5. schema # NULL /\ schema # s => impl'[schema] = impl[schema]
      BY <1>0, <2>3 DEF ValidatorTypeOK, Wrap
    <2>6. ContextGood'
      BY <1>0, <2>1, <2>2, <2>4, <2>5 DEF ContextGood, ContextFor, Ends
    <2> QED
      BY <1>0, <2>1, <2>2, <2>6, EndsCall DEF CallInv, Outcomes
  <1>3. CASE Construct
    <2>1. pc = "user" /\ ~alive /\ Ends("returns") /\ UNCHANGED <<schemaVars, schema, context>> /\ NoMessages
      BY <1>3 DEF Construct
    <2>2. ContextGood'
      BY <1>0, <2>1 DEF ContextGood, Ends
    <2> QED
      BY <1>0, <2>1, <2>2, EndsCall DEF CallInv, Outcomes
  <1>4. ASSUME NEW s, NEW p, Replace(s, p), pc = "user", Ends("returns"), UNCHANGED messageVars \/ NoMessages
        PROVE  CallInv'
    <2>1. ContextGood'
      BY <1>4 DEF Replace, ContextGood, NoContext, Ends
    <2> QED
      BY <1>0, <1>4, <2>1, EndsCall DEF CallInv, Outcomes
  <1>5. CASE ConstructWithSchema \/ ParseIntoValidator \/ \E s \in Schemas : SetSchema(s)
    <2>1. pc = "user" /\ Ends("returns") /\ (UNCHANGED messageVars \/ NoMessages)
      BY <1>5 DEF ConstructWithSchema, ParseIntoValidator, SetSchema
    <2>2. \E s, p : Replace(s, p)
      BY <1>5 DEF ConstructWithSchema, ParseIntoValidator, SetSchema, OwnNew, ReferTo
    <2> QED
      BY <1>4, <2>1, <2>2
  <1>7. CASE Destroy
    BY <1>4, <1>7 DEF Destroy
  <1>8. CASE RefuseToValidate
    <2>1. pc = "user" /\ Ends("internal_error") /\ UNCHANGED <<schemaVars, validatorVars, messageVars>>
      BY <1>8 DEF RefuseToValidate
    <2>2. ContextGood'
      BY <1>0, <2>1, SameContext DEF Ends
    <2> QED
      BY <1>0, <2>1, <2>2, EndsCall DEF CallInv, Outcomes
  <1>8a. CASE ValidateUnreadableFile
    <2>1. pc = "user" /\ UNCHANGED <<schemaVars, schema>> /\ exception_ = {}
      BY <1>0, <1>8a DEF ValidateUnreadableFile, Pending
    <2>2. CASE Ends("parse_error") /\ UNCHANGED <<messageVars, context>>
      <3>1. ContextGood'
        BY <1>0, <2>1, <2>2 DEF ContextGood, Ends
      <3> QED
        BY <1>0, <2>1, <2>2, <3>1, EndsCall DEF CallInv, Outcomes
    <2>3. CASE /\ HasSchema
               /\ context' = ContextToUse
               /\ result' = [kind |-> IF exception_ = {} THEN "validity_error" ELSE "handlers",
                             tells |-> Aged(exception_)]
               /\ NoMessages
               /\ invalid' = TRUE /\ reported' = {} /\ lastThrown' = {}
               /\ UNCHANGED pc
      <3>1. ContextGood'
        BY <1>0, <2>1, <2>3 DEF ContextGood, ContextToUse, HasSchema
      <3>2. result'.tells = {}
        BY <2>1, <2>3 DEF Aged
      <3>3. Pending' /\ TellsOfThisCall' /\ HidesOnlyReplaced'
        BY <2>1, <2>3, <3>2 DEF Pending, TellsOfThisCall, HidesOnlyReplaced, NoMessages
      <3> QED
        BY <3>1, <3>3 DEF CallInv
    <2> QED
      BY <1>8a, <2>2, <2>3 DEF ValidateUnreadableFile
  <1>9. CASE StartValidation
    <2>1. /\ pc = "user" /\ HasSchema /\ context' = ContextToUse /\ pc' = "validating"
          /\ validate_error_' = {} /\ validate_warning_' = {} /\ exception_' = Aged(exception_)
          /\ reported' = {} /\ lastThrown' = {} /\ invalid' = FALSE
          /\ UNCHANGED <<schemaVars, schema, result>>
      BY <1>9 DEF StartValidation, InitializeContext
    <2>2. exception_' = {}
      BY <1>0, <2>1 DEF Pending, Aged
    <2>3. ContextGood'
      BY <1>0, <2>1 DEF ContextGood, ContextToUse, HasSchema
    <2>4. Pending'
      BY <2>1, <2>2 DEF Pending, Messages
    <2>5. TellsOfThisCall' /\ HidesOnlyReplaced'
      BY <1>0, <2>1 DEF TellsOfThisCall, HidesOnlyReplaced
    <2> QED
      BY <2>3, <2>4, <2>5 DEF CallInv
  <1>10. CASE CallbackErrorOrWarning
    <2>1. PICK subject \in {"error", "warning"} :
            Callback(subject) /\ (CollectMessage(subject) \/ HandlerThrows(subject))
      BY <1>10 DEF CallbackErrorOrWarning
    <2>2. /\ pc = "validating" /\ UNCHANGED <<schemaVars, validatorVars, pc, result>>
          /\ invalid' = (invalid \/ subject = "error")
      BY <1>10, <2>1 DEF CallbackErrorOrWarning, Callback, Validates
    <2>4. Pending'
      <3>1. CASE CollectMessage(subject)
        <4>1. CASE subject = "error"
          <5>1. Now("error") \cap Now("warning") = {}
            BY DEF Now
          <5>2. Messages' = Messages \cup Now("error") /\ exception_' = exception_ /\ invalid'
            BY <2>2, <3>1, <4>1, <5>1 DEF CollectMessage, Messages
          <5> QED
            BY <1>0, <2>2, <3>1, <4>1, <5>2, ReportPends DEF CollectMessage
        <4>2. CASE subject = "warning"
          <5>1. Now("error") \cap Now("warning") = {}
            BY DEF Now
          <5>2. /\ Messages' = Messages \cup Now("warning") /\ exception_' = exception_
                /\ validate_error_' = validate_error_ /\ invalid' = invalid
            BY <1>0, <2>2, <3>1, <4>2, <5>1 DEF CollectMessage, Messages, ValidatorTypeOK
          <5> QED
            BY <1>0, <2>2, <3>1, <4>2, <5>2, ReportPends DEF CollectMessage
        <4> QED
          BY <4>1, <4>2
      <3>2. CASE HandlerThrows(subject)
        <4>1. PICK e \in HandlerExc : exception_' = Now(e) /\ lastThrown' = {e}
          BY <3>2 DEF HandlerThrows
        <4>2. invalid' /\ UNCHANGED <<validate_error_, validate_warning_, reported>>
          BY <1>u, <2>1, <2>2, <3>2 DEF HandlerThrows
        <4> QED
          BY <1>0, <2>2, <4>1, <4>2, ThrowPends
      <3> QED
        BY <2>1, <3>1, <3>2
    <2>5. ContextGood' /\ TellsOfThisCall' /\ HidesOnlyReplaced'
      BY <1>0, <2>2 DEF ContextGood, TellsOfThisCall, HidesOnlyReplaced
    <2> QED
      BY <2>4, <2>5 DEF CallInv
  <1>12. CASE Valid
    <2>1. /\ ~invalid /\ result' = Outcome("returns") /\ pc = "validating" /\ pc' = "user"
          /\ UNCHANGED <<schemaVars, validatorVars, messageVars, invalid, reported, lastThrown>>
      BY <1>12 DEF Valid, Validates
    <2>2. exception_ = {} /\ validate_error_ = {}
      BY <1>0, <2>1 DEF Pending
    <2>3. Pending' /\ ContextGood'
      BY <1>0, <2>1, <2>2 DEF Pending, ContextGood
    <2>4. TellsOfThisCall' /\ HidesOnlyReplaced'
      BY <2>1 DEF TellsOfThisCall, HidesOnlyReplaced, Outcome
    <2> QED
      BY <2>3, <2>4 DEF CallInv
  <1>13. CASE Invalid
    <2>1. /\ pc = "validating" /\ pc' = "user" /\ exception_' = {} /\ validate_error_' = {}
          /\ UNCHANGED <<schemaVars, validatorVars, invalid, reported, lastThrown>>
          /\ result'.tells = IF exception_ # {} /\ Messages = {} THEN exception_
                             ELSE What \cup Messages
      BY <1>13 DEF Invalid, CheckForException
    <2>2. Pending' /\ ContextGood'
      BY <1>0, <2>1 DEF Pending, ContextGood
    <2>3. /\ {note[1] : note \in Messages} = reported
          /\ {note[1] : note \in exception_} = lastThrown
          /\ \A note \in exception_ \cup Messages : note[2] = "now"
      BY <1>0, <2>1 DEF Pending
    <2>4. TellsOfThisCall'
      BY <2>1, <2>3 DEF TellsOfThisCall, What
    <2>5. {note[1] : note \in What} = lastThrown \ ForeignExc
      BY <2>3 DEF What
    <2>6. Messages = {} <=> reported = {}
      BY <2>3
    <2>7. HidesOnlyReplaced'
      <3>1. CASE reported # {}
        <4>1. result'.tells = What \cup Messages
          BY <2>1, <2>6, <3>1
        <4>2. {note[1] : note \in What \cup Messages} = reported \cup (lastThrown \ ForeignExc)
          BY <2>3, <2>5
        <4> QED
          BY <2>1, <3>1, <4>1, <4>2 DEF HidesOnlyReplaced
      <3>2. CASE reported = {}
        <4>1. result'.tells = exception_
          BY <2>1, <2>6, <3>2 DEF What
        <4> QED
          BY <2>1, <2>3, <3>2, <4>1 DEF HidesOnlyReplaced
      <3> QED
        BY <3>1, <3>2
    <2> QED
      BY <2>2, <2>4, <2>7 DEF CallInv
  <1>14. CASE UNCHANGED vars
    <2>1. ContextGood' /\ Pending'
      BY <1>0, <1>14 DEF vars, ContextGood, Pending, Messages
    <2>2. TellsOfThisCall' /\ HidesOnlyReplaced'
      BY <1>0, <1>14 DEF vars, TellsOfThisCall, HidesOnlyReplaced
    <2> QED
      BY <2>1, <2>2 DEF CallInv
  <1> QED
    BY <1>1, <1>1a, <1>2, <1>3, <1>5, <1>7, <1>8, <1>8a, <1>9, <1>10, <1>12, <1>13, <1>14 DEF Next

\* The inductive invariant that the runs check, for every set of schemas.
THEOREM ValidatorInvHolds ==
  ASSUME Uses = {}
  PROVE  Spec => []ValidatorInv
  <1>1. OwnershipInv /\ CallInv => ValidatorInv
    BY DEF OwnershipInv, CallInv, ValidatorInv, Ownership, ThrowsOwnReport
  <1>2. OwnershipInv /\ [Next]_vars => OwnershipInv'
    BY OwnershipStep
  <1>3. OwnershipInv /\ CallInv /\ [Next]_vars => CallInv'
    BY CallStep
  <1> QED
    BY <1>1, <1>2, <1>3, InitOwnership, InitCall, PTL DEF Spec

\* libxml2 always validates with the schema that the validator has now
\* (the context that validate() keeps).
THEOREM ContextCurrentHolds ==
  ASSUME Uses = {}
  PROVE  Spec => []ContextCurrent
  <1>1. ValidatorInv => ContextCurrent
    BY DEF ValidatorInv, Ownership, ContextCurrent, ContextGood, UnderlyingOwnership, SchemaOwnership, Held
  <1> QED
    BY <1>1, ValidatorInvHolds, PTL

\* What a validate() throws tells of its own document only, of everything that was collected,
\* and of the last exception that a handler threw, unless that is a foreign one and there are
\* messages; of those that handlers threw before it nothing is told (handle_exception,
\* check_for_exception, initialize_context).
THEOREM ThrowsOwnReportHolds ==
  ASSUME Uses = {}
  PROVE  Spec => []ThrowsOwnReport
  <1>1. ValidatorInv => ThrowsOwnReport
    BY DEF ValidatorInv
  <1> QED
    BY <1>1, ValidatorInvHolds, PTL
=============================================================================
