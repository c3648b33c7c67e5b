--------------------- MODULE TransformationPipelineProofs ---------------------
(***************************************************************************)
(* The types of a call of TransformAsync, the columns of what it returns   *)
(* and its required fields, for any mappings, records and expressions.     *)
(***************************************************************************)
EXTENDS TransformationReference, FiniteSetTheorems, WellFoundedInduction, TLAPS

-----------------------------------------------------------------------------
(* OrderBy *)

\* A set of natural numbers that is not empty has a least element.
LEMMA LeastNumber ==
    ASSUME NEW S, S \subseteq Nat, S # {}
    PROVE  \E n \in S : \A m \in S : n <= m
<1>1. PICK n \in S : \A m \in S : ~ (<<m, n>> \in OpToRel(<, Nat))
    BY NatLessThanWellFounded, WFMin, Zenon
<1>2. \A m \in S : ~ (m < n)
    BY <1>1 DEF OpToRel
<1> QED
    BY <1>2

\* What FirstOf yields is an item not seen yet, of the least order, and the first in the
\* list of those that have it.
LEMMA FirstIsNext ==
    ASSUME NEW items, DOMAIN items \subseteq Nat, \A i \in DOMAIN items : items[i].order \in Nat,
           NEW seen, seen \subseteq DOMAIN items, seen # DOMAIN items
    PROVE  /\ FirstOf(items, seen) \in DOMAIN items \ seen
           /\ \A j \in DOMAIN items \ seen :
                 \/ items[FirstOf(items, seen)].order < items[j].order
                 \/ items[FirstOf(items, seen)].order = items[j].order /\ FirstOf(items, seen) <= j
<1> DEFINE rest == DOMAIN items \ seen
           orders == {items[i].order : i \in rest}
           Leads(i) == \A j \in rest : items[i].order < items[j].order
                                         \/ (items[i].order = items[j].order /\ i <= j)
<1>1. PICK n \in orders : \A m \in orders : n <= m
    <2>1. orders \subseteq Nat /\ orders # {}
        OBVIOUS
    <2> QED
        BY <2>1, LeastNumber
<1> DEFINE firsts == {i \in rest : items[i].order = n}
<1>2. PICK i \in firsts : \A j \in firsts : i <= j
    <2>1. firsts \subseteq Nat /\ firsts # {}
        BY <1>1
    <2> QED
        BY <2>1, LeastNumber
<1>3. i \in rest /\ Leads(i)
    <2>1. i \in rest /\ items[i].order = n
        BY <1>2
    <2>2. ASSUME NEW j \in rest
          PROVE  items[i].order < items[j].order \/ (items[i].order = items[j].order /\ i <= j)
        <3>1. n <= items[j].order
            BY <1>1
        <3>2. CASE items[j].order = n
            BY <1>2, <2>1, <3>2
        <3>3. CASE items[j].order # n
            BY <2>1, <3>1, <3>3
        <3> QED
            BY <3>2, <3>3
    <2> QED
        BY <2>1, <2>2
<1>4. FirstOf(items, seen) = CHOOSE k \in rest : Leads(k)
    BY DEF FirstOf
<1>5. FirstOf(items, seen) \in rest /\ Leads(FirstOf(items, seen))
    BY <1>3, <1>4, Zenon
<1> QED
    BY <1>5

\* A mapping in hand has its orders, and its steps have theirs.
LEMMA MappingTypes ==
    ASSUME TypeOK
    PROVE  /\ DOMAIN mappings \subseteq Nat
           /\ \A i \in DOMAIN mappings :
                 /\ mappings[i] \in FieldMapping
                 /\ mappings[i].order \in Nat
                 /\ DOMAIN mappings[i].steps \subseteq Nat
                 /\ \A k \in DOMAIN mappings[i].steps :
                       mappings[i].steps[k] \in TransformationStep /\ mappings[i].steps[k].order \in Nat
<1>1. DOMAIN mappings \subseteq Nat /\ \A i \in DOMAIN mappings : mappings[i] \in FieldMapping
    BY DEF TypeOK
<1>2. ASSUME NEW i \in DOMAIN mappings
      PROVE  /\ mappings[i].order \in Nat
             /\ mappings[i].steps \in Seq(TransformationStep)
    BY <1>1 DEF FieldMapping
<1>3. ASSUME NEW i \in DOMAIN mappings, NEW k \in DOMAIN mappings[i].steps
      PROVE  mappings[i].steps[k] \in TransformationStep /\ mappings[i].steps[k].order \in Nat
    <2>1. mappings[i].steps[k] \in TransformationStep
        BY <1>2, <1>3
    <2> QED
        BY <2>1 DEF TransformationStep
<1> QED
    BY <1>1, <1>2, <1>3

\* A step makes a value of a value, or throws.
LEMMA TransformedType ==
    ASSUME TypeOK, NEW step \in TransformationStep, NEW v \in Value
    PROVE  Transformed(step, v) \in Value \cup {Exception}
<1>1. ASSUME v \in Texts, NEW case \in {"mixed", "upper", "lower"}
      PROVE  [v EXCEPT !.case = case] \in Texts
    BY <1>1 DEF Texts
<1>2. v \in Texts => [v EXCEPT !.padded = FALSE] \in Texts
    BY DEF Texts
<1>3. FormatDate(v, step.parameter) \in Value \cup {Exception}
    BY PipelineAssumption DEF FormatDate, TransformationStep
<1>4. script[step.parameter][v] \in Value \cup {Exception}
    BY DEF TypeOK, TransformationStep
<1>5. Cased(v, "upper") \in Value /\ Cased(v, "lower") \in Value
    BY <1>1 DEF Cased, Value
<1> QED
    BY <1>2, <1>3, <1>4, <1>5 DEF Transformed, Value

-----------------------------------------------------------------------------
(* The invariant *)

\* The record so far has the columns of the mappings dealt with, and each of
\* its values was stored by one of them, past its required check.
ColumnsSoFar ==
    /\ DOMAIN record = {mappings[i].destination : i \in done}
    /\ \A c \in DOMAIN record : \E i \in done :
          mappings[i].destination = c /\ ~ Missing(mappings[i], record[c])

Invariant == TypeOK /\ ColumnsSoFar

\* A call starts with nothing done and an empty record.
LEMMA InitInvariant == Init => Invariant
<1> SUFFICES ASSUME Init PROVE Invariant
    OBVIOUS
<1>1. mappings \in Seq(FieldMapping) /\ row \in [Fields -> Value]
         /\ script \in [Parameters -> [Value -> Value \cup {Exception}]]
    BY PipelineAssumption DEF Init
<1>2. value \in Value
    BY DEF Init, Value
<1>3. DOMAIN record = {}
    BY DEF Init
<1>4. TypeOK
    BY <1>1, <1>2, <1>3 DEF Init, TypeOK
<1> QED
    BY <1>3, <1>4 DEF Init, Invariant, ColumnsSoFar

\* The value a mapping begins with.
LEMMA InitialType ==
    ASSUME TypeOK, NEW i \in DOMAIN mappings
    PROVE  InitialValue(mappings[i]) \in Value
<1>1. mappings[i] \in FieldMapping
    BY MappingTypes
<1>2. mappings[i].default \in Value /\ row[mappings[i].source] \in Value
    BY <1>1 DEF TypeOK, FieldMapping, Defaults, Value
<1> QED
    BY <1>2 DEF InitialValue

\* Taking up a mapping.
LEMMA BeginKeeps == ASSUME Invariant, BeginMapping PROVE Invariant'
<1>1. TypeOK /\ ColumnsSoFar
    BY DEF Invariant
<1>2. current' \in DOMAIN mappings \ done
    BY <1>1, MappingTypes, FirstIsNext DEF BeginMapping, TypeOK
<1>3. value' \in Value
    BY <1>1, <1>2, InitialType DEF BeginMapping
<1>4. TypeOK'
    BY <1>1, <1>2, <1>3 DEF BeginMapping, TypeOK
<1>5. ColumnsSoFar'
    BY <1>1 DEF BeginMapping, ColumnsSoFar, Missing
<1> QED
    BY <1>4, <1>5 DEF Invariant

\* One transformation.
LEMMA ApplyKeeps == ASSUME Invariant, ApplyTransformation PROVE Invariant'
<1>1. TypeOK /\ ColumnsSoFar
    BY DEF Invariant
<1> DEFINE steps == mappings[current].steps
           next == FirstOf(steps, applied)
           result == Transformed(steps[next], value)
<1>2. current \in DOMAIN mappings \ done /\ applied \subseteq DOMAIN steps /\ applied # DOMAIN steps
    BY <1>1 DEF TypeOK, ApplyTransformation
<1>3. next \in DOMAIN steps
    BY <1>1, <1>2, MappingTypes, FirstIsNext
<1>4. result \in Value \cup {Exception}
    <2>1. steps[next] \in TransformationStep
        BY <1>1, <1>2, <1>3, MappingTypes
    <2> QED
        BY <1>1, <2>1, TransformedType DEF TypeOK
<1>5. \/ pc' = "threw" /\ UNCHANGED <<applied, value>>
      \/ value' \in Value /\ applied' = applied \cup {next} /\ pc' = pc
    BY <1>4 DEF ApplyTransformation
<1>6. TypeOK'
    BY <1>1, <1>2, <1>3, <1>5 DEF ApplyTransformation, TypeOK
<1>7. ColumnsSoFar'
    BY <1>1 DEF ApplyTransformation, ColumnsSoFar, Missing
<1> QED
    BY <1>6, <1>7 DEF Invariant

\* The required check, and the value stored.
LEMMA EndKeeps == ASSUME Invariant, EndMapping PROVE Invariant'
<1>1. TypeOK /\ ColumnsSoFar
    BY DEF Invariant
<1> DEFINE m == mappings[current]
<1>2. current \in DOMAIN mappings \ done
    BY <1>1 DEF TypeOK, EndMapping
<1>3. CASE Missing(m, value) /\ pc' = "invalid" /\ UNCHANGED <<done, record>>
    <2>1. TypeOK'
        BY <1>1, <1>3 DEF EndMapping, TypeOK
    <2>2. ColumnsSoFar'
        BY <1>1, <1>3 DEF EndMapping, ColumnsSoFar, Missing
    <2> QED
        BY <2>1, <2>2 DEF Invariant
<1>4. CASE ~ Missing(m, value) /\ Store(m.destination, value) /\ done' = done \cup {current} /\ pc' = "next"
    <2>1. DOMAIN record' = DOMAIN record \cup {m.destination}
        BY <1>4 DEF Store
    <2>2. \A c \in DOMAIN record' : record'[c] = IF c = m.destination THEN value ELSE record[c]
        BY <1>4 DEF Store
    <2>3. record' \in [DOMAIN record' -> Value]
        <3>1. \A c \in DOMAIN record' : record'[c] \in Value
            BY <1>1, <2>1, <2>2 DEF TypeOK
        <3>2. record' = [c \in DOMAIN record' |-> record'[c]]
            BY <1>4 DEF Store
        <3> QED
            BY <3>1, <3>2
    <2>4. TypeOK'
        BY <1>1, <1>2, <1>4, <2>3 DEF EndMapping, TypeOK
    <2>5. DOMAIN record' = {mappings[i].destination : i \in done'}
        BY <1>1, <1>4, <2>1 DEF ColumnsSoFar
    <2>6. ASSUME NEW c \in DOMAIN record'
          PROVE  \E i \in done' : mappings[i].destination = c /\ ~ Missing(mappings[i], record'[c])
        <3>1. CASE c = m.destination
            BY <1>4, <2>2, <3>1
        <3>2. CASE c # m.destination
            <4>1. c \in DOMAIN record /\ record'[c] = record[c]
                BY <2>1, <2>2, <3>2
            <4> QED
                BY <1>1, <1>4, <4>1 DEF ColumnsSoFar
        <3> QED
            BY <3>1, <3>2
    <2>7. ColumnsSoFar'
        BY <2>5, <2>6 DEF ColumnsSoFar, EndMapping, Missing
    <2> QED
        BY <2>4, <2>7 DEF Invariant
<1> QED
    BY <1>3, <1>4 DEF EndMapping

\* Every step keeps the invariant.
LEMMA NextKeeps == ASSUME Invariant, [Next]_vars PROVE Invariant'
<1>1. CASE ReturnValid
    <2>1. TypeOK' /\ ColumnsSoFar'
        BY <1>1 DEF Invariant, ReturnValid, TypeOK, ColumnsSoFar, Missing
    <2> QED
        BY <2>1 DEF Invariant
<1>2. CASE UNCHANGED vars
    <2>1. TypeOK' /\ ColumnsSoFar'
        BY <1>2 DEF Invariant, vars, TypeOK, ColumnsSoFar, Missing
    <2> QED
        BY <2>1 DEF Invariant
<1> QED
    BY <1>1, <1>2, BeginKeeps, ApplyKeeps, EndKeeps DEF Next

\* The invariant holds throughout.
LEMMA InvariantHolds == Spec => []Invariant
<1> QED
    BY InitInvariant, NextKeeps, PTL DEF Spec

-----------------------------------------------------------------------------
(* The results *)

\* A value that is an exception is never kept, and a record is returned only
\* when every mapping has been dealt with.
THEOREM PipelineTypes == Spec => []TypeOK
<1>1. Invariant => TypeOK
    BY DEF Invariant
<1> QED
    BY <1>1, InvariantHolds, PTL

\* All valid records of a job have the columns of its mappings.
THEOREM ColumnsAgree == Spec => []SameColumns
<1>1. Invariant => SameColumns
    BY DEF Invariant, TypeOK, ColumnsSoFar, SameColumns
<1> QED
    BY <1>1, InvariantHolds, PTL

\* A required mapping that alone writes its column has left a value there.
THEOREM RequiredFields == Spec => []RequiredIsPresent
<1>1. ASSUME Invariant, pc = "valid", NEW i \in DOMAIN mappings, mappings[i].isRequired,
             \A j \in DOMAIN mappings \ {i} : mappings[j].destination # mappings[i].destination
      PROVE  ~ IsBlank(record[mappings[i].destination])
    <2>1. done = DOMAIN mappings /\ ColumnsSoFar
        BY <1>1 DEF Invariant, TypeOK
    <2>2. PICK k \in done : /\ mappings[k].destination = mappings[i].destination
                            /\ ~ Missing(mappings[k], record[mappings[i].destination])
        BY <2>1 DEF ColumnsSoFar
    <2>3. k = i
        BY <1>1, <2>1, <2>2
    <2> QED
        BY <1>1, <2>2, <2>3 DEF Missing
<1>2. Invariant => RequiredIsPresent
    BY <1>1 DEF RequiredIsPresent
<1> QED
    BY <1>2, InvariantHolds, PTL

-----------------------------------------------------------------------------
(* Orders *)

\* Items that can be put in order: a list of things with an order.
Orderable(items) == DOMAIN items \subseteq Nat /\ \A i \in DOMAIN items : items[i].order \in Nat

\* Precedes is a strict total order of the places of a list.
LEMMA TotalOrder ==
    ASSUME NEW items, Orderable(items)
    PROVE  /\ \A i, j \in DOMAIN items : ~ (Precedes(items, i, j) /\ Precedes(items, j, i))
           /\ \A i, j \in DOMAIN items : i # j => Precedes(items, i, j) \/ Precedes(items, j, i)
           /\ \A i, j, k \in DOMAIN items :
                 Precedes(items, i, j) /\ Precedes(items, j, k) => Precedes(items, i, k)
BY DEF Orderable, Precedes

Before(items, i) == {j \in DOMAIN items : Precedes(items, j, i)}

\* What is seen comes before all that is not.
Initial(items, seen) ==
    /\ seen \subseteq DOMAIN items
    /\ \A i \in seen, j \in DOMAIN items \ seen : Precedes(items, i, j)

\* What FirstOf yields comes before all else that is left.
LEMMA FirstLeads ==
    ASSUME NEW items, Orderable(items), NEW seen, seen \subseteq DOMAIN items, seen # DOMAIN items
    PROVE  LET k == FirstOf(items, seen)
           IN  /\ k \in DOMAIN items \ seen
               /\ \A j \in (DOMAIN items \ seen) \ {k} : Precedes(items, k, j)
<1> DEFINE rest == DOMAIN items \ seen
           k == FirstOf(items, seen)
<1>1. k \in rest
    BY FirstIsNext DEF Orderable
<1>2. \A j \in rest : items[k].order < items[j].order \/ (items[k].order = items[j].order /\ k <= j)
    BY FirstIsNext DEF Orderable
<1> HIDE DEF k
<1>3. \A j \in rest \ {k} : Precedes(items, k, j)
    BY <1>1, <1>2 DEF Precedes, Orderable
<1> QED
    BY <1>1, <1>3 DEF k

\* After an initial part of a list FirstOf goes on with the place that has that part
\* before it, and no other.
LEMMA NextInOrder ==
    ASSUME NEW items, Orderable(items), IsFiniteSet(DOMAIN items),
           NEW seen, Initial(items, seen), seen # DOMAIN items
    PROVE  LET k == FirstOf(items, seen)
           IN  /\ k \in DOMAIN items \ seen
               /\ Initial(items, seen \cup {k})
               /\ Cardinality(seen) \in Nat
               /\ Cardinality(seen \cup {k}) = Cardinality(seen) + 1
               /\ k = Nth(items, Cardinality(seen) + 1)
<1> DEFINE k == FirstOf(items, seen)
           n == Cardinality(seen) + 1
<1>1. k \in DOMAIN items \ seen /\ \A j \in (DOMAIN items \ seen) \ {k} : Precedes(items, k, j)
    BY FirstLeads DEF Initial
<1> HIDE DEF k
<1>2. Initial(items, seen \cup {k})
    BY <1>1 DEF Initial
<1>3. Before(items, k) = seen
    BY <1>1, TotalOrder DEF Before, Initial
<1>4. /\ IsFiniteSet(seen) /\ Cardinality(seen) \in Nat
      /\ Cardinality(seen \cup {k}) = Cardinality(seen) + 1
    <2>1. IsFiniteSet(seen)
        BY FS_Subset DEF Initial
    <2> QED
        BY <1>1, <2>1, FS_CardinalityType, FS_AddElement
<1>5. ASSUME NEW i \in DOMAIN items, i # k
      PROVE  Cardinality(Before(items, i)) # Cardinality(Before(items, k))
    <2>1. ASSUME NEW a \in DOMAIN items, NEW b \in DOMAIN items, Precedes(items, a, b)
          PROVE  Cardinality(Before(items, a)) # Cardinality(Before(items, b))
        <3>1. Before(items, a) \subseteq Before(items, b) /\ a \in Before(items, b) /\ a \notin Before(items, a)
            BY <2>1, TotalOrder DEF Before
        <3>2. IsFiniteSet(Before(items, b))
            BY FS_Subset DEF Before
        <3> QED
            BY <3>1, <3>2, FS_Subset
    <2> QED
        BY <1>1, <1>5, <2>1, TotalOrder
<1>6. Cardinality({j \in DOMAIN items : Precedes(items, j, k)}) = n - 1
    <2>1. {j \in DOMAIN items : Precedes(items, j, k)} = seen
        BY <1>3 DEF Before
    <2>2. n - 1 = Cardinality(seen)
        BY <1>4
    <2> QED
        BY <2>1, <2>2, Zenon
<1>7. \A i \in DOMAIN items :
          Cardinality({j \in DOMAIN items : Precedes(items, j, i)}) = n - 1 => i = k
    BY <1>5, <1>6 DEF Before
<1>8. Nth(items, n) = k
    BY <1>1, <1>6, <1>7, Zenon DEF Nth
<1> QED
    BY <1>1, <1>2, <1>4, <1>8 DEF k

-----------------------------------------------------------------------------
(* The value of a mapping, step by step *)

\* What step n makes of the value before it.
NextValue(m, n, v) ==
    IF v = Exception THEN Exception ELSE Transformed(m.steps[Nth(m.steps, n)], v)

\* f has the values of the first steps of m.
Follows(m, f, last) ==
    f = [n \in 0 .. last |-> IF n = 0 THEN InitialValue(m)
                             ELSE IF f[n - 1] = Exception THEN Exception
                             ELSE Transformed(m.steps[Nth(m.steps, n)], f[n - 1])]

LEMMA FollowsExists ==
    ASSUME NEW m, NEW last \in Nat
    PROVE  \E f : Follows(m, f, last)
<1> DEFINE Without == {k \in Nat : \A f : ~ Follows(m, f, k)}
<1>1. SUFFICES ASSUME Without # {}
               PROVE  FALSE
    OBVIOUS
<1>2. PICK k \in Without : \A j \in Without : k <= j
    BY <1>1, LeastNumber
<1>3. CASE k = 0
    <2> DEFINE f == [n \in 0 .. 0 |-> InitialValue(m)]
    <2>1. Follows(m, f, 0)
        BY DEF Follows
    <2> QED
        BY <1>2, <1>3, <2>1
<1>4. CASE k # 0
    <2>1. k - 1 \in Nat /\ k - 1 \notin Without
        BY <1>2, <1>4
    <2>2. PICK f : Follows(m, f, k - 1)
        BY <2>1
    <2> DEFINE g == [n \in 0 .. k |-> IF n = k THEN NextValue(m, k, f[k - 1]) ELSE f[n]]
    <2>3. \A n \in 0 .. k - 1 : g[n] = f[n]
        BY <2>1
    <2>4. \A n \in 0 .. k - 1 :
              f[n] = IF n = 0 THEN InitialValue(m) ELSE NextValue(m, n, f[n - 1])
        BY <2>2 DEF Follows, NextValue
    <2>5. \A n \in 0 .. k : g[n] = IF n = 0 THEN InitialValue(m) ELSE NextValue(m, n, g[n - 1])
        <3>1. ASSUME NEW n \in 0 .. k - 1, n # 0
              PROVE  g[n] = NextValue(m, n, g[n - 1])
            <4>1. n - 1 \in 0 .. k - 1
                BY <2>1, <3>1
            <4>2. g[n] = f[n] /\ g[n - 1] = f[n - 1]
                BY <2>3, <3>1, <4>1
            <4> HIDE DEF g
            <4> QED
                BY <2>4, <3>1, <4>2
        <3>2. g[k] = NextValue(m, k, g[k - 1])
            <4>1. k - 1 \in 0 .. k - 1 /\ k \in 0 .. k
                BY <2>1
            <4>2. g[k] = NextValue(m, k, f[k - 1])
                BY <4>1
            <4>3. g[k - 1] = f[k - 1]
                BY <2>3, <4>1
            <4> HIDE DEF g
            <4> QED
                BY <4>2, <4>3
        <3>3. g[0] = InitialValue(m)
            <4>1. 0 \in 0 .. k - 1
                BY <2>1
            <4>2. g[0] = f[0]
                BY <2>3, <4>1
            <4> HIDE DEF g
            <4> QED
                BY <2>4, <4>1, <4>2
        <3>4. \A n \in 0 .. k : n = k \/ n = 0 \/ (n \in 0 .. k - 1 /\ n # 0)
            BY <2>1
        <3> HIDE DEF g
        <3> QED
            BY <1>4, <3>1, <3>2, <3>3, <3>4
    <2>6. g = [n \in 0 .. k |-> g[n]]
        OBVIOUS
    <2> HIDE DEF g
    <2>7. Follows(m, g, k)
        BY <2>5, <2>6 DEF Follows, NextValue
    <2> QED
        BY <1>2, <2>7
<1> QED
    BY <1>3, <1>4

\* The recursion of After is what it says.
LEMMA AfterSteps ==
    ASSUME NEW m, Len(m.steps) \in Nat
    PROVE  /\ After(m)[0] = InitialValue(m)
           /\ \A n \in 1 .. Len(m.steps) : After(m)[n] = NextValue(m, n, After(m)[n - 1])
<1>1. \E f : Follows(m, f, Len(m.steps))
    BY FollowsExists
<1>2. After(m) = CHOOSE f : Follows(m, f, Len(m.steps))
    BY DEF After, Follows
<1>3. Follows(m, After(m), Len(m.steps))
    BY <1>1, <1>2, Zenon
<1>4. \A n \in 0 .. Len(m.steps) :
          After(m)[n] = IF n = 0 THEN InitialValue(m) ELSE NextValue(m, n, After(m)[n - 1])
    BY <1>3 DEF Follows, NextValue
<1> QED
    BY <1>4

\* What an exception leaves behind is an exception.
LEMMA ExceptionStays ==
    ASSUME NEW m, Len(m.steps) \in Nat, NEW n \in 0 .. Len(m.steps), After(m)[n] = Exception
    PROVE  ValueOf(m) = Exception
<1> DEFINE Values == {k \in Nat : k \in n .. Len(m.steps) /\ After(m)[k] # Exception}
<1>1. SUFFICES ASSUME Values # {}
               PROVE  FALSE
    BY DEF ValueOf
<1>2. PICK k \in Values : \A j \in Values : k <= j
    BY <1>1, LeastNumber
<1>3. k \in 1 .. Len(m.steps) /\ k - 1 \in n .. Len(m.steps) /\ k - 1 \in Nat /\ ~ (k <= k - 1)
    BY <1>2
<1>4. After(m)[k - 1] = Exception
    BY <1>2, <1>3
<1> QED
    BY <1>2, <1>3, <1>4, AfterSteps DEF NextValue

\* The value of a mapping depends on the record, the scripts and the mapping only.
LEMMA AfterKept ==
    ASSUME row' = row, script' = script, NEW m
    PROVE  After(m)' = After(m)
BY DEF After, Transformed, InitialValue, Nth

-----------------------------------------------------------------------------
(* The call against what is expected of it *)

\* Of the mappings in seen the last that names column c.
Writes(i, c, seen) ==
    /\ i \in seen
    /\ mappings[i].destination = c
    /\ \A j \in seen \ {i} : mappings[j].destination = c => Precedes(mappings, j, i)

\* The mappings dealt with are the first ones, none of them fails, and each column has
\* the value of the last of them that names it.
DoneInOrder ==
    /\ Initial(mappings, done)
    /\ \A i \in done : ~ Fails(i)
    /\ \A c \in DOMAIN record : \E i \in done : Writes(i, c, done) /\ record[c] = ValueOf(mappings[i])

\* The mapping in hand is the next one, its value is that of the steps applied, and a
\* call ends early as that mapping fails.
InHand ==
    /\ pc \in {"transforming", "threw", "invalid"} =>
          /\ done # DOMAIN mappings
          /\ current = FirstOf(mappings, done)
    /\ pc = "transforming" =>
          /\ Initial(mappings[current].steps, applied)
          /\ value = After(mappings[current])[Cardinality(applied)]
    /\ pc = "threw" => Throws(current)
    /\ pc = "invalid" => ~ Throws(current) /\ Fails(current)

Expected == Invariant /\ DoneInOrder /\ InHand

\* Mappings and their steps can be put in order.
LEMMA Orders ==
    ASSUME TypeOK
    PROVE  /\ Orderable(mappings) /\ IsFiniteSet(DOMAIN mappings)
           /\ \A i \in DOMAIN mappings :
                 LET steps == mappings[i].steps
                 IN  /\ Orderable(steps) /\ IsFiniteSet(DOMAIN steps)
                     /\ Len(steps) \in Nat /\ DOMAIN steps = 1 .. Len(steps)
                     /\ Cardinality(DOMAIN steps) = Len(steps)
<1>1. /\ mappings \in Seq(FieldMapping)
      /\ \A i \in DOMAIN mappings : mappings[i].steps \in Seq(TransformationStep)
    <2>1. mappings \in Seq(FieldMapping)
        BY DEF TypeOK
    <2>2. \A i \in DOMAIN mappings : mappings[i] \in FieldMapping
        BY MappingTypes
    <2> QED
        BY <2>1, <2>2 DEF FieldMapping
<1>2. Len(mappings) \in Nat /\ DOMAIN mappings = 1 .. Len(mappings)
    BY <1>1
<1>3. ASSUME NEW i \in DOMAIN mappings
      PROVE  Len(mappings[i].steps) \in Nat /\ DOMAIN mappings[i].steps = 1 .. Len(mappings[i].steps)
    BY <1>1, <1>3
<1>4. \A n \in Nat : IsFiniteSet(1 .. n) /\ Cardinality(1 .. n) = n
    BY FS_Interval
<1>5. Orderable(mappings) /\ \A i \in DOMAIN mappings : Orderable(mappings[i].steps)
    BY MappingTypes DEF Orderable
<1> QED
    BY <1>2, <1>3, <1>4, <1>5

\* An exception is no value.
LEMMA ExceptionIsNoValue == Exception \notin Value
BY DEF Exception, Value, Null, Blank, Texts

LEMMA ExpectedKept ==
    ASSUME UNCHANGED <<mappings, row, script>>
    PROVE  /\ \A i : ValueOf(mappings[i])' = ValueOf(mappings[i])
           /\ \A i : After(mappings[i])' = After(mappings[i])
           /\ \A i : Throws(i)' <=> Throws(i)
           /\ \A i : Fails(i)' <=> Fails(i)
<1>1. \A i : After(mappings[i])' = After(mappings[i])
    BY AfterKept
<1>2. \A i : ValueOf(mappings[i])' = ValueOf(mappings[i])
    BY <1>1 DEF ValueOf
<1> QED
    BY <1>1, <1>2 DEF Throws, Fails

\* Taking up the next mapping.
LEMMA BeginExpected == ASSUME Expected, BeginMapping PROVE DoneInOrder' /\ InHand'
<1>1. TypeOK /\ UNCHANGED <<mappings, row, script, done, record>> /\ pc = "next" /\ pc' = "transforming"
    BY DEF Expected, Invariant, BeginMapping
<1>2. done # DOMAIN mappings /\ current' = FirstOf(mappings, done) /\ applied' = {}
        /\ value' = InitialValue(mappings[current'])
    BY DEF BeginMapping
<1>3. current' \in DOMAIN mappings
    BY <1>2, Orders, FirstLeads, <1>1 DEF TypeOK
<1>4. DoneInOrder'
    BY <1>1, ExpectedKept DEF Expected, DoneInOrder, Writes
<1>5. Initial(mappings[current].steps, applied)'
    BY <1>2 DEF Initial
<1>6. After(mappings[current'])[0] = InitialValue(mappings[current'])
    BY <1>1, <1>3, Orders, AfterSteps
<1>7. Cardinality(applied') = 0
    BY <1>2, FS_EmptySet
<1>8. value' = (After(mappings[current])[Cardinality(applied)])'
    <2>1. After(mappings[current])' = After(mappings[current'])
        BY <1>1, ExpectedKept
    <2> QED
        BY <1>2, <1>6, <1>7, <2>1
<1>9. (done # DOMAIN mappings)' /\ (current = FirstOf(mappings, done))'
    BY <1>1, <1>2 DEF FirstOf
<1> QED
    BY <1>1, <1>4, <1>5, <1>8, <1>9 DEF InHand

\* One transformation more.
LEMMA ApplyExpected == ASSUME Expected, ApplyTransformation PROVE DoneInOrder' /\ InHand'
<1> DEFINE m == mappings[current]
           c == Cardinality(applied)
           next == FirstOf(m.steps, applied)
           result == Transformed(m.steps[next], value)
<1>1. /\ TypeOK /\ UNCHANGED <<mappings, row, script, done, current, record>>
      /\ pc = "transforming" /\ applied # DOMAIN m.steps
      /\ current \in DOMAIN mappings
    BY DEF Expected, Invariant, TypeOK, ApplyTransformation
<1>2. /\ Initial(m.steps, applied) /\ value = After(m)[c]
      /\ done # DOMAIN mappings /\ current = FirstOf(mappings, done)
    BY <1>1 DEF Expected, InHand
<1>3. DoneInOrder'
    BY <1>1, ExpectedKept DEF Expected, DoneInOrder, Writes
<1>4. /\ Orderable(m.steps) /\ IsFiniteSet(DOMAIN m.steps)
      /\ Len(m.steps) \in Nat /\ Cardinality(DOMAIN m.steps) = Len(m.steps)
    BY <1>1, Orders
<1>5. /\ next \in DOMAIN m.steps
      /\ Initial(m.steps, applied \cup {next})
      /\ c \in Nat /\ Cardinality(applied \cup {next}) = c + 1
      /\ next = Nth(m.steps, c + 1)
    BY <1>1, <1>2, <1>4, NextInOrder
<1>6. c + 1 \in 1 .. Len(m.steps)
    <2>1. applied \cup {next} \in SUBSET DOMAIN m.steps
        BY <1>5 DEF Initial
    <2>2. Cardinality(applied \cup {next}) <= Cardinality(DOMAIN m.steps)
        BY <1>4, <2>1, FS_Subset
    <2> QED
        BY <1>4, <1>5, <2>2
<1>7. After(m)[c + 1] = result
    <2>1. After(m)[c + 1] = NextValue(m, c + 1, After(m)[(c + 1) - 1])
        BY <1>4, <1>6, AfterSteps
    <2>2. (c + 1) - 1 = c
        BY <1>5
    <2>3. value # Exception
        BY <1>1, ExceptionIsNoValue DEF TypeOK
    <2> QED
        BY <1>2, <1>5, <2>1, <2>2, <2>3 DEF NextValue
<1> HIDE DEF result, next
<1>8. (done # DOMAIN mappings)' /\ (current = FirstOf(mappings, done))'
    BY <1>1, <1>2 DEF FirstOf
<1>9. CASE result = Exception
    <2>1. pc' = "threw"
        BY <1>9 DEF ApplyTransformation, result, next
    <2>2. Throws(current)
        BY <1>4, <1>6, <1>7, <1>9, ExceptionStays DEF Throws
    <2>3. Throws(current)'
        BY <1>1, <2>2, ExpectedKept
    <2> QED
        BY <1>3, <1>8, <2>1, <2>3 DEF InHand
<1>10. CASE result # Exception
    <2>1. pc' = "transforming" /\ value' = result /\ applied' = applied \cup {next}
        BY <1>1, <1>10 DEF ApplyTransformation, result, next
    <2>2. Initial(mappings[current].steps, applied)'
        BY <1>1, <1>5, <2>1 DEF Initial, Precedes
    <2>3. (After(mappings[current])[Cardinality(applied)])' = After(m)[c + 1]
        BY <1>1, <1>5, <2>1, ExpectedKept
    <2> QED
        BY <1>3, <1>7, <1>8, <2>1, <2>2, <2>3 DEF InHand
<1> QED
    BY <1>9, <1>10

\* The required check and the column.
LEMMA EndExpected == ASSUME Expected, EndMapping PROVE DoneInOrder' /\ InHand'
<1> DEFINE m == mappings[current]
<1>1. /\ TypeOK /\ ColumnsSoFar /\ UNCHANGED <<mappings, row, script, current>>
      /\ pc = "transforming" /\ applied = DOMAIN m.steps
      /\ current \in DOMAIN mappings
    BY DEF Expected, Invariant, TypeOK, EndMapping
<1>2. /\ value = After(m)[Cardinality(applied)]
      /\ done # DOMAIN mappings /\ current = FirstOf(mappings, done)
      /\ DoneInOrder
    BY <1>1 DEF Expected, InHand
<1>3. value = ValueOf(m)
    BY <1>1, <1>2, Orders DEF ValueOf
<1>4. ~ Throws(current) /\ (Fails(current) <=> Missing(m, value))
    BY <1>1, <1>3, ExceptionIsNoValue DEF Throws, Fails, Missing, TypeOK
<1>5. CASE Missing(m, value) /\ pc' = "invalid" /\ UNCHANGED <<done, record>>
    <2>1. DoneInOrder'
        BY <1>1, <1>2, <1>5, ExpectedKept DEF DoneInOrder, Writes
    <2>2. (done # DOMAIN mappings)' /\ (current = FirstOf(mappings, done))'
        BY <1>1, <1>2, <1>5 DEF FirstOf
    <2>3. (~ Throws(current) /\ Fails(current))'
        BY <1>1, <1>4, <1>5, ExpectedKept
    <2> QED
        BY <1>5, <2>1, <2>2, <2>3 DEF InHand
<1>6. CASE /\ ~ Missing(m, value) /\ Store(m.destination, value)
           /\ done' = done \cup {current} /\ pc' = "next"
    <2>1. /\ current \in DOMAIN mappings \ done
          /\ Initial(mappings, done \cup {current})
        BY <1>1, <1>2, Orders, NextInOrder DEF DoneInOrder
    <2>2. Initial(mappings, done)'
        BY <1>1, <1>6, <2>1 DEF Initial, Precedes
    <2>3. \A i \in done' : ~ Fails(i)'
        BY <1>1, <1>2, <1>4, <1>6, ExpectedKept DEF DoneInOrder
    <2>4. /\ DOMAIN record' = DOMAIN record \cup {m.destination}
          /\ \A c \in DOMAIN record' : record'[c] = IF c = m.destination THEN value ELSE record[c]
        BY <1>6 DEF Store
    <2>5. ASSUME NEW c \in DOMAIN record'
          PROVE  \E i \in done' : Writes(i, c, done') /\ record'[c] = ValueOf(mappings[i])
        <3>1. CASE c = m.destination
            <4>1. Writes(current, c, done')
                BY <1>2, <1>6, <2>1, <3>1 DEF Writes, DoneInOrder, Initial
            <4> QED
                BY <1>3, <1>6, <2>4, <3>1, <4>1
        <3>2. CASE c # m.destination
            <4>1. PICK i \in done : Writes(i, c, done) /\ record[c] = ValueOf(mappings[i])
                BY <1>2, <2>4, <3>2 DEF DoneInOrder
            <4>2. Writes(i, c, done')
                BY <1>6, <3>2, <4>1 DEF Writes
            <4> QED
                BY <1>6, <2>4, <3>2, <4>1, <4>2
        <3> QED
            BY <3>1, <3>2
    <2>6. \A c \in DOMAIN record' : \E i \in done' :
              Writes(i, c, done)' /\ record'[c] = ValueOf(mappings[i])'
        BY <1>1, <2>5, ExpectedKept DEF Writes, Precedes
    <2> QED
        BY <1>6, <2>2, <2>3, <2>6 DEF DoneInOrder, InHand
<1> QED
    BY <1>5, <1>6 DEF EndMapping

LEMMA NextExpected == Expected /\ [Next]_vars => Expected'
<1> SUFFICES ASSUME Expected, [Next]_vars PROVE DoneInOrder' /\ InHand'
    BY NextKeeps DEF Expected
<1>1. CASE ReturnValid \/ UNCHANGED vars
    <2>1. UNCHANGED <<mappings, row, script, done, current, applied, value, record>>
            /\ (pc' = pc \/ pc' = "valid")
        BY <1>1 DEF ReturnValid, vars
    <2>2. DoneInOrder'
        BY <2>1, ExpectedKept DEF Expected, DoneInOrder, Writes
    <2>3. InHand'
        BY <2>1, ExpectedKept DEF Expected, InHand, FirstOf
    <2> QED
        BY <2>2, <2>3
<1> QED
    BY <1>1, BeginExpected, ApplyExpected, EndExpected DEF Next

LEMMA InitExpected == Init => Expected
<1> SUFFICES ASSUME Init PROVE DoneInOrder /\ InHand
    BY InitInvariant DEF Expected
<1> QED
    BY DEF Init, DoneInOrder, InHand, Initial

\* The mapping in hand is the first of those that fail, once it fails.
LEMMA FirstFailing ==
    ASSUME Expected, pc \in {"threw", "invalid"}
    PROVE  pc = ExpectedEnd
<1>1. /\ TypeOK /\ Initial(mappings, done) /\ \A i \in done : ~ Fails(i)
      /\ done # DOMAIN mappings /\ current = FirstOf(mappings, done)
      /\ Fails(current)
      /\ pc = IF Throws(current) THEN "threw" ELSE "invalid"
    BY DEF Expected, Invariant, DoneInOrder, InHand, Fails
<1> DEFINE failing == {i \in DOMAIN mappings : Fails(i)}
           first == CHOOSE i \in failing : \A j \in failing \ {i} : Precedes(mappings, i, j)
<1>2. /\ current \in DOMAIN mappings \ done
      /\ \A j \in (DOMAIN mappings \ done) \ {current} : Precedes(mappings, current, j)
    BY <1>1, Orders, FirstLeads DEF Initial
<1>3. current \in failing /\ \A j \in failing \ {current} : Precedes(mappings, current, j)
    BY <1>1, <1>2
<1>4. \A i \in failing : (\A j \in failing \ {i} : Precedes(mappings, i, j)) => i = current
    BY <1>1, <1>3, Orders, TotalOrder
<1>5. first = current
    <2> HIDE DEF failing
    <2> QED
        BY <1>3, <1>4, Zenon
<1>6. ExpectedEnd = IF failing = {} THEN "valid" ELSE IF Throws(first) THEN "threw" ELSE "invalid"
    BY DEF ExpectedEnd
<1> HIDE DEF failing, first
<1> QED
    BY <1>1, <1>3, <1>5, <1>6

\* A valid record has in each column the value of the last mapping that names it.
LEMMA ValidExpected ==
    ASSUME Expected, pc = "valid"
    PROVE  pc = ExpectedEnd /\ record = ExpectedRecord
<1>1. /\ TypeOK /\ done = DOMAIN mappings /\ ColumnsSoFar /\ DoneInOrder
    BY DEF Expected, Invariant, TypeOK
<1>2. {i \in DOMAIN mappings : Fails(i)} = {}
    BY <1>1 DEF DoneInOrder
<1>3. pc = ExpectedEnd
    BY <1>2 DEF ExpectedEnd
<1> DEFINE Writers(c) == {i \in DOMAIN mappings : mappings[i].destination = c}
           Last(c) == CHOOSE i \in Writers(c) : \A j \in Writers(c) \ {i} : Precedes(mappings, j, i)
<1>4. ASSUME NEW c \in DOMAIN record
      PROVE  record[c] = ValueOf(mappings[Last(c)])
    <2>1. PICK i \in done : Writes(i, c, done) /\ record[c] = ValueOf(mappings[i])
        BY <1>1, <1>4 DEF DoneInOrder
    <2>2. i \in Writers(c) /\ \A j \in Writers(c) \ {i} : Precedes(mappings, j, i)
        BY <1>1, <2>1 DEF Writes
    <2>3. \A k \in Writers(c) : (\A j \in Writers(c) \ {k} : Precedes(mappings, j, k)) => k = i
        BY <1>1, <2>2, Orders, TotalOrder
    <2>4. Last(c) = i
        <3> HIDE DEF Writers
        <3> QED
            BY <2>2, <2>3, Zenon
    <2> QED
        BY <2>1, <2>4
<1>5. ExpectedRecord = [c \in {mappings[i].destination : i \in DOMAIN mappings} |->
                            ValueOf(mappings[Last(c)])]
    BY DEF ExpectedRecord
<1> HIDE DEF Last
<1>6. /\ record = [c \in DOMAIN record |-> record[c]]
      /\ DOMAIN record = {mappings[i].destination : i \in DOMAIN mappings}
    BY <1>1 DEF TypeOK, ColumnsSoFar
<1>7. record = ExpectedRecord
    BY <1>4, <1>5, <1>6
<1> QED
    BY <1>3, <1>7

\* For any mappings, in whatever order they and their steps are listed: a call ends as
\* the first mapping that fails says, and a valid record has the values expected.
THEOREM PipelineIsExpected == Spec => []EndsAsExpected
<1>1. Expected => EndsAsExpected
    BY FirstFailing, ValidExpected DEF EndsAsExpected
<1> QED
    BY <1>1, InitExpected, NextExpected, PTL DEF Spec
=============================================================================
