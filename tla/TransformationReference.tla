------------------------ MODULE TransformationReference -----------------------
(***************************************************************************)
(* What a job's owner expects of a record, without loops: the value of a   *)
(* mapping is its steps, in order, over its field; the first mapping that  *)
(* fails decides; otherwise a column has the value of the last mapping     *)
(* that names it.                                                          *)
(***************************************************************************)
EXTENDS TransformationPipeline, FiniteSets

Precedes(items, i, j) ==
    items[i].order < items[j].order \/ (items[i].order = items[j].order /\ i < j)

Nth(items, n) ==
    CHOOSE i \in DOMAIN items : Cardinality({j \in DOMAIN items : Precedes(items, j, i)}) = n - 1

\* The values of a mapping, from the field's on, one step after the other.
After(m) ==
    LET after[n \in 0 .. Len(m.steps)] ==
            IF n = 0 THEN InitialValue(m)
            ELSE IF after[n - 1] = Exception THEN Exception
            ELSE Transformed(m.steps[Nth(m.steps, n)], after[n - 1])
    IN  after

ValueOf(m) == After(m)[Len(m.steps)]

Throws(i) == ValueOf(mappings[i]) = Exception
Fails(i) == Throws(i) \/ (mappings[i].isRequired /\ IsBlank(ValueOf(mappings[i])))

ExpectedEnd ==
    LET failing == {i \in DOMAIN mappings : Fails(i)}
        first == CHOOSE i \in failing : \A j \in failing \ {i} : Precedes(mappings, i, j)
    IN  IF failing = {} THEN "valid" ELSE IF Throws(first) THEN "threw" ELSE "invalid"

ExpectedRecord ==
    [c \in {mappings[i].destination : i \in DOMAIN mappings} |->
        LET writers == {i \in DOMAIN mappings : mappings[i].destination = c}
        IN  ValueOf(mappings[CHOOSE i \in writers : \A j \in writers \ {i} : Precedes(mappings, j, i)])]

\* The call ends as expected, with the record expected: defaults before
\* transformations before the required check, mappings and steps by their
\* order and not by where they stand in the list.
EndsAsExpected ==
    /\ pc \in {"valid", "invalid", "threw"} => pc = ExpectedEnd
    /\ pc = "valid" => record = ExpectedRecord
=============================================================================
