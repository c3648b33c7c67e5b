------------------------ MODULE TransformationPipeline ------------------------
(***************************************************************************)
(* TransformationPipeline.TransformAsync: one source record turned into a  *)
(* destination record.  For each mapping, in order: take the field or its  *)
(* default, apply the transformations in order, check that a required      *)
(* value is there, store it in its column.                                 *)
(*                                                                         *)
(* The mappings come from the database in no particular order.  A text is  *)
(* what the transformations and checks tell apart in it: white space       *)
(* around it, its case, whether it reads as a date.                        *)
(***************************************************************************)
EXTENDS Naturals, Sequences

CONSTANTS
    Fields,        \* source fields
    Columns,       \* destination fields, names that differ in case taken as one
    MappingLists,  \* the mappings a job may have, as they are loaded
    Rows,          \* the source records; a field that one does not have is Null
    Parameters,    \* the parameters of the steps: expressions, and formats of dates
    Scripts,       \* what they make of a value as expressions, given the record
    Written        \* how they write a date as formats

Null == [text |-> "null"]
Blank == [text |-> "blank"]
Texts == [text : {"word", "date"}, padded : BOOLEAN, case : {"mixed", "upper", "lower"}]
Value == {Null, Blank} \cup Texts
Dates == {v \in Texts : v.text = "date"}

\* What an expression ends with when it throws or is cancelled, and a format that
\* is malformed (FormatException).
Exception == [text |-> "exception"]

IsBlank(v) == v \in {Null, Blank}

TransformationType == {"Trim", "Uppercase", "Lowercase", "DateFormat", "CustomExpression"}

\* FieldMapping.Create: a default is trimmed, and none if it is blank.
Defaults == {Null} \cup {v \in Texts : ~ v.padded}
TransformationStep == [type : TransformationType, parameter : Parameters, order : Nat]
FieldMapping ==
    [source : Fields, destination : Columns, order : Nat, isRequired : BOOLEAN,
     default : Defaults, steps : Seq(TransformationStep)]

ASSUME PipelineAssumption ==
    /\ MappingLists \subseteq Seq(FieldMapping)
    /\ Rows \subseteq [Fields -> Value]
    /\ Scripts \subseteq [Parameters -> [Value -> Value \cup {Exception}]]
    /\ Written \in [Parameters -> [Dates -> (Value \ {Null}) \cup {Exception}]]

VARIABLES
    mappings,  \* the job's mappings, as they were loaded
    row,       \* the source record
    script,    \* what the expressions do with it
    pc,        \* "next", "transforming", or how the call ended
    done,      \* positions of the mappings dealt with
    current,   \* position of the mapping in hand
    applied,   \* positions of its transformations already applied
    value,     \* the value so far
    record     \* the destination record so far

vars == <<mappings, row, script, pc, done, current, applied, value, record>>

-----------------------------------------------------------------------------
(* OrderBy and the transformations *)

\* Mutant: the order of the list is taken.
AsListed(items, seen) == CHOOSE i \in DOMAIN items \ seen : \A j \in DOMAIN items \ seen : i <= j

\* The position OrderBy yields after those in seen: the least order, the first
\* in the list among equals.
FirstOf(items, seen) ==
    CHOOSE i \in DOMAIN items \ seen :
        \A j \in DOMAIN items \ seen :
            items[i].order < items[j].order \/ (items[i].order = items[j].order /\ i <= j)

Cased(v, case) == IF v \in Texts THEN [v EXCEPT !.case = case] ELSE v

\* FormatDate: a text that reads as a date is written anew in the format asked for,
\* as a date again, as a word or as nothing but white space.  The format is any text
\* that is not blank, and throws when it is none.
FormatDate(v, format) == IF v \in Dates THEN Written[format][v] ELSE v

\* ApplyTransformationAsync; null stays null.
Transformed(step, v) ==
    CASE step.type = "Trim"       -> IF v \in Texts THEN [v EXCEPT !.padded = FALSE] ELSE v
      [] step.type = "Uppercase"  -> Cased(v, "upper")
      [] step.type = "Lowercase"  -> Cased(v, "lower")
      [] step.type = "DateFormat" -> FormatDate(v, step.parameter)
      [] OTHER                    -> script[step.parameter][v]

\* The field, or the default if there is one and the field is blank.
InitialValue(m) ==
    IF IsBlank(row[m.source]) /\ m.default # Null THEN m.default ELSE row[m.source]

-----------------------------------------------------------------------------
Init ==
    /\ mappings \in MappingLists
    /\ row \in Rows
    /\ script \in Scripts
    /\ pc = "next"
    /\ done = {} /\ applied = {}
    /\ current = 0
    /\ value = Null
    /\ record = <<>>

\* The next mapping, by order.
BeginMapping ==
    /\ pc = "next"
    /\ done # DOMAIN mappings
    /\ current' = FirstOf(mappings, done)
    /\ value' = InitialValue(mappings[current'])
    /\ applied' = {}
    /\ pc' = "transforming"
    /\ UNCHANGED <<mappings, row, script, done, record>>

\* Mutant: an expression that throws leaves its result behind.
KeepGoing ==
    /\ pc = "transforming"
    /\ applied # DOMAIN mappings[current].steps
    /\ LET steps == mappings[current].steps
           next == FirstOf(steps, applied)
       IN  /\ value' = Transformed(steps[next], value)
           /\ applied' = applied \cup {next}
    /\ UNCHANGED <<mappings, row, script, pc, done, current, record>>

\* The next of its transformations, by order.  What it throws ends the call.
ApplyTransformation ==
    /\ pc = "transforming"
    /\ applied # DOMAIN mappings[current].steps
    /\ LET steps == mappings[current].steps
           next == FirstOf(steps, applied)
           result == Transformed(steps[next], value)
       IN  IF result = Exception
           THEN pc' = "threw" /\ UNCHANGED <<applied, value>>
           ELSE /\ value' = result
                /\ applied' = applied \cup {next}
                /\ UNCHANGED pc
    /\ UNCHANGED <<mappings, row, script, done, current, record>>

\* Mutant: only null counts as missing.
NullIsMissing(m, v) == m.isRequired /\ v = Null

Missing(m, v) == m.isRequired /\ IsBlank(v)

\* Mutant: a null value is left out.
StoreUnlessNull(column, v) ==
    record' = [c \in DOMAIN record \cup (IF v = Null THEN {} ELSE {column}) |->
                  IF c = column /\ v # Null THEN v ELSE record[c]]

\* The indexer of the dictionary: adds the column or replaces its value.
Store(column, v) ==
    record' = [c \in DOMAIN record \cup {column} |-> IF c = column THEN v ELSE record[c]]

\* The required check comes last, then the value goes to its column.
EndMapping ==
    /\ pc = "transforming"
    /\ applied = DOMAIN mappings[current].steps
    /\ LET m == mappings[current]
       IN  \/ /\ Missing(m, value)
              /\ pc' = "invalid"
              /\ UNCHANGED <<done, record>>
           \/ /\ ~ Missing(m, value)
              /\ Store(m.destination, value)
              /\ done' = done \cup {current}
              /\ pc' = "next"
    /\ UNCHANGED <<mappings, row, script, current, applied, value>>

ReturnValid ==
    /\ pc = "next"
    /\ done = DOMAIN mappings
    /\ pc' = "valid"
    /\ UNCHANGED <<mappings, row, script, done, current, applied, value, record>>

Next == BeginMapping \/ ApplyTransformation \/ EndMapping \/ ReturnValid

Spec == Init /\ [][Next]_vars

-----------------------------------------------------------------------------
\* The types.  The mapping in hand is one not dealt with yet, and a record that
\* is returned has been through all of them.
TypeOK ==
    /\ mappings \in Seq(FieldMapping)
    /\ row \in [Fields -> Value]
    /\ script \in [Parameters -> [Value -> Value \cup {Exception}]]
    /\ pc \in {"next", "transforming", "valid", "invalid", "threw"}
    /\ done \subseteq DOMAIN mappings
    /\ pc = "transforming" =>
          /\ current \in DOMAIN mappings \ done
          /\ applied \subseteq DOMAIN mappings[current].steps
    /\ value \in Value
    /\ record \in [DOMAIN record -> Value]
    /\ pc = "valid" => done = DOMAIN mappings

\* Every valid record of a job has the same columns, those of its mappings: the
\* loaders take the columns of a batch from its first record.
SameColumns ==
    pc = "valid" => DOMAIN record = {mappings[i].destination : i \in DOMAIN mappings}

\* "Validates required mapped fields" (PHASE4): a required mapping has left a
\* value in its column, unless another mapping writes the same column.
RequiredIsPresent ==
    pc = "valid" =>
        \A i \in DOMAIN mappings :
            LET m == mappings[i]
            IN  (m.isRequired /\ \A j \in DOMAIN mappings \ {i} : mappings[j].destination # m.destination)
                => ~ IsBlank(record[m.destination])
=============================================================================
