----------------------- MODULE MCTransformationPipeline -----------------------
(***************************************************************************)
(* TransformationPipeline for TLC: one or two mappings of two fields to    *)
(* two columns, in either order, with steps whose order matters.           *)
(***************************************************************************)
EXTENDS TransformationReference

Text(text, padded, case) == [text |-> text, padded |-> padded, case |-> case]
Word == Text("word", FALSE, "mixed")
PaddedWord == Text("word", TRUE, "lower")

Step(type, parameter, order) == [type |-> type, parameter |-> parameter, order |-> order]

\* Steps that do not commute, listed with and against their order.  A date is
\* written as a date, as a word, as a blank, or not at all.
StepLists ==
    {<<>>,
     <<Step("Trim", "iso", 0)>>,
     <<Step("Uppercase", "iso", 1), Step("Lowercase", "iso", 0)>>,
     <<Step("DateFormat", "blanking", 1), Step("DateFormat", "iso", 0)>>,
     <<Step("DateFormat", "weekday", 0), Step("DateFormat", "malformed", 1)>>,
     <<Step("DateFormat", "iso", 0), Step("DateFormat", "malformed", 1)>>,
     <<Step("CustomExpression", "malformed", 1), Step("Trim", "iso", 0)>>,
     <<Step("CustomExpression", "blanking", 0), Step("CustomExpression", "malformed", 1)>>}

Mappings ==
    {[source |-> s, destination |-> c, order |-> o, isRequired |-> r, default |-> d, steps |-> l] :
        s \in Fields, c \in Columns, o \in {0, 1}, r \in BOOLEAN, d \in {Null, Word}, l \in StepLists}

\* Any mapping alone; beside it, one without default of the other field, in
\* either place of the list.
Others == {m \in Mappings : m.default = Null /\ m.source = "b"}
Firsts == {m \in Mappings : m.source = "a" /\ m.destination = "x"}
MCMappingLists ==
    {<<>>} \cup {<<m>> : m \in Firsts}
        \cup {<<m, n>> : m \in Firsts, n \in Others} \cup {<<n, m>> : m \in Firsts, n \in Others}

MCRows == {[f \in Fields |-> IF f = "a" THEN v ELSE w] :
              v \in {Null, Blank, Word, PaddedWord, Text("date", TRUE, "mixed")}, w \in {Null, PaddedWord}}

\* "blanking" loses words, "malformed" throws on null and on white space at the
\* edges; a script may also leave everything alone.
MCScripts ==
    {[p \in Parameters |-> [v \in Value |->
        IF p = "blanking" THEN IF v = Word THEN Blank ELSE v
        ELSE IF v = Null \/ (v \in Texts /\ v.padded) THEN Exception ELSE v]],
     [p \in Parameters |-> [v \in Value |-> v]]}

MCWritten ==
    [p \in Parameters |-> [v \in Dates |->
        CASE p = "iso"       -> Text("date", FALSE, "mixed")
          [] p = "weekday"   -> Word
          [] p = "blanking"  -> Blank
          [] p = "malformed" -> Exception]]
=============================================================================
