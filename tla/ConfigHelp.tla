-------------------------------- MODULE ConfigHelp --------------------------------
(***************************************************************************)
(* The configurations of a job from the form to a run: the examples that   *)
(* etl-config-help.js shows for the selected types, the text that the      *)
(* owner makes of them, what a save stores, and what the extractor and the *)
(* loader of the stored types need.  A configuration is the set of its     *)
(* property names; an option of a select is known by its name.             *)
(***************************************************************************)
CONSTANT NoJob

VARIABLES
    source, destination,              \* the values of the selects
    sourceOutput, destinationOutput,  \* the examples shown
    sourceText, destinationText,      \* the textareas
    sourceCopied, destinationCopied,  \* for properties: the type selected when the text was copied
    view,                             \* "form" or "details"
    job                               \* what is stored

exampleVars == <<sourceOutput, destinationOutput>>
textVars == <<sourceText, destinationText, sourceCopied, destinationCopied>>
savedVars == <<view, job>>
helpVars == <<source, destination, exampleVars, textVars, savedVars>>

SourceTypes == {"Csv", "Excel", "SqlServer", "RestApi"}
DestinationTypes == {"SqlServer", "PostgreSql"}
LoadStrategies == {"BulkInsert", "Upsert"}

-----------------------------------------------------------------------------
\* The literals of the script.

SourceExamples ==
    [Csv |-> {"filePath", "delimiter", "hasHeaderRecord"},
     Excel |-> {"filePath", "sheetName", "useHeaderRow"},
     SqlServer |-> {"connectionString", "query"},
     RestApi |-> {"url", "method", "headers", "rootArrayProperty", "timeoutSeconds"}]

\* Mutant: the key columns are left to the owner.
ExamplesWithoutKeys ==
    [type \in DestinationTypes |-> {"connectionString", "tableName", "batchSize"}]

DestinationExamples ==
    [SqlServer |-> {"connectionString", "tableName", "keyColumns", "batchSize"},
     PostgreSql |-> {"connectionString", "tableName", "keyColumns", "batchSize"}]

\* The properties that the deserializer knows; it ignores others.
SourceReads(type) ==
    CASE type = "Csv" -> {"filePath", "delimiter", "hasHeaderRecord"}
      [] type = "Excel" -> {"filePath", "sheetName", "useHeaderRow"}
      [] type = "SqlServer" -> {"connectionString", "query"}
      [] type = "RestApi" -> {"url", "method", "headers", "rootArrayProperty", "timeoutSeconds"}

DestinationReads == {"connectionString", "tableName", "keyColumns", "batchSize"}

\* What an extractor refuses to start without.
CsvNeeds == {"filePath"}
ExcelNeeds == {"filePath"}
SqlServerNeeds == {"connectionString", "query"}
RestApiNeeds == {"url"}

SourceNeeds(type) ==
    CASE type = "Csv" -> CsvNeeds
      [] type = "Excel" -> ExcelNeeds
      [] type = "SqlServer" -> SqlServerNeeds
      [] type = "RestApi" -> RestApiNeeds

\* What the loader refuses to load without: in every load, and in an upsert.
TableNeeds == {"connectionString", "tableName"}
UpsertNeeds == {"keyColumns"}

DestinationNeeds(strategy) == TableNeeds \cup (IF strategy = "Upsert" THEN UpsertNeeds ELSE {})

-----------------------------------------------------------------------------
RenderExamples(s, d) ==
    /\ sourceOutput' = SourceExamples[s]
    /\ destinationOutput' = DestinationExamples[d]

\* The page with these values; its script renders.
FormOpens(s, d, sText, dText) ==
    /\ view' = "form"
    /\ source' = s /\ destination' = d
    /\ sourceText' = sText /\ destinationText' = dText
    /\ RenderExamples(s, d)

\* A new form: "{}" in both texts; no option is selected by the server, so the
\* browser takes the first of each.
HelpInit ==
    /\ view = "form"
    /\ source = "Csv" /\ destination = "SqlServer"
    /\ sourceText = {} /\ destinationText = {}
    /\ sourceOutput = SourceExamples["Csv"]
    /\ destinationOutput = DestinationExamples["SqlServer"]
    /\ sourceCopied = "" /\ destinationCopied = ""
    /\ job = NoJob

SelectSource(s) ==
    /\ view = "form"
    /\ source' = s
    /\ RenderExamples(s, destination)
    /\ UNCHANGED <<destination, textVars, savedVars>>

SelectDestination(d) ==
    /\ view = "form"
    /\ destination' = d
    /\ RenderExamples(source, d)
    /\ UNCHANGED <<source, textVars, savedVars>>

\* The owner takes over an example, with values of its own.
CopySource ==
    /\ view = "form"
    /\ sourceText' = sourceOutput /\ sourceCopied' = source
    /\ UNCHANGED <<source, destination, exampleVars, destinationText, destinationCopied, savedVars>>

CopyDestination ==
    /\ view = "form"
    /\ destinationText' = destinationOutput /\ destinationCopied' = destination
    /\ UNCHANGED <<source, destination, exampleVars, sourceText, sourceCopied, savedVars>>

\* POST Create or Edit, which only ask for texts that are not blank.
SaveForm ==
    /\ view = "form"
    /\ view' = "details"
    /\ \E strategy \in LoadStrategies :
          job' = [source |-> source, sourceText |-> sourceText, sourceCopied |-> sourceCopied,
                  destination |-> destination, destinationText |-> destinationText,
                  destinationCopied |-> destinationCopied, strategy |-> strategy]
    /\ UNCHANGED <<source, destination, exampleVars, textVars>>

\* Something else in the form is refused: the page again, with what was posted.
SaveRefused ==
    /\ view = "form"
    /\ FormOpens(source, destination, sourceText, destinationText)
    /\ UNCHANGED <<sourceCopied, destinationCopied, job>>

\* GET Edit.
EditStored ==
    /\ job # NoJob
    /\ FormOpens(job.source, job.destination, job.sourceText, job.destinationText)
    /\ sourceCopied' = job.sourceCopied /\ destinationCopied' = job.destinationCopied
    /\ UNCHANGED job

HelpNext ==
    \/ \E s \in SourceTypes : SelectSource(s)
    \/ \E d \in DestinationTypes : SelectDestination(d)
    \/ CopySource \/ CopyDestination \/ SaveForm \/ SaveRefused \/ EditStored

\* The run gets past the checks of the extractor and, with a record, of the loader.
Starts ==
    /\ SourceNeeds(job.source) \subseteq job.sourceText
    /\ DestinationNeeds(job.strategy) \subseteq job.destinationText

-----------------------------------------------------------------------------
\* The example beside a text is one for the type that is selected, after every change
\* of either select: the extractor and the loader read every property of it, and a
\* misspelt one nothing would report.
ExampleIsRead ==
    /\ sourceOutput \subseteq SourceReads(source)
    /\ destinationOutput \subseteq DestinationReads

\* A job whose texts were copied from the examples of its types starts, with either
\* strategy, however often the selects were changed before, between and after.
CopiedExampleStarts ==
    job # NoJob /\ job.sourceCopied = job.source /\ job.destinationCopied = job.destination => Starts
=============================================================================
