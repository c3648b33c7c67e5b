# ETL Studio: a verification project

TLA+ specifications of ETL Studio (ASP.NET Core MVC, EF Core on PostgreSQL, Hangfire), the TLC
configurations that check them on small instances, and theorems that TLAPS proves for every
instance. Paths below are relative to the repository.

1. [The system](#1-the-system)
2. [Modules](#2-modules)
3. [How the lifecycle model reads the code](#3-how-the-lifecycle-model-reads-the-code)
4. [How the engine model reads the code](#4-how-the-engine-model-reads-the-code)
5. [How the loaders' model reads the code](#5-how-the-loaders-model-reads-the-code)
6. [How the pipeline and the editing models read the code](#6-how-the-pipeline-and-the-editing-models-read-the-code)
7. [How the models of the form and the pages read the code](#7-how-the-models-of-the-form-and-the-pages-read-the-code)
8. [Runs](#8-runs)
9. [Where the code departs from what the repository says](#9-where-the-code-departs-from-what-the-repository-says)
10. [What is proved](#10-what-is-proved)
11. [What is not modelled](#11-what-is-not-modelled)
12. [Plan](#12-plan)

## 1. The system

| Component | State | Operations | Hard part |
|---|---|---|---|
| Job aggregate (`EtlJob`, `EtlJobHistory`, `FieldMapping`) | status, active flag, mappings, history rows, in PostgreSQL | create, edit, activate, deactivate, mark queued / succeeded / failed | loaded, changed and saved as a copy; no concurrency token |
| `EtlJobsController` | none | Run (guard, save, enqueue), Edit, Activate, Deactivate, the pages | two transactions in Run; check-then-act |
| Hangfire | queue of background jobs, retries, in the same PostgreSQL | enqueue, fetch, retry, redeliver | at-least-once delivery, overlap, crash |
| `EtlJobBackgroundJob` | a copy of the job while it runs | load, checks, engine, save, e-mail | minutes between load and save |
| `EtlEngine` | counters and a batch | extract, transform, batch, load | failure or cancellation at any point |
| Loaders (PostgreSQL, SQL Server) | the destination table | bulk insert, upsert, one transaction per batch | concurrent loads, lost answers, limits |
| Extractors (CSV, Excel, REST, SQL Server) | a cursor | yield records | failure in the middle |
| Transformation pipeline, expression evaluator | a static cache of compiled expressions | default, transformations, required check | exceptions, order |
| Failure e-mail (`SmtpEmailSender`) | none | send | throws after the outcome was saved |
| User profile | a row per identity | look up or create on first use | check-then-insert |
| Dashboard, History, Logs | none | read | several reads, no transaction |
| Job form (`etl-job-form.js`, `_JobForm.cshtml`) | rows of the mapping table, the row that is dragged, the editor's text and target | add, remove, drag, change a type, edit code, submit | index bookkeeping; closures and targets that outlive a click; stale hidden fields |
| Configuration examples (`etl-config-help.js`) | two texts | render on every change of two selects | must agree with what extractors and loaders read |
| Code completions (`etl-job-form.js`, `CodeEditorController`) | calls under way | fetch, map | two awaits while the owner types |
| Theme (`site.js`, `_Layout.cshtml`) | an attribute and an icon per tab, `localStorage` | open, toggle | tabs share the storage only; it may refuse |
| Identity pages, middleware, start-up | the libraries' | | none of their own |

How they interact. A browser posts `Run` to the controller, which loads the job, marks it Queued
with a new history entry, saves, and enqueues a Hangfire job. A worker thread of the same process
fetches that, calls `EtlJobBackgroundJob.ExecuteAsync`, which loads the job again, runs the engine
over extractor, transformer and loader, writes the outcome to its copy of the job, saves the copy
and e-mails the owner if it failed. Everything shared is in the database: handlers and workers
never call each other, they overwrite each other's rows.

What makes each component correct:

* Lifecycle: a job shown as Queued is really waiting for an execution; each history entry is
  completed once, by the run it stands for; the status agrees with the history; an accepted run
  comes to an outcome; a failure is reported.
* Engine: the destination holds exactly the valid records of a prefix of the source, once each,
  and all of them when success is reported; the counters tell what happened.
* Loaders: a statement stays within the limits of the server; an upsert leaves one row per key.
* Pipeline: default before transformations before the required check; steps in order.
* Editing: the definition saved is that of one form; no edit overwrites one its handler has not loaded.
* Profile: one profile per identity, and all jobs belong to it.
* Dashboard: its list of runs is not behind its counts.
* Form: what is posted is what is shown, and a save stores it; the editor writes to the row it was opened for.
* Pages: an example is one for the types selected; a completion goes where it was asked for; the
  toggle offers the theme that is not shown.

The hazards, with the line where each bites and the properties that cover it, are listed under
`hazards` in `PROJECT.json`; those no property covers yet have a note that says why (some wait for the plan, section 12).

## 2. Modules

| Module | What it is |
|---|---|
| `EtlJobLifecycle` | one job: Run requests, Hangfire delivery, executions, saves, crashes |
| `RunLedger` | abstract specification: what a reader of the History page may rely on |
| `EtlJobLifecycleProofs` | the lifecycle's invariants and the refinement, proved |
| `MCEtlJobLifecycle` | the lifecycle for TLC |
| `EtlEngine` | one execution of `EtlEngine.ExecuteAsync` |
| `PrefixLoad` | abstract specification: what an execution promises the destination |
| `EtlEngineProofs` | the engine's invariants and the refinement, proved |
| `MCEtlEngine` | the engine for TLC |
| `DestinationLoad` | calls of `LoadAsync` of both loaders, on one destination table |
| `SerialLoads` | abstract specification: loads take effect one at a time, whole or not at all |
| `DestinationLoadProofs` | limits of statements, counts and unique keys, proved |
| `SerialLoadProofs` | that the loaders implement `SerialLoads`, proved |
| `MCDestinationLoad` | the loaders for TLC: settings, batches and tables |
| `TransformationPipeline` | one call of `TransformAsync`: a record through the mappings |
| `TransformationReference` | what the result should be, without loops |
| `TransformationPipelineProofs` | columns and required fields of a valid record, and that the loops give what the reference says, proved |
| `MCTransformationPipeline` | the pipeline for TLC: mappings, records, expressions |
| `JobEditing` | the Edit form posted from several tabs, Activate, Deactivate |
| `JobEditingProofs` | the definition stays whole under overlapping edits, proved |
| `JobForm` | the form's script in one tab: rows, drag, code editor, submit |
| `MappingList` | abstract specification: the owner's list of mappings |
| `JobFormProofs` | the form's invariants and the refinement, proved |
| `MCJobForm` | the form for TLC |
| `ThemeToggle` | the theme in several tabs |
| `ConfigHelp` | examples, selects and texts of the configurations, from the form to a run |
| `CodeCompletions` | calls of the completion provider |
| `OwnerRequests` | first requests of an identity, and its dashboard |
| `PageProofs` | the invariants of these four, proved |
| `MCPages` | `JobEditing` and these four for TLC |

The abstract specifications are small on purpose. `RunLedger` has two actions, Submit and Settle,
and lets the job stay Queued only while some entry is open; `PrefixLoad` says "deliver more of the
source, then report"; `SerialLoads` gives the table after a batch in one expression; `MappingList`
knows a list and no input names, indices or nodes. Each detailed module states as a property
(`ImplementsLedger`, `KeepsPromise`, `ImplementsSerialLoads`, `ImplementsTable`) that its
instance, under a mapping of its variables, behaves that way.

Operators marked "Mutant" in a module are not part of its specification. Each is a definition
changed the way a plausible mistake would change the code, and is there to show that the property
named in `PROJECT.json` notices.

## 3. How the lifecycle model reads the code

| Variable | In the code |
|---|---|
| `status`, `isActive` | columns of `ETLJobs` (`EtlJob.cs:18-19`) |
| `hasMappings` | whether the job has rows in `FieldMappings` |
| `history` | rows of `ETLJobHistory`; `stamp` is 0 while `CompletedAtUtc` is null and grows with every saved completion; `error` is whether `ErrorMessage` is set |
| `request[r]` | how far one POST to Run has come |
| `delivery[r]`, `attempts[r]`, `owner[r]` | the Hangfire job that POST enqueued, its retries and its last fetcher |
| `worker[w]`, `task[w]` | what a Hangfire worker slot is doing, and for which Hangfire job |
| `snap[w]` | what `ExecuteAsync` loaded: status, the outcome of its two checks, the open entries |

**A save is a merge.** EF Core writes only the columns whose value differs from the value loaded,
and no entity has a concurrency token (`EtlJobConfiguration.cs`, `EtlJobHistoryConfiguration.cs`).
So `CompleteLatestExecution(w, outcome)` is a function of the snapshot and of the database as it is
by then: the status column is written only if the outcome differs from the status *loaded*, and a
success over an entry that another execution has failed leaves that entry's error message.

**The entry completed is any open one.** `LastOrDefault` (`EtlJob.cs:180`) runs over a collection
that `GetJobForExecutionAsync` loads without an `OrderBy`, keyed by random Guids. The model picks
any of the entries that were open in the snapshot.

**Run is three steps.** Load and decide; save; enqueue. The save and `Enqueue` are separate
transactions. `SaveQueuedFails` and `EnqueueFails` cover a client that goes away (the request's
token is passed to the save), a database that fails, and both outcomes of a commit whose answer is
lost.

**Hangfire is external** and modelled from how the code uses it: `AddHangfireServer()` with default
options, no retry or concurrency attribute on `ExecuteAsync`. A delivery that throws is retried
`MaxAttempts` times (10 in Hangfire) and then left in its Failed state; one whose worker died is
fetched again after the invisibility timeout; one that runs longer than the timeout may be fetched
a second time while the first runs (`RedeliverEarly`), in which case the first may or may not
notice its cancelled token (`SupersededCancels`); a graceful stop puts it back (`ShutdownCancels`).

**The outcome of the engine** is any of success and failure for a job that passed the two checks,
and failure for one that did not. The e-mail follows only in the first case (`mailing`), and
parsing the addresses can throw after the save (`MailThrows`).

**Owners** activate, deactivate and edit the job at any time. Each of these is one step here: they
read nothing the other handlers write. A job is never deleted (no handler does), so the branch for
a job that does not exist is unreachable. `MarkRunning` is never called: the status Running is
never stored.

Every disruption (crash, failed call, graceful stop, early redelivery) spends one of `MaxFaults`.

## 4. How the engine model reads the code

| Variable | In the code |
|---|---|
| `kind[p]` | what `TransformAsync` does with record `p`: valid, invalid, or an exception |
| `read`, `transformed`, `loaded`, `failed` | the counters of `EtlExecutionResult` |
| `batch` | the records in the list `batch`, by position |
| `dest[p]` | how often record `p` was committed by the loader |
| `outcome` | `none` while running, `success`, `failure` (caught, `IsSuccess = false`), `threw` (a missing extractor or loader, outside the `try`) |
| `cancelled` | the cancellation token |

`pc` names the await the engine is at. The extractor may throw at any record; the transformer
throws on the records chosen for it, and on a cancelled token; the loader throws before it
connects, while it writes, or after its commit took effect (`LoadThrows` with `dest' = Committed`).
A cancelled token is noticed where the code or a library looks at it, and not at the end of the
source: a cancelled execution whose last batch is empty reports success.

## 5. How the loaders' model reads the code

| Variable | In the code |
|---|---|
| `setting` | server, strategy, widths and key columns of the configuration; whether the table has a unique index, a plain one or none on the key; whether the executions that load it are kept from overlapping |
| `batch[l]`, `pc[l]`, `next[l]`, `loaded[l]` | one call of `LoadAsync`: its records, how far it is, the position in its loop, the count it returns |
| `table`, `work[l]` | the committed rows, and the rows written by the open transaction of `l` |

A record is its key (or `NoKey`, a null); what else it carries is stood for by `by`, which record
wrote the row last. A row keeps in `id` which record inserted it, so that duplicates can be told
apart.

* `BulkStatement` is one INSERT of a chunk; `maxRowsPerBatch` is the code's arithmetic with its own
  numbers (2000 and 65000 parameters).
* `UpsertPostgres` is `INSERT ... ON CONFLICT DO UPDATE`: one statement that waits for whoever
  holds the key, then updates or inserts.
* SQL Server's command is two statements. `UpdateSqlServer` updates the rows it finds or goes to
  `inserting`; `InsertSqlServer` is the INSERT under `IF @@ROWCOUNT = 0`. Between the two no lock is
  held for a row that does not exist.
* Rows are locked from their write to the end of the transaction. An UPDATE waits for the rows it
  reads: those of the key with an index, all rows without one. A new entry waits only in a unique
  index. A ring of waits is broken by the server (`DeadlockVictim`).
* Whatever ends a call other than a commit rolls it back: `await using` of the transaction. The
  answer of a commit may be lost.

The servers are external: they are modelled from their documented behaviour as far as these
statements depend on it, at READ COMMITTED, the level `BeginTransactionAsync` leaves in force. A
statement is atomic here; a deadlock inside one INSERT of several rows has the outcome of one
between statements.

## 6. How the pipeline and the editing models read the code

**`TransformationPipeline`.** One call of `TransformAsync`, one step per loop iteration. `mappings`
is the list as the background job passes it, in any order; `FirstOf` is `OrderBy`, which is stable.
A text is what the steps tell apart in it: blank or not, white space at its ends, its case, whether
it reads as a date. A custom expression is a function of the value (the record is fixed during a
call) that may throw; `script` holds one for each parameter. The format of a DateFormat step is
free text that `TransformationStep.Create` only asks not to be blank: `Written` says for each how it
writes a date (as a date again, as another text, as white space), and a malformed one throws
(`FormatException`, `TransformationPipeline.cs:75`), but only for a value that reads as a date. The static cache of compiled
expressions (`RoslynExpressionEvaluator.cs:17`) changes no result: a lost race compiles twice.
`pc` ends as `valid`, `invalid` or `threw`, the three kinds of record of `EtlEngine`.

**`JobEditing`.** `columns`, `rows` and `isActive` are the database; `copy[e]` is what the handler of
a POST has loaded, `hidden[e]` the `IsActive` the form was rendered with and sends back
(`_JobForm.cshtml:176`). A save merges: a column is written if the form differs from the copy. The
mapping rows are another matter: `ReplaceFieldMappings` drops all and adds new ones under new
Guids, so a save deletes every row of the copy and EF Core rolls it back when one is gone already
(`SaveEdit` needs `copy[e].rows \subseteq rows`). `Documents` are definitions as owners write them,
whose parts belong together; a mix of two is in general no member. `seen` is not in the code: it
records the values of `isActive` since a form was rendered, for a property.

## 7. How the models of the form and the pages read the code

**`JobForm`.** A browser runs an event handler to its end before the next, so a handler is one
action. What a handler leaves behind is a variable.

| Variable | In the code |
|---|---|
| `rows` | `tr.mapping-row` in document order: the node, the index in the names of its inputs, the hidden `Order`, type and parameter, whether the Required box is ticked, whether the button is shown and the input read-only |
| `drag`, `dragSource` | the browser's drag; the script's variable |
| `monacoEditorReady`, `onMonacoReady` | the page's two globals; of the closure the code it captured |
| `editorInstance`, `currentInputTarget`, `modal` | the editor's text, the row whose input Save writes to, whether the dialog is shown |
| `page`, `stored` | the form or another page; the mappings in the database |
| `asked`, `opened` | not in the code: whose code the closure has, and what the editor was opened with |

* The model binder of MVC is external: `Bind` takes the items 0, 1, ... up to the first index that
  no name has, each from the first input of its name. A row has two inputs named `IsRequired`, a
  hidden "false" and after it the box (`RequiredInputs`): the binder hears the first.
* The select's first option, None, posts 0, which is no member of `TransformationType`. MVC's binder
  of enums refuses it, so that `ModelState` (`ModelStateIsValid`) sends the form back: `Accept` needs
  a transformation in every row. `BuildDomainMappings`, which sorts by `Order`, would leave such a
  step out (`Kept`), but is not reached with one.
* `NeedParameter` are the types that `TransformationStep.Create` refuses without a parameter.
  Parameters are taken without the blanks around them, which a save trims.
* Monaco comes from a CDN by `require`, after the script has run: `MonacoLoads` happens at any time
  or never. A row that was removed stays a node while the editor refers to it: `Unused` keeps it
  apart from new rows, and `SaveCode` then writes to no row of the document.
* The dialog is modal and a drag takes the input (`AtForm`); a file or a text dragged in from
  elsewhere can still be dropped on a row (`Drop` with `drag = "none"`).

**`ThemeToggle`.** The head script, `DOMContentLoaded` and a click are three moments per tab; the
storage is one for all. `localStorage` may throw at each use: in the head the attribute is then
not set, in the toggle it is set and neither storage nor icon follow.

**`ConfigHelp`.** A configuration is the set of its property names: the examples are those of the
script, `SourceReads` and `DestinationReads` the properties of the configuration classes,
`SourceNeeds` and `DestinationNeeds` the guards of the four extractors and of the loaders (in every
load, and of the key columns in an upsert). Saving asks for texts
that are not blank, so any pair of types and texts can be stored and edited again.

**`CodeCompletions`.** Each call of the provider is a closure with the code and range it began
with. Between its two awaits the owner types, other calls begin and end, and the page may go. A
place is a code with a cursor; what the server suggests depends on whether it is in a member access
whose receiver has a type. Roslyn and Monaco are external.

**`OwnerRequests`.** `GetCurrentOwnerIdAsync` is the same text in both controllers: look up, else
insert, against a unique index on the identity. `Index` of the dashboard is five queries, one step
each; Activate, Deactivate, Run and the ends of executions happen between them. One identity is
enough, since no query reaches the rows of another. `jobsBefore` and `hadProfile` are not in the
code: they say what there was when the request arrived. Runs are a part of the history and keep
their places in it, so the recent ones are those with fewer than `RecentCount` after them, and the
list is full when it has `RecentCount` (`RecentAssumption`: a natural number; `Index` takes 10).

## 8. Runs

| Run | Instance | Checks | States |
|---|---|---|---|
| `lifecycle_overlap` | 2 requests, 2 workers, 1 retry, 1 fault, fairness | `TypeOK`, `QueuedHasOpenRun`, `QueuedIsOwedAnExecution`, `QueuedSettlesOrIsStranded` | 0.9 M |
| `lifecycle_serial` | 3 requests, 1 worker, 1 retry, 1 fault | `SucceededHasNoError`, `OpenRunsAreOwed`, `ImplementsLedger` | 1.1 M |
| `engine` | 5 records of any kind, batches of 2 | `TypeOK`, `CountersAddUp`, `LoadedIsDelivered`, `KeepsPromise` | 6 k |
| `loads` | 2 loads of up to 3 records, 2 keys and nulls, 30 settings that serialize, fairness | `TypeOK`, `StatementFits`, `CountIsBatch`, `UpsertKeepsKeysUnique`, `ImplementsSerialLoads`, `EveryLoadEnds` | 0.7 M |
| `pipeline` | one or two mappings in either order, 8 lists of steps, 4 date formats, 10 records, 2 scripts | `TypeOK`, `SameColumns`, `RequiredIsPresent`, `EndsAsExpected` | 1.3 M |
| `editing` | 2 edits, 1 button, 3 definitions, 3 saves, symmetry; 2 tabs; all types; 2 calls, 2 places; 2 requests, 1 job, 2 runs, a list of 2 | `TypeOK`, `DefinitionIsCoherent`, `EditsApplyInTurn`, `EditKeepsActivity`, `IconMatchesTheme`, `OpensAsChosen`, `CopiedExampleStarts`, `ReturnsWhatWasAsked`, `DashboardCountsEveryJob`, `RecentRunsCoverTheCounts` | 3.3 M |
| `job_form` | 3 rows, 4 nodes, 3 types, 2 parameters, symmetry, `TableOrEditor` | `TypeOK`, `PostedIsShown`, `AccessFollowsType`, `DropsWhatIsDragged`, `EditorShowsTarget`, `NoClickIsLost`, `DropTakesThePlace`, `SaveReplacesWhatWasSeen`, `ImplementsTable` | 0.2 M |
| `double_run`, `completed_twice`, `stranded`, `duplicate_keys`, `required_box` | the smallest that shows it | one property each, violated: section 9 | |

**Why two requests and two workers are enough for overlap.** What goes wrong between executions is
that one loads before and saves after another, or that a Run saves in between. Two executions and
two Runs, which a double Run lets overlap without any fault, give: two overlapping executions of
different Runs; two of the same Run (early redelivery, the one fault); a Run between the load and the
save of an execution of an earlier one; a crash and a redelivery, a failed save or a retry on top of
either of the two that need no fault. The theorems of section 10 remove the bound for all but the
liveness.

**Why three requests for the serial run.** An entry can be orphaned by one double Run, and the
third request shows what later executions make of it.

**What each property says**

* `QueuedHasOpenRun`: a job shown as Queued has an open history entry. Not obvious: an execution
  that loaded an older state completes entries and skips the status column when it believes it
  unchanged.
* `QueuedIsOwedAnExecution`: a job shown as Queued has a Hangfire job that has not come to its end
  (or a request that never got to enqueue one). With the guard of Run this is what keeps an
  interleaving from blocking a job although no crash happened.
* `SucceededHasNoError`, `OpenRunsAreOwed`, `ImplementsLedger`: hold only when the executions of a
  job do not overlap, which the instance makes so with one worker. With two, TLC violates all three
  within seconds; section 9 states the sharpest of these (`CompletedOnce`) against the code's own
  words. What overlapping executions do to an entry, the error text left beside a success among it,
  is therefore shown by `completed_twice` and not by `SucceededHasNoError`.
* `QueuedSettlesOrIsStranded`: a Queued job comes to an outcome, or is stranded by the gap in Run
  or by spent retries.
* `KeepsPromise`, `LoadedIsDelivered`, `CountersAddUp`: section 1, engine. Five records and
  batches of two give a full batch, a second full batch and a final partial one, or, with invalid
  records among them, every split of that; the theorem covers every size.
* `StatementFits`: no INSERT exceeds the parameters or the rows its server accepts. The loaders
  bound the parameters; the limit of 1000 rows in SQL Server is kept only by the engine's batches.
* `CountIsBatch`: what a load returns is the number of its records, also when an UPDATE changes two
  rows or none. `EtlEngine` relies on it when it adds the count to `RecordsLoaded`.
* `UpsertKeepsKeysUnique`, `ImplementsSerialLoads`: hold where the key has a unique index, or
  executions do not overlap, or rows are only added (the settings of `loads`). Where none of these
  is the case section 9 shows a duplicate.
* `EndsAsExpected`: the loops give what the reference says: default, then steps, then the required
  check; mappings and steps by `Order`, not by place; the last mapping of a column wins; and where an
  expression or a malformed date format throws, nothing after it counts: the call ends with the
  exception if the steps before it let the value come to it, and with an invalid record if an earlier
  mapping failed its check.
* `SameColumns`: every valid record has the columns of all mappings, also where a value is null. The
  loaders take the columns of a batch from its first record.
* `RequiredIsPresent`: a required mapping leaves a value in its column, unless a second mapping
  writes the same column (which nothing forbids).
* `DefinitionIsCoherent`, `EditsApplyInTurn`: overlapping edits are never mixed and never silently
  overwritten. No token guards them; what does is the deletion of the mapping rows, and it would be
  lost if unchanged mappings were kept (the mutant `SaveDifference`) or a job had none.
* `EditKeepsActivity`: an edit does not switch the job on or off beyond a value it has had since the
  form was rendered. An older value may come back, so the property does
  not catch a stale form: see the hazards.
* `PostedIsShown`, `ImplementsTable`: after any adding, removing and dragging the names and orders
  are such that the binder makes of the inputs exactly the rows shown, each with its type and
  parameter (and none required, `Posted`), and every handler does to them what one may do to a list,
  or nothing: a save takes place only if every row has a transformation and its parameter. `DropTakesThePlace` is the same for one drop: the two
  directions differ by one.
* `AccessFollowsType`: who looks at all rows has to look again after every change of one.
* `DropsWhatIsDragged`, `EditorShowsTarget`, `NoClickIsLost`, `SaveReplacesWhatWasSeen`: what a
  handler left behind is still right when another uses it. The last leaves out an editor that
  opened when Monaco came, because there it is wrong: the closure has the code of the click, and
  what was typed since is lost with its Save.
* `IconMatchesTheme`, `OpensAsChosen`: of several tabs. A toggle that the storage refused does leave
  the wrong icon till the next click; the first leaves that case out, and says that nothing else does.
* `CopiedExampleStarts`: from example to run: a job whose two texts were copied while the types it
  is saved with were selected passes all checks of its extractor and loader. It says nothing of a type
  changed after its text was written.
* `ReturnsWhatWasAsked`: labels and range are of the code that was asked about.
* `DashboardCountsEveryJob`: two first requests cannot leave jobs with a profile that later pages
  do not look at. `RecentRunsCoverTheCounts` depends on the order of the queries: the list is read
  last. It takes from the lifecycle that executions of one job do not overlap, for an entry that is
  completed twice can change after it was counted (`completed_twice`).
* `EveryLoadEnds`: waiting loads end, because what they wait for ends or is a deadlock.

**Why two loads are enough for the loaders.** A race over a key, a wait and a deadlock each need
two transactions. Batches of two and three records give keys that repeat, keys in opposite orders,
nulls, and, at 667 and 1024 columns, batches that take several statements. Tables start empty, with
a row of the key, or with two.

**Why these are enough for the pipeline and for editing.** Two mappings are what order, overwriting and a
failure before or after a success need; the lists of steps include pairs that do not commute,
listed against their order, and with equal orders. Overlapping edits conflict in pairs, and a third
save shows a copy that is two saves old. The theorems cover the rest.

**Why these are enough for the form and the pages.** Three rows have a middle, so that a drop goes
up or down by one and by two, and a removal leaves a gap inside; the fourth node is the row that is
gone while the editor refers to it. The types are None, one that needs a parameter and one that does
not. `TableOrEditor` bounds the product: three rows and all their boxes while the editor has not been
asked for, two rows with no box ticked with the editor (which reads neither boxes nor the rows
beside its own), and forms of at most two rows opened again. Two tabs, calls or requests cross in every order. One job with
two runs and a list of two gives a list that is full and one that is not. The five parts of
`editing` share no state, so each moves while the others rest (`part`), and the run checks each in
all its behaviours.

**Fairness.** Weak fairness of `SaveQueued` and `Enqueue` (a handler that was let in runs on), of
`Fetch \/ Redeliver` per Hangfire job (Hangfire polls its queue and its timeouts), and of `LoadJob
\/ SaveOutcome \/ Finish` per worker (an execution gets on; the engine is assumed to end). For the
loaders: the steps of a call that began, and the servers' deadlock detection. Weak is
enough: none of these is disabled again and again by others. Nothing is assumed of owners, of new
requests or of faults, nor of the network (Monaco may never come). The instance allows finitely many faults, as any run with progress must.

**Bounds.** `MaxFaults`, `MaxAttempts`, the sets `Requests` and `Workers`, and `N` in the engine.
`MaxSaves` bounds the saves of forms, `MaxRows` the rows that are added, `MaxJobs` and `MaxHistory`
the jobs and runs beside a dashboard. `CHECK_DEADLOCK FALSE` is used for the engine, the loaders
and the pipeline only, whose calls end
(`EveryLoadEnds` shows that no load is stuck). In the lifecycle owners
can always act, so deadlock checking finds nothing there; that no execution is stuck is what
`QueuedSettlesOrIsStranded` shows.

## 9. Where the code departs from what the repository says

| Run | The repository says | The code does |
|---|---|---|
| `double_run` | `EtlJobsController.cs:277` "This ETL job is already queued or running." | two requests that both load before either saves are both accepted: the job is executed twice |
| `completed_twice` | `EtlJobHistory.cs:49` "This ETL execution history entry is already completed." | the guard sees only the copy; overlapping executions complete one entry twice |
| `stranded` | `PHASE7-BACKGROUND-JOBS.md:17-30`: marks as Queued, enqueues, the worker updates to Succeeded or Failed | a crash between save and enqueue leaves the job Queued for ever and Run refuses it |
| `duplicate_keys` | `README.md:32` "`Upsert` to elegantly avoid duplicates" | two overlapping upserts into a SQL Server table whose key has no unique index both update no row and both insert |
| `required_box` | `_JobForm.cshtml:101` "Required" over the box; `PHASE4-ETL-SERVICES.md:44` "Validates required mapped fields." | the hidden "false" of the same name comes before the box and is what the binder takes: no mapping saved by the form is required |

The form also says (`_JobForm.cshtml:69`) that `batchSize` controls the write throughput; the
configured size is parsed and never read, and `EtlEngine` always works with the request's default.
A row left at None, the first option of its select, keeps the form from being saved, although
`EtlJobsController.cs:434` leaves such a step out; `ImplementsTable` fixes what happens.
And `EtlJobBackgroundJob.cs:108` says "Send failure notification email if job failed", while a job
found inactive or without mappings fails and returns before that line. These are plain from the code
and have no run of their own. Through the form, then, every mapping has a step and none is required; the model
of the pipeline nevertheless takes any list that the domain and `IEtlEngine` admit.

## 10. What is proved

For every set of requests and workers, every number of retries and faults, every source and batch
size, for any tables, batches, mappings and pages. The assumptions are the named `ASSUME`s of the
modules (`NoRunAssumption`,
`BoundsAssumption`, `SizesAssumption`, `DestinationAssumption`, `PipelineAssumption`,
`DocumentsAssumption`, `TypesAssumption`, `BlankAssumption`, `NodesAssumption`, `NothingAssumption`,
`NoThemeAssumption`, `PlacesAssumption`, `RecentAssumption`) and nothing else, but where the table
says `OneExecuting` (at most one slot at a time is between its load of the job and its save: a
single worker gives this, by `OneWorkerIsSerial`, and so would a lock held over the execution; the
code itself does not, which is what the violations of section 9 show) or "serial settings"
(`Exclusive`: every setting with Upsert has a unique index on the key or executions that do not overlap; nothing
is asked of BulkInsert). `DocumentsAssumption`, that an owner's
definition has mappings, is what `AlwaysARow` proves of the form.

| Theorem | States |
|---|---|
| `TypeCorrect` | `Spec => []TypeOK` |
| `QueuedOpen` | `Spec => []QueuedHasOpenRun` |
| `QueuedOwed` | `Spec => []QueuedIsOwedAnExecution` |
| `SerialErrors` | `Spec /\ []OneExecuting => []SucceededHasNoError` |
| `SerialRefinement` | `Spec /\ []OneExecuting => ImplementsLedger` |
| `SerialOpenRuns` | `Spec /\ []OneExecuting => []OpenRunsAreOwed` |
| `OneWorkerIsSerial` | `Workers = {v}`: the three above from `Spec` alone |
| `EngineTypes` | `Spec => []TypeOK` |
| `EngineCounters` | `Spec => []CountersAddUp` |
| `EngineLoadedIsDelivered` | `Spec => []LoadedIsDelivered` |
| `EngineKeepsPromise` | `Spec => KeepsPromise` |
| `LoadTypes` | `Spec => []TypeOK` |
| `StatementsFit` | `Spec => []StatementFits`, for tables as wide as the server allows |
| `LoadCounts` | `Spec => []CountIsBatch` |
| `UpsertUnique` | serial settings: `Spec => UpsertKeepsKeysUnique` |
| `LoadsAreSerial` | serial settings: `Spec => ImplementsSerialLoads` |
| `PipelineTypes`, `ColumnsAgree`, `RequiredFields` | `Spec => []TypeOK`, `[]SameColumns`, `[]RequiredIsPresent` |
| `PipelineIsExpected` | `Spec => []EndsAsExpected` |
| `EditingTypes`, `DefinitionCoherent` | `Spec => []TypeOK`, `[]DefinitionIsCoherent` |
| `EditsInTurn`, `EditActivity` | `Spec => EditsApplyInTurn`, `EditKeepsActivity` |
| `TypeCorrect`, `PostsWhatIsShown`, `AlwaysARow`, `AccessCorrect` (form) | `Spec => []TypeOK`, `[]PostedIsShown`, `[]NeverEmpty`, `[]AccessFollowsType` |
| `DragCorrect`, `EditorCorrect`, `ClicksAreKept` | `Spec => []DropsWhatIsDragged`, `[]EditorShowsTarget`, `[]NoClickIsLost` |
| `SavesOverWhatWasSeen`, `DropsTakePlaces`, `TableIsList` | `Spec => SaveReplacesWhatWasSeen`, `DropTakesThePlace`, `ImplementsTable` |
| `IconsCorrect`, `ThemeKept` | `ThemeSpec => []IconMatchesTheme`, `OpensAsChosen` |
| `ExamplesRead`, `ExamplesStart` | `HelpSpec => []ExampleIsRead`, `[]CopiedExampleStarts` |
| `CompletionsCorrect` | `CompletionSpec => []ReturnsWhatWasAsked` |
| `JobsAreCounted`, `ProfileIsFound` | `OwnerSpec => []DashboardCountsEveryJob`, `[]LaterRequestsHaveTheProfile` |
| `RecentRunsCover` | `OwnerSpec => []RecentRunsCoverTheCounts` |

The arguments:

* **`QueuedOpen`.** `QueuedHasOpenRun` is not inductive: an execution may complete the very entry
  that keeps it true. The strengthening `QueuedWitness` says that while the job is Queued some
  open entry is safe from every execution that would leave the status alone: an execution that
  loaded anything other than Queued either overwrites the status with its outcome (then nothing is
  claimed) or has the entry outside its snapshot, since the entry was added after its load.
* **`QueuedOwed`.** `QueuedDebt` names the request: a Queued job has a request whose Hangfire job
  is neither finished nor in the hands of an execution that has already saved. `Bookkeeping` ties
  `task`, `delivery` and `request` together (a slot works on a request that was enqueued; a worker
  that has saved leaves the status settled, unless a newer request made it Queued again).
* **`SerialErrors`, `SerialRefinement`.** Under `OneExecuting`, `FreshSnapshot` says that the entries
  of a snapshot are still open when it saves, because nobody else completes entries. Then a completion
  is a Settle of the ledger, and `RowErrors` (an open entry has no error) gives the first theorem.
* **`SerialOpenRuns`.** That there are no more open entries than requests that owe an execution
  (`OwedSet`) is not inductive: a save closes an entry before its request is paid, and the return
  pays a request without closing one. `SerialDebt` therefore sets aside the owed requests whose
  execution has settled (`SettledRuns`: it has saved, or found nothing open to complete) and asks the
  others to cover the open entries. A save closes an entry and settles its request at most
  (`SavingCloses`); a load that finds nothing open may settle one, when there is nothing to cover; a
  return pays a request that had settled (`OwedPaid`); a Run adds one to both sides (`QueueingOpens`,
  `OwedGrows`); any other step only unsettles. Requests are counted, not executions, so a
  redelivery to a second slot, even an early one, is covered as long as the two do not execute at
  once.
* **`EngineKeepsPromise`.** The inductive part says that the destination is exactly the valid
  records up to some position, and the batch exactly the valid ones after it up to the one read
  last. A load then moves the position, and the end of the source makes it `N`.
* **`EngineCounters`.** The two sums and the finiteness of the batch, with the cardinality of a
  batch that grows by a new position.
* **`EngineLoadedIsDelivered`.** `LoadedInv`: while the engine runs, exactly as many records are
  delivered as are counted, and a batch below its size when the next record is read. A commit
  delivers the batch, none of which was delivered before (`CommitCounts`, by the position of
  `EngineKeepsPromise`); only a load that throws after its commit leaves a batch, of at most
  `batchSize`, uncounted.
* **`StatementsFit`.** A chunk has at most `maxRowsPerBatch` rows and at most those left in the
  batch; a quotient times its divisor stays below the dividend.
* **`UpsertUnique`.** Not inductive as it stands: the table is unique because what each open
  transaction sees is (`Unique(Visible(l))`). That is kept by two facts: no two open transactions
  hold one key (`HeldApart`), and, where loads do not overlap, the UPDATE's verdict is still right
  when the INSERT comes (`StillMissing`). At a commit the rows of one transaction meet those of
  another, which is where `HeldApart` is needed, and where `RowKeys` (the key of a row follows from
  who inserted it) shows that a version replaces a row of the same key.
* **`LoadsAreSerial`.** `SerialLoads` applies a batch to the table as it is at the commit, while the
  code wrote its rows against the table as it was at each statement. `EffectInv` closes the gap: what
  an open transaction holds is at every moment what its records so far do to the table of now. Each
  row held was written by the last record of its key (`HeldByLast`); it is a version of a row of the
  table, or stems from the first record of a key the table lacks (`HeldFrom`); and every row of a key
  already written is held (`HoldsKeys`). Statements extend this by one record (`UpdateEffect`,
  `NewRowEffect`, `BulkEffect`); the commit of another keeps it because of `HeldApart`
  (`CommitKeepsEffect`). The ids of an open transaction are in no committed row (`FreshIds`). Then
  what a transaction sees at its end is `Upserted`, or `Inserted`, of the table
  (`UpsertedIsVisible`, `InsertedIsVisible`), and its commit is `TakeEffect`. Without a unique index
  and with overlap `HeldApart` is lost, and `duplicate_keys` shows what follows.

* **`ColumnsAgree`, `RequiredFields`.** `ColumnsSoFar`: the record has the columns of the mappings dealt
  with, and each value was stored by one of them past its required check. That `OrderBy` yields an
  item not seen yet (`FirstIsNext`) rests on the well-foundedness of `<` on the naturals, used twice.
* **`PipelineIsExpected`.** `Expected` says how far the loops are in terms of the reference: the
  mappings dealt with are the first in order and none of them fails, each column has the value of the
  last of them that names it (`DoneInOrder`), and the value in hand is that of the steps applied
  (`InHand`). That the loop's next item is the reference's n-th is `NextInOrder`. `After` is defined
  by recursion, and that there is such a function at all (`FollowsExists`) is shown without
  induction: of the lengths for which there were none the least would be positive, and one step
  longer than one for which there is.
* **`DefinitionCoherent`, `EditsInTurn`.** `CopiesAreOfOneSave`: the rows of a copy are those of one
  save, and if that is the last one, the copy is what is stored. A copy has at least one row
  (`DocumentsAssumption`); a save finds it only if it is of the last save, hence saves over exactly
  what it loaded and leaves exactly its form.

* **`PostsWhatIsShown`, `TableIsList`.** `IInv` is `RowsInv /\ EditorInv /\ ServerInv`. The heart of it
  is that the rows are indexed by their places (`Indexed`): then the binder's length is that of the
  table, its k-th item is the k-th row, and sorting by `Order` changes nothing (`BindReadsRows` and
  the lemma on `OrderBy` after it); of the two inputs `IsRequired` the head is the hidden one
  (`PostedItem`), which is why both theorems say what is posted *but for the tick*. Ticking changes
  one row in place (`TickStep`); `Accept` has looked at ModelState, so that no step is filtered and
  the list's Save, which asks for a transformation in every row, is what happens. `InsertBeforeMoves` says where each row is after DOM's
  `insertBefore`, and agrees with `InsertAt` of `RemoveAt`, which is how the list says it.
* **`EditorCorrect`, `SavesOverWhatWasSeen`.** A closure waits only for the row the target is set to
  (`EditorWaits`), and while the editor shown was opened at once nothing under it changes
  (`EditorCovers`), which is what the modal dialog is needed for.
* **`ExamplesStart`.** The examples are those of the selects (`ExamplesShown`) in every state, so a text
  that was copied is the example of the type noted beside it, in the form and in the job.
* **`JobsAreCounted`.** There is at most one profile (`OneProfile`); every job and every request past
  its owner has it (`OneOwner`); so a count by owner is a count of all jobs, and
  jobs only become more (`JobsCounted`).
* **`RecentRunsCover`.** `RunsInv`: the counts that a request has read are not more than the runs there
  are now, for a completed run stays as it is (`RunsStay`), so each query that comes later covers the
  earlier ones. A list shorter than it may be is the whole history (`ShortListIsWhole`: the latest
  run left out has `RecentCount` after it, which fill the list).

`ExampleIsRead`, `LaterRequestsHaveTheProfile` and `NeverEmpty` are stated and proved, and no run
checks them.

Only model-checked: `EveryLoadEnds` and `QueuedSettlesOrIsStranded`, since liveness under fairness
needs `ENABLED`, which is out of TLAPS's reach here, and the five violations. Every other property
that a run checks is the statement of a theorem.

## 11. What is not modelled

* The counters on a history row. Like the error text they are merged column by column, so
  overlapping executions can leave a row with counters of both; `CompletedOnce` covers the cause.
* `EtlExecutionResult.ValidationErrors`, which nobody reads.
* The number the server returns for a statement; the engine's model takes it to be the size of the
  batch. (`SET NOCOUNT ON` or triggers can change it.)
* Which label of a completion fits what was typed, and the identities that other users have.
* Formatting, logging, page layout, the wording of messages and e-mails.
* The components listed as `not_modelled` in `PROJECT.json`, each with its reason there.

## 12. Plan

Done: the lifecycle with its ledger, the engine with its promise, the loaders with serial loads,
the transformation pipeline, editing, the form with its list, the pages, and their theorems. Next,
in this order:

1. `Reexecution`: lifecycle × engine × destination: retries after a committed load, an e-mail that
   throws, a save that is cancelled. What a destination may hold after an accepted Run.
2. Extraction: what each extractor yields at the edges (no header, empty sheets, pages).
3. Proofs: what the ledger keeps of its promise with any number of workers, and how far the engine's
   promise carries over to the table when its loads are those of `DestinationLoad`.
