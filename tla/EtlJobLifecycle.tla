--------------------------- MODULE EtlJobLifecycle ---------------------------
(***************************************************************************)
(* The life of one ETL job: Run requests arriving at EtlJobsController,    *)
(* the two transactions a Run makes (the job row with its history entry,   *)
(* then the Hangfire job), Hangfire's at-least-once delivery, and the      *)
(* workers that execute EtlJobBackgroundJob.ExecuteAsync over a snapshot   *)
(* of the job and write their outcome back.                                *)
(*                                                                         *)
(* One save is one transaction.  Entity Framework updates only the columns *)
(* that differ from the values the handler loaded, and no entity has a     *)
(* concurrency token, so a save is a merge of those columns into whatever  *)
(* the row holds by then.  The model keeps that: a handler remembers what  *)
(* it loaded, and its save is a function of that memory and the database.  *)
(*                                                                         *)
(* Every disruption by the environment (process crash, graceful stop, call *)
(* that fails with or without effect, delivery repeated while the first    *)
(* one still runs) spends one of MaxFaults.                                *)
(***************************************************************************)
EXTENDS Naturals, Sequences, FiniteSets

CONSTANTS
    Requests,     \* POSTs to EtlJobsController.Run for this job
    Workers,      \* Hangfire worker slots of the web process
    MaxAttempts,  \* retries Hangfire grants a delivery that throws (10 there)
    MaxFaults,    \* bound on disruptions by the environment
    NoRun         \* the task of an idle worker

ASSUME NoRunAssumption  == NoRun \notin Requests
ASSUME BoundsAssumption == MaxAttempts \in Nat /\ MaxFaults \in Nat

VARIABLES
    status,       \* EtlJob.CurrentStatus, as stored
    isActive,     \* EtlJob.IsActive, as stored
    hasMappings,  \* whether any FieldMapping row exists
    history,      \* the EtlJobHistory rows of the job
    request,      \* request[r]: how far the handler of Run has come
    delivery,     \* delivery[r]: the Hangfire job that request r enqueued
    attempts,     \* attempts[r]: retries already spent on that Hangfire job
    owner,        \* owner[r]: the worker that fetched it last
    worker,       \* worker[w]: what the slot is doing
    task,         \* task[w]: the request whose Hangfire job the slot holds
    snap,         \* snap[w]: what ExecuteAsync loaded
    faults        \* disruptions so far

jobVars      == <<status, isActive, hasMappings, history>>
requestVars  == <<request>>
hangfireVars == <<delivery, attempts, owner>>
workerVars   == <<worker, task, snap>>
vars == <<jobVars, requestVars, hangfireVars, workerVars, faults>>

-----------------------------------------------------------------------------
(* The job aggregate *)

Status   == {"Draft", "Queued", "Running", "Succeeded", "Failed"}
Outcomes == {"Succeeded", "Failed"}

\* A history entry.  stamp stands for CompletedAtUtc: 0 is null, and every
\* Complete() that is saved writes a later value.
Row == [status : Status, error : BOOLEAN, stamp : Nat]

\* EtlJobHistory.Started
Started(s) == [status |-> s, error |-> FALSE, stamp |-> 0]

\* EtlJobHistory.Complete, as saved over the stored row.  ErrorMessage is null
\* in the snapshot and stays null on success, so a success writes no
\* ErrorMessage column and leaves whatever another execution stored there.
Complete(row, outcome) ==
    [status |-> outcome,
     error  |-> row.error \/ outcome = "Failed",
     stamp  |-> row.stamp + 1]

\* The filter by which CompleteLatestExecution looks for its entry.
AnyRow(row) == TRUE
IsOpen(row) == row.status \in {"Queued", "Running"} /\ row.stamp = 0

\* Mutant: positions counted from zero.
OpenRowsFromZero == {i - 1 : i \in {j \in DOMAIN history : IsOpen(history[j])}}

OpenRows == {i \in DOMAIN history : IsOpen(history[i])}

NotLoaded == [status |-> "Draft", ready |-> FALSE, open |-> {}]

Init ==
    /\ status = "Draft"
    /\ isActive = TRUE
    /\ hasMappings \in BOOLEAN
    /\ history = <<>>
    /\ request = [r \in Requests |-> "new"]
    /\ delivery = [r \in Requests |-> "absent"]
    /\ attempts = [r \in Requests |-> 0]
    /\ owner = [r \in Requests |-> {}]
    /\ worker = [w \in Workers |-> "idle"]
    /\ task = [w \in Workers |-> NoRun]
    /\ snap = [w \in Workers |-> NotLoaded]
    /\ faults = 0

Fault == /\ faults < MaxFaults
         /\ faults' = faults + 1

-----------------------------------------------------------------------------
(* EtlJobsController.Activate, Deactivate and Edit.  Each loads the job and  *)
(* writes IsActive (Edit also the mappings) in one save; they read nothing   *)
(* else the handlers here write, so each is one step.                        *)

Activate   == /\ isActive' = TRUE
              /\ UNCHANGED <<status, hasMappings, history, requestVars,
                             hangfireVars, workerVars, faults>>

Deactivate == /\ isActive' = FALSE
              /\ UNCHANGED <<status, hasMappings, history, requestVars,
                             hangfireVars, workerVars, faults>>

Edit       == /\ isActive' \in BOOLEAN
              /\ hasMappings' \in BOOLEAN
              /\ UNCHANGED <<status, history, requestVars, hangfireVars,
                             workerVars, faults>>

-----------------------------------------------------------------------------
(* EtlJobsController.Run, cut where it awaits the database and Hangfire. *)

\* Load the job and decide: no mappings and "already queued or running" are
\* turned away.  IsActive is not looked at.
LoadForRun(r) ==
    /\ request[r] = "new"
    /\ request' = [request EXCEPT ![r] =
           IF hasMappings /\ status \notin {"Queued", "Running"}
           THEN "saving" ELSE "rejected"]
    /\ UNCHANGED <<jobVars, hangfireVars, workerVars, faults>>

\* Mutant: the status is set but no history entry is added.
MarkQueuedWithoutEntry == /\ status' = "Queued"
                          /\ UNCHANGED <<isActive, hasMappings, history>>

\* EtlJob.MarkQueued and its save.  The status loaded was not Queued, so the
\* column is always written, whatever the row holds by now.
MarkQueued == /\ status' = "Queued"
              /\ history' = Append(history, Started("Queued"))
              /\ UNCHANGED <<isActive, hasMappings>>

SaveQueued(r) ==
    /\ request[r] = "saving"
    /\ MarkQueued
    /\ request' = [request EXCEPT ![r] = "enqueueing"]
    /\ UNCHANGED <<hangfireVars, workerVars, faults>>

\* The save throws: the client is gone or the database is.  It may have been
\* committed all the same.
SaveQueuedFails(r) ==
    /\ request[r] = "saving"
    /\ Fault
    /\ \/ /\ request' = [request EXCEPT ![r] = "rejected"]
          /\ UNCHANGED jobVars
       \/ /\ request' = [request EXCEPT ![r] = "errored"]
          /\ MarkQueued
    /\ UNCHANGED <<hangfireVars, workerVars>>

\* IBackgroundJobClient.Enqueue, a transaction of its own.
Enqueue(r) ==
    /\ request[r] = "enqueueing"
    /\ request' = [request EXCEPT ![r] = "accepted"]
    /\ delivery' = [delivery EXCEPT ![r] = "enqueued"]
    /\ UNCHANGED <<jobVars, attempts, owner, workerVars, faults>>

EnqueueFails(r) ==
    /\ request[r] = "enqueueing"
    /\ Fault
    /\ request' = [request EXCEPT ![r] = "errored"]
    /\ \/ UNCHANGED delivery
       \/ delivery' = [delivery EXCEPT ![r] = "enqueued"]
    /\ UNCHANGED <<jobVars, attempts, owner, workerVars>>

-----------------------------------------------------------------------------
(* Hangfire (external): fetch, completion, retry, redelivery. *)

Holders(r) == {w \in Workers : task[w] = r}

Take(w, r) ==
    /\ worker[w] = "idle"
    /\ delivery' = [delivery EXCEPT ![r] = "fetched"]
    /\ owner' = [owner EXCEPT ![r] = {w}]
    /\ worker' = [worker EXCEPT ![w] = "fetched"]
    /\ task' = [task EXCEPT ![w] = r]
    /\ UNCHANGED <<jobVars, requestVars, attempts, snap>>

Fetch(w, r) == /\ delivery[r] = "enqueued"
               /\ Take(w, r)
               /\ UNCHANGED faults

\* The invisibility timeout of a delivery whose worker died has passed.
Redeliver(w, r) == /\ delivery[r] = "fetched"
                   /\ Holders(r) = {}
                   /\ Take(w, r)
                   /\ UNCHANGED faults

\* It has passed although the first execution is still running: a job longer
\* than the timeout, which Program.cs leaves at its default.
RedeliverEarly(w, r) == /\ delivery[r] = "fetched"
                        /\ Holders(r) # {}
                        /\ Fault
                        /\ Take(w, r)

Release(w) == /\ worker' = [worker EXCEPT ![w] = "idle"]
              /\ task' = [task EXCEPT ![w] = NoRun]
              /\ snap' = [snap EXCEPT ![w] = NotLoaded]

\* ExecuteAsync returned.  Hangfire changes the state only of a job that is
\* still being processed.
Returned(w) ==
    /\ delivery' = [delivery EXCEPT ![task[w]] =
           IF @ = "fetched" THEN "succeeded" ELSE @]
    /\ UNCHANGED <<attempts, owner>>
    /\ Release(w)

\* ExecuteAsync threw: a retry is scheduled, or the job is left in the Failed
\* state for good once the retries are spent.
Threw(w) ==
    LET r == task[w] IN
    /\ \/ /\ delivery[r] # "fetched"
          /\ UNCHANGED <<delivery, attempts>>
       \/ /\ delivery[r] = "fetched" /\ attempts[r] < MaxAttempts
          /\ delivery' = [delivery EXCEPT ![r] = "enqueued"]
          /\ attempts' = [attempts EXCEPT ![r] = @ + 1]
       \/ /\ delivery[r] = "fetched" /\ attempts[r] >= MaxAttempts
          /\ delivery' = [delivery EXCEPT ![r] = "dead"]
          /\ UNCHANGED attempts
    /\ UNCHANGED owner
    /\ Release(w)

-----------------------------------------------------------------------------
(* EtlJobBackgroundJob.ExecuteAsync *)

\* Mutant: a job that is inactive or has no mappings is skipped without being
\* marked as failed.
LoadJobAndSkip(w) ==
    /\ worker[w] = "fetched"
    /\ worker' = [worker EXCEPT ![w] =
           IF isActive /\ hasMappings THEN "executing" ELSE "saved"]
    /\ snap' = [snap EXCEPT ![w] = [status |-> status,
                                    ready  |-> isActive /\ hasMappings,
                                    open   |-> OpenRows]]
    /\ UNCHANGED <<jobVars, requestVars, hangfireVars, task, faults>>

\* GetJobForExecutionAsync: one query, so one snapshot of the job, its
\* mappings and its history.  ready is the outcome of the two early checks.
LoadJob(w) ==
    /\ worker[w] = "fetched"
    /\ worker' = [worker EXCEPT ![w] = "executing"]
    /\ snap' = [snap EXCEPT ![w] = [status |-> status,
                                    ready  |-> isActive /\ hasMappings,
                                    open   |-> OpenRows]]
    /\ UNCHANGED <<jobVars, requestVars, hangfireVars, task, faults>>

\* Mutant: the status of the job is forgotten.
CompleteWithoutStatus(w, outcome) ==
    /\ \/ \E i \in snap[w].open :
             history' = [history EXCEPT ![i] = Complete(@, outcome)]
       \/ /\ snap[w].open = {}
          /\ history' = Append(history, Complete(Started("Running"), outcome))
    /\ UNCHANGED <<status, isActive, hasMappings>>

\* Mutant: every execution adds an entry of its own.
CompleteOwnEntry(w, outcome) ==
    /\ status' = IF outcome = snap[w].status THEN status ELSE outcome
    /\ history' = Append(history, Complete(Started("Running"), outcome))
    /\ UNCHANGED <<isActive, hasMappings>>

\* EtlJob.MarkSucceeded / MarkFailed on the snapshot, and the save.  The
\* history was loaded in no particular order, so LastOrDefault finds any of
\* the entries that were open then, or none and an entry is added.  The status
\* column is written only when it differs from the one loaded.
CompleteLatestExecution(w, outcome) ==
    /\ status' = IF outcome = snap[w].status THEN status ELSE outcome
    /\ \/ \E i \in snap[w].open :
             history' = [history EXCEPT ![i] = Complete(@, outcome)]
       \/ /\ snap[w].open = {}
          /\ history' = Append(history, Complete(Started("Running"), outcome))
    /\ UNCHANGED <<isActive, hasMappings>>

\* The engine decides the outcome of a job that passed the checks; one that
\* did not is marked failed without running, and no e-mail follows.
Save(w, outcome) ==
    /\ worker[w] = "executing"
    /\ outcome \in (IF snap[w].ready THEN Outcomes ELSE {"Failed"})
    /\ CompleteLatestExecution(w, outcome)

\* The copy is not read again after the save: the model lets go of it.
SaveOutcome(w) ==
    \E outcome \in Outcomes :
        /\ Save(w, outcome)
        /\ worker' = [worker EXCEPT ![w] =
               IF outcome = "Failed" /\ snap[w].ready THEN "mailing" ELSE "saved"]
        /\ snap' = [snap EXCEPT ![w] = NotLoaded]
        /\ UNCHANGED <<requestVars, hangfireVars, task, faults>>

\* A database call throws, or the save is committed and throws nevertheless.
ExecuteThrows(w) ==
    /\ worker[w] \in {"fetched", "executing"}
    /\ Fault
    /\ \/ UNCHANGED jobVars
       \/ \E outcome \in Outcomes : Save(w, outcome)
    /\ Threw(w)
    /\ UNCHANGED requestVars

Finish(w) ==
    /\ worker[w] \in {"saved", "mailing"}
    /\ Returned(w)
    /\ UNCHANGED <<jobVars, requestVars, faults>>

\* The addresses are parsed outside the sender's try block: a malformed one
\* throws out of ExecuteAsync after the outcome was saved.
MailThrows(w) ==
    /\ worker[w] = "mailing"
    /\ Threw(w)
    /\ UNCHANGED <<jobVars, requestVars, faults>>

\* Graceful stop: the token is cancelled, the save throws on it, and the
\* delivery goes back to the queue without spending a retry.
ShutdownCancels(w) ==
    /\ worker[w] \in {"fetched", "executing"}
    /\ Fault
    /\ delivery' = [delivery EXCEPT ![task[w]] =
           IF @ = "fetched" THEN "enqueued" ELSE @]
    /\ Release(w)
    /\ UNCHANGED <<jobVars, requestVars, attempts, owner>>

\* Hangfire cancels the token of an execution that is no longer the one its
\* job is waiting for; nothing is saved and the job's state is left alone.
SupersededCancels(w) ==
    /\ worker[w] \in {"fetched", "executing"}
    /\ delivery[task[w]] # "fetched" \/ owner[task[w]] # {w}
    /\ Release(w)
    /\ UNCHANGED <<jobVars, requestVars, hangfireVars, faults>>

\* The one web process dies, with the requests and executions it was serving.
Crash ==
    /\ Fault
    /\ request' = [r \in Requests |->
           CASE request[r] = "saving"     -> "rejected"
             [] request[r] = "enqueueing" -> "errored"
             [] OTHER                     -> request[r]]
    /\ worker' = [w \in Workers |-> "idle"]
    /\ task' = [w \in Workers |-> NoRun]
    /\ snap' = [w \in Workers |-> NotLoaded]
    /\ UNCHANGED <<jobVars, hangfireVars>>

-----------------------------------------------------------------------------
RequestStep(r) ==
    LoadForRun(r) \/ SaveQueued(r) \/ SaveQueuedFails(r)
        \/ Enqueue(r) \/ EnqueueFails(r)

DeliveryStep(w, r) == Fetch(w, r) \/ Redeliver(w, r) \/ RedeliverEarly(w, r)

WorkerStep(w) ==
    LoadJob(w) \/ SaveOutcome(w) \/ ExecuteThrows(w) \/ Finish(w)
        \/ MailThrows(w) \/ ShutdownCancels(w) \/ SupersededCancels(w)

OwnerStep == Activate \/ Deactivate \/ Edit

Next ==
    \/ OwnerStep
    \/ \E r \in Requests : RequestStep(r)
    \/ \E w \in Workers, r \in Requests : DeliveryStep(w, r)
    \/ \E w \in Workers : WorkerStep(w)
    \/ Crash

Spec == Init /\ [][Next]_vars

\* A handler that was let in goes on; Hangfire polls its queue and redelivers
\* what a dead worker held; a worker gets on with what it fetched.  Nothing is
\* assumed of owners, of new requests or of faults.
Fairness ==
    /\ \A r \in Requests : WF_vars(SaveQueued(r)) /\ WF_vars(Enqueue(r))
    /\ \A r \in Requests : WF_vars(\E w \in Workers : Fetch(w, r) \/ Redeliver(w, r))
    /\ \A w \in Workers  : WF_vars(LoadJob(w) \/ SaveOutcome(w) \/ Finish(w))

FairSpec == Spec /\ Fairness

-----------------------------------------------------------------------------
(* Properties *)

Snapshots == [status : Status, ready : BOOLEAN, open : SUBSET (1 .. Len(history))]

\* Types of the variables; snapshots name only entries that exist, and a slot
\* has a task exactly while it is busy.
TypeOK ==
    /\ status \in Status
    /\ isActive \in BOOLEAN
    /\ hasMappings \in BOOLEAN
    /\ history \in Seq(Row)
    /\ request \in [Requests -> {"new", "saving", "enqueueing", "accepted",
                                 "errored", "rejected"}]
    /\ delivery \in [Requests -> {"absent", "enqueued", "fetched", "succeeded", "dead"}]
    /\ attempts \in [Requests -> 0 .. MaxAttempts]
    /\ owner \in [Requests -> SUBSET Workers]
    /\ worker \in [Workers -> {"idle", "fetched", "executing", "saved", "mailing"}]
    /\ task \in [Workers -> Requests \cup {NoRun}]
    /\ \A w \in Workers : worker[w] = "idle" <=> task[w] = NoRun
    /\ snap \in [Workers -> Snapshots]
    /\ faults \in 0 .. MaxFaults

\* A job shown as Queued (EtlJob.CurrentStatus, the status Run refuses to run)
\* has a history entry that is still open, whatever executions over older
\* snapshots have written in between.
QueuedHasOpenRun == status = "Queued" => OpenRows # {}

\* The Hangfire job of this request has been promised (the history entry is
\* stored) and has not been carried out to the end.
Owed(r) == \/ request[r] \in {"enqueueing", "errored"} /\ delivery[r] = "absent"
           \/ delivery[r] \in {"enqueued", "fetched", "dead"}

\* A job shown as Queued is Queued on account of some Run request whose
\* execution has not come to an end: no interleaving of loads and saves lets
\* every delivery finish and leaves the job Queued.
QueuedIsOwedAnExecution == status = "Queued" => \E r \in Requests : Owed(r)

\* With one execution at a time, an entry stored as Succeeded has no error
\* message (Logs lists an entry's ErrorMessage; History shows both).
SucceededHasNoError ==
    \A i \in DOMAIN history : history[i].status = "Succeeded" => ~ history[i].error

\* With one execution at a time, history never has more open entries than Run
\* requests whose execution is still due: an entry is not left open by a job
\* whose deliveries are all done.
OpenRunsAreOwed ==
    Cardinality(OpenRows) <= Cardinality({r \in Requests : Owed(r)})

\* The request died between its two transactions, or Hangfire gave up.
Stranded == \E r \in Requests :
    \/ request[r] = "errored" /\ delivery[r] = "absent"
    \/ delivery[r] = "dead"

\* A Queued job comes to an outcome, unless a crash or a failed call separated
\* the save from the Enqueue or the retries were used up.
QueuedSettlesOrIsStranded == (status = "Queued") ~> (status # "Queued" \/ Stranded)

-----------------------------------------------------------------------------
(* The abstract ledger.  An entry written twice is none the ledger knows. *)

Entry(row) == CASE row.stamp = 0 -> "open"
                [] row.stamp = 1 -> row.status
                [] OTHER         -> "rewritten"

EntriesOf(h) == [i \in DOMAIN h |-> Entry(h[i])]

Ledger == INSTANCE RunLedger
    WITH shown <- status, entries <- EntriesOf(history)

\* With one execution at a time the handlers implement the ledger: whatever Run
\* requests, redeliveries, retries and crashes come between an execution's load
\* and its save, entries are settled once and the status follows them.
ImplementsLedger == Ledger!Spec

-----------------------------------------------------------------------------
(* What the repository says of itself and the code does not keep.  Each is   *)
(* the property of a run that finds it violated.                             *)

\* EtlJobsController.cs:277 "This ETL job is already queued or running.": a
\* Run is accepted only while the job is neither.
AcceptedOnlyWhenSettled ==
    [][\A r \in Requests :
          (request[r] = "saving" /\ request'[r] = "enqueueing")
              => status \notin {"Queued", "Running"}]_vars

\* EtlJobHistory.cs:49 "This ETL execution history entry is already
\* completed.": a completed entry is not completed again.
CompletedOnce ==
    [][\A i \in DOMAIN history :
          history[i].stamp # 0 => history'[i] = history[i]]_vars

\* PHASE7-BACKGROUND-JOBS.md:17-21 and 28-30: Run marks the job Queued and
\* enqueues it, and the worker updates it to Succeeded or Failed.
QueuedIsExecuted == (status = "Queued") ~> (status # "Queued")

=============================================================================
