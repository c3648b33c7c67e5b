----------------------- MODULE EtlJobLifecycleProofs -----------------------
(***************************************************************************)
(* Theorems about EtlJobLifecycle, for any sets of requests and workers    *)
(* and any bounds.  First what a save does to the history, then the type   *)
(* invariant, then the two safety invariants of overlapping executions,    *)
(* then what holds when executions do not overlap.                         *)
(***************************************************************************)
EXTENDS EtlJobLifecycle, TLAPS, SequenceTheorems, FiniteSetTheorems

-----------------------------------------------------------------------------
(* What the saves do to the history *)

\* An entry completed (EtlJobHistory.Complete) is an entry again.
LEMMA CompleteType ==
    ASSUME NEW row \in Row, NEW outcome \in Outcomes
    PROVE  /\ Complete(row, outcome) \in Row
           /\ Complete(row, outcome).stamp = row.stamp + 1
           /\ Complete(row, outcome).status = outcome
           /\ Complete(row, outcome).error <=> (row.error \/ outcome = "Failed")
<1>1. /\ Complete(row, outcome) \in Row
      /\ Complete(row, outcome).stamp = row.stamp + 1
      /\ Complete(row, outcome).status = outcome
  BY DEF Row, Complete, Status, Outcomes
<1>2. Complete(row, outcome).error = (row.error \/ outcome = "Failed")
  BY DEF Complete
<1> QED
  BY <1>1, <1>2, Zenon

\* A new entry (EtlJobHistory.Started) is open and carries no error.
LEMMA StartedType ==
    ASSUME NEW s \in {"Queued", "Running"}
    PROVE  /\ Started(s) \in Row
           /\ IsOpen(Started(s))
           /\ Started(s).stamp = 0
           /\ ~ Started(s).error
BY DEF Row, Started, Status, IsOpen

\* EtlJob.MarkQueued appends one open entry and touches no other.
LEMMA MarkQueuedEffect ==
    ASSUME history \in Seq(Row), MarkQueued
    PROVE  /\ status' = "Queued"
           /\ history' \in Seq(Row)
           /\ Len(history') = Len(history) + 1
           /\ history'[Len(history) + 1] = Started("Queued")
           /\ \A i \in 1 .. Len(history) : history'[i] = history[i]
<1>1. Started("Queued") \in Row
  BY StartedType
<1> QED
  BY <1>1 DEF MarkQueued

\* Saving an outcome completes one entry of the snapshot, or appends an entry
\* already completed when the snapshot had none open; no other entry changes.
LEMMA CompleteEffect ==
    ASSUME history \in Seq(Row),
           NEW w \in Workers, NEW outcome \in Outcomes,
           snap[w].open \subseteq 1 .. Len(history),
           CompleteLatestExecution(w, outcome)
    PROVE  /\ history' \in Seq(Row)
           /\ \/ \E i \in snap[w].open :
                    /\ Len(history') = Len(history)
                    /\ history'[i] = Complete(history[i], outcome)
                    /\ \A j \in 1 .. Len(history) : j # i => history'[j] = history[j]
              \/ /\ snap[w].open = {}
                 /\ Len(history') = Len(history) + 1
                 /\ history'[Len(history) + 1] = Complete(Started("Running"), outcome)
                 /\ \A j \in 1 .. Len(history) : history'[j] = history[j]
<1>1. CASE \E i \in snap[w].open : history' = [history EXCEPT ![i] = Complete(@, outcome)]
  <2>1. PICK i \in snap[w].open : history' = [history EXCEPT ![i] = Complete(@, outcome)]
    BY <1>1
  <2>2. i \in 1 .. Len(history) /\ history[i] \in Row
    BY <2>1, ElementOfSeq
  <2>3. Complete(history[i], outcome) \in Row
    BY <2>2, CompleteType
  <2>4. history' = [history EXCEPT ![i] = Complete(history[i], outcome)]
    BY <2>1
  <2>5. /\ history' \in Seq(Row)
        /\ Len(history') = Len(history)
        /\ \A j \in 1 .. Len(history) :
              history'[j] = IF j = i THEN Complete(history[i], outcome) ELSE history[j]
    BY <2>2, <2>3, <2>4, ExceptSeq
  <2> QED
    BY <2>2, <2>5
<1>2. CASE /\ snap[w].open = {}
           /\ history' = Append(history, Complete(Started("Running"), outcome))
  <2>1. Complete(Started("Running"), outcome) \in Row
    BY StartedType, CompleteType
  <2> QED
    BY <1>2, <2>1
<1> QED
  BY <1>1, <1>2 DEF CompleteLatestExecution

-----------------------------------------------------------------------------
(* Type correctness *)

\* Snapshots survive a longer history.
LEMMA SnapshotsGrow ==
    ASSUME history \in Seq(Row), history' \in Seq(Row),
           Len(history') >= Len(history),
           snap \in [Workers -> Snapshots]
    PROVE  snap \in [Workers -> Snapshots']
<1>1. Len(history) \in Nat /\ Len(history') \in Nat
  BY LenProperties
<1>2. 1 .. Len(history) \subseteq 1 .. Len(history')
  BY <1>1
<1> QED
  BY <1>2 DEF Snapshots

\* A snapshot taken now is well-formed, and so is the one of an idle slot.
LEMMA SnapshotType ==
    ASSUME TypeOK
    PROVE  /\ OpenRows \subseteq 1 .. Len(history)
           /\ [status |-> status, ready |-> isActive /\ hasMappings,
               open |-> OpenRows] \in Snapshots
           /\ NotLoaded \in Snapshots
           /\ \A w \in Workers : snap[w].open \subseteq 1 .. Len(history)
BY DEF TypeOK, OpenRows, Snapshots, NotLoaded, Status

\* A save leaves the job variables well-typed and the history no shorter.
LEMMA SaveType ==
    ASSUME TypeOK, NEW w \in Workers, NEW outcome \in Outcomes, Save(w, outcome)
    PROVE  /\ status' \in Status
           /\ isActive' = isActive /\ hasMappings' = hasMappings
           /\ history' \in Seq(Row)
           /\ Len(history') >= Len(history)
<1>1. history \in Seq(Row) /\ Len(history) \in Nat
  BY LenProperties DEF TypeOK
<1>2. CompleteLatestExecution(w, outcome)
  BY DEF Save
<1>3. history' \in Seq(Row) /\ Len(history') >= Len(history)
  BY <1>1, <1>2, SnapshotType, CompleteEffect
<1> QED
  BY <1>2, <1>3 DEF CompleteLatestExecution, TypeOK, Outcomes, Status

\* The handlers of the job's owner and of Run keep the types.
LEMMA RequestTypeStep ==
    ASSUME TypeOK, OwnerStep \/ \E r \in Requests : RequestStep(r)
    PROVE  TypeOK'
<1>1. CASE OwnerStep
  BY <1>1 DEF OwnerStep, Activate, Deactivate, Edit, TypeOK, Snapshots,
              requestVars, hangfireVars, workerVars
<1>2. CASE \E r \in Requests : RequestStep(r)
  <2>1. PICK r \in Requests : RequestStep(r)
    BY <1>2
  <2>2. ASSUME MarkQueued
        PROVE  /\ status' \in Status /\ isActive' \in BOOLEAN /\ hasMappings' \in BOOLEAN
               /\ history' \in Seq(Row)
               /\ snap \in [Workers -> Snapshots']
    <3>1. history \in Seq(Row) /\ Len(history) \in Nat
      BY LenProperties DEF TypeOK
    <3>2. status' = "Queued" /\ history' \in Seq(Row) /\ Len(history') >= Len(history)
      BY <2>2, <3>1, MarkQueuedEffect
    <3>3. snap \in [Workers -> Snapshots']
      BY <3>1, <3>2, SnapshotsGrow DEF TypeOK
    <3> QED
      BY <2>2, <3>2, <3>3 DEF TypeOK, MarkQueued, Status
  <2>3. CASE LoadForRun(r)
    BY <2>3 DEF LoadForRun, TypeOK, Snapshots, jobVars, hangfireVars, workerVars
  <2>4. CASE SaveQueued(r)
    BY <2>4, <2>2 DEF SaveQueued, TypeOK, hangfireVars, workerVars
  <2>5. CASE SaveQueuedFails(r)
    <3>1. faults' \in 0 .. MaxFaults
      BY <2>5, BoundsAssumption DEF SaveQueuedFails, Fault, TypeOK
    <3>2. CASE MarkQueued
      BY <2>5, <3>1, <3>2, <2>2 DEF SaveQueuedFails, TypeOK, hangfireVars, workerVars
    <3>3. CASE UNCHANGED jobVars
      BY <2>5, <3>1, <3>3 DEF SaveQueuedFails, TypeOK, Snapshots, jobVars,
                              hangfireVars, workerVars
    <3> QED
      BY <2>5, <3>2, <3>3 DEF SaveQueuedFails
  <2>6. CASE Enqueue(r)
    BY <2>6 DEF Enqueue, TypeOK, Snapshots, jobVars, workerVars
  <2>7. CASE EnqueueFails(r)
    <3>1. faults' \in 0 .. MaxFaults
      BY <2>7, BoundsAssumption DEF EnqueueFails, Fault, TypeOK
    <3> QED
      BY <2>7, <3>1 DEF EnqueueFails, TypeOK, Snapshots, jobVars, workerVars
  <2> QED
    BY <2>1, <2>3, <2>4, <2>5, <2>6, <2>7 DEF RequestStep
<1> QED
  BY <1>1, <1>2

\* Fetching and redelivering keep the types.
LEMMA DeliveryTypeStep ==
    ASSUME TypeOK, NEW w \in Workers, NEW r \in Requests, DeliveryStep(w, r)
    PROVE  TypeOK'
<1>1. Take(w, r)
  BY DEF DeliveryStep, Fetch, Redeliver, RedeliverEarly
<1>2. faults' \in 0 .. MaxFaults
  BY BoundsAssumption DEF DeliveryStep, Fetch, Redeliver, RedeliverEarly, Fault, TypeOK
<1> QED
  BY <1>1, <1>2, NoRunAssumption DEF Take, TypeOK, Snapshots, jobVars, requestVars

\* ExecuteAsync keeps the types, however it ends.
LEMMA WorkerTypeStep ==
    ASSUME TypeOK, NEW w \in Workers, WorkerStep(w)
    PROVE  TypeOK'
<1>1. CASE LoadJob(w)
  BY <1>1, SnapshotType DEF LoadJob, TypeOK, Snapshots, jobVars, requestVars, hangfireVars
<1>2. ASSUME NEW outcome \in Outcomes, Save(w, outcome)
      PROVE  /\ status' \in Status /\ isActive' \in BOOLEAN /\ hasMappings' \in BOOLEAN
             /\ history' \in Seq(Row)
             /\ snap \in [Workers -> Snapshots']
  BY <1>2, SaveType, SnapshotsGrow DEF TypeOK
<1>3. ASSUME UNCHANGED jobVars
      PROVE  /\ status' \in Status /\ isActive' \in BOOLEAN /\ hasMappings' \in BOOLEAN
             /\ history' \in Seq(Row)
             /\ snap \in [Workers -> Snapshots']
  BY <1>3 DEF TypeOK, jobVars, Snapshots
<1>4. ASSUME worker[w] # "idle"
      PROVE  task[w] \in Requests
  BY <1>4 DEF TypeOK
<1>5. ASSUME Release(w), snap \in [Workers -> Snapshots']
      PROVE  /\ worker' \in [Workers -> {"idle", "fetched", "executing", "saved", "mailing"}]
             /\ task' \in [Workers -> Requests \cup {NoRun}]
             /\ \A v \in Workers : worker'[v] = "idle" <=> task'[v] = NoRun
             /\ snap' \in [Workers -> Snapshots']
  <2>1. NotLoaded \in Snapshots'
    BY DEF NotLoaded, Snapshots, Status
  <2> QED
    BY <1>5, <2>1 DEF Release, TypeOK
<1>6. ASSUME Threw(w), worker[w] # "idle", snap \in [Workers -> Snapshots']
      PROVE  /\ delivery' \in [Requests -> {"absent", "enqueued", "fetched", "succeeded", "dead"}]
             /\ attempts' \in [Requests -> 0 .. MaxAttempts]
             /\ owner' \in [Requests -> SUBSET Workers]
  <2>1. task[w] \in Requests /\ owner' = owner
    BY <1>4, <1>6 DEF Threw
  <2>2. attempts[task[w]] \in 0 .. MaxAttempts
    BY <2>1 DEF TypeOK
  <2>3. attempts' \in [Requests -> 0 .. MaxAttempts]
    BY <1>6, <2>1, <2>2, BoundsAssumption DEF Threw, TypeOK
  <2>4. delivery' \in [Requests -> {"absent", "enqueued", "fetched", "succeeded", "dead"}]
    BY <1>6, <2>1 DEF Threw, TypeOK
  <2> QED
    BY <2>1, <2>3, <2>4 DEF TypeOK
<1>7. CASE SaveOutcome(w)
  <2>1. PICK outcome \in Outcomes : Save(w, outcome)
    BY <1>7 DEF SaveOutcome
  <2>2. worker[w] = "executing"
    BY <2>1 DEF Save
  <2>3. NotLoaded \in Snapshots'
    BY DEF NotLoaded, Snapshots, Status
  <2>4. snap' \in [Workers -> Snapshots']
    BY <1>7, <2>1, <2>3, <1>2 DEF SaveOutcome
  <2> QED
    BY <1>7, <2>1, <2>2, <2>4, <1>2, NoRunAssumption
       DEF SaveOutcome, TypeOK, requestVars, hangfireVars
<1>8. CASE ExecuteThrows(w)
  <2>1. faults' \in 0 .. MaxFaults
    BY <1>8, BoundsAssumption DEF ExecuteThrows, Fault, TypeOK
  <2>2. worker[w] # "idle" /\ Threw(w) /\ Release(w) /\ UNCHANGED requestVars
    BY <1>8 DEF ExecuteThrows, Threw
  <2>3. /\ status' \in Status /\ isActive' \in BOOLEAN /\ hasMappings' \in BOOLEAN
        /\ history' \in Seq(Row)
        /\ snap \in [Workers -> Snapshots']
    BY <1>8, <1>2, <1>3 DEF ExecuteThrows
  <2> QED
    BY <2>1, <2>2, <2>3, <1>5, <1>6 DEF TypeOK, requestVars
<1>9. CASE Finish(w)
  <2>1. worker[w] # "idle" /\ Release(w) /\ UNCHANGED <<jobVars, requestVars, faults>>
    BY <1>9 DEF Finish, Returned
  <2>2. delivery' \in [Requests -> {"absent", "enqueued", "fetched", "succeeded", "dead"}]
    BY <1>9, <2>1, <1>4 DEF Finish, Returned, TypeOK
  <2> QED
    BY <1>9, <2>1, <2>2, <1>3, <1>5 DEF Finish, Returned, TypeOK, requestVars
<1>10. CASE MailThrows(w)
  <2>1. worker[w] # "idle" /\ Threw(w) /\ Release(w)
        /\ UNCHANGED <<jobVars, requestVars, faults>>
    BY <1>10 DEF MailThrows, Threw
  <2> QED
    BY <2>1, <1>3, <1>5, <1>6 DEF TypeOK, requestVars
<1>11. CASE ShutdownCancels(w)
  <2>1. worker[w] # "idle" /\ Release(w) /\ UNCHANGED <<jobVars, requestVars, attempts, owner>>
    BY <1>11 DEF ShutdownCancels
  <2>2. delivery' \in [Requests -> {"absent", "enqueued", "fetched", "succeeded", "dead"}]
    BY <1>11, <2>1, <1>4 DEF ShutdownCancels, TypeOK
  <2>3. faults' \in 0 .. MaxFaults
    BY <1>11, BoundsAssumption DEF ShutdownCancels, Fault, TypeOK
  <2> QED
    BY <2>1, <2>2, <2>3, <1>3, <1>5 DEF TypeOK, requestVars
<1>12. CASE SupersededCancels(w)
  <2>1. Release(w) /\ UNCHANGED <<jobVars, requestVars, hangfireVars, faults>>
    BY <1>12 DEF SupersededCancels
  <2> QED
    BY <2>1, <1>3, <1>5 DEF TypeOK, requestVars, hangfireVars
<1> QED
  BY <1>1, <1>7, <1>8, <1>9, <1>10, <1>11, <1>12 DEF WorkerStep

LEMMA NextTypeOK == TypeOK /\ [Next]_vars => TypeOK'
<1> SUFFICES ASSUME TypeOK, [Next]_vars
             PROVE  TypeOK'
  OBVIOUS
<1>1. CASE OwnerStep \/ \E r \in Requests : RequestStep(r)
  BY <1>1, RequestTypeStep
<1>2. CASE \E w \in Workers, r \in Requests : DeliveryStep(w, r)
  BY <1>2, DeliveryTypeStep
<1>3. CASE \E w \in Workers : WorkerStep(w)
  BY <1>3, WorkerTypeStep
<1>4. CASE Crash
  <2>1. faults' \in 0 .. MaxFaults
    BY <1>4, BoundsAssumption DEF Crash, Fault, TypeOK
  <2>2. snap' \in [Workers -> Snapshots']
    BY <1>4, SnapshotType DEF Crash, Snapshots, jobVars
  <2> QED
    BY <1>4, <2>1, <2>2 DEF Crash, TypeOK, jobVars, hangfireVars
<1>5. CASE UNCHANGED vars
  BY <1>5 DEF vars, jobVars, requestVars, hangfireVars, workerVars, TypeOK, Snapshots
<1> QED
  BY <1>1, <1>2, <1>3, <1>4, <1>5 DEF Next

LEMMA InitTypeOK == Init => TypeOK
<1> SUFFICES ASSUME Init PROVE TypeOK
  OBVIOUS
<1>1. history \in Seq(Row)
  BY DEF Init
<1>2. snap \in [Workers -> Snapshots]
  BY DEF Init, NotLoaded, Snapshots, Status
<1> QED
  BY <1>1, <1>2, BoundsAssumption DEF Init, TypeOK, Status

\* The variables keep their types, snapshots name existing entries only, and
\* a slot is busy exactly while it holds a request's Hangfire job.
THEOREM TypeCorrect == Spec => []TypeOK
<1> QED
  BY InitTypeOK, NextTypeOK, PTL DEF Spec

-----------------------------------------------------------------------------
(* The invariants behind the two safety properties of overlapping executions *)

\* While the job is Queued some entry is open that no execution which loaded
\* the job under another status knows of.  Such an execution is the only one
\* that can complete an entry and leave the job Queued.
QueuedWitness ==
    status = "Queued" =>
        \E e \in OpenRows : \A w \in Workers :
            (worker[w] = "executing" /\ snap[w].status # "Queued")
                => e \notin snap[w].open

\* A Hangfire job exists only once its request got as far as Enqueue, and only
\* an existing one is held by a worker.
Bookkeeping ==
    /\ \A r \in Requests :
          request[r] \in {"new", "saving", "enqueueing", "rejected"}
              => delivery[r] = "absent"
    /\ \A w \in Workers : task[w] # NoRun => delivery[task[w]] # "absent"

\* No execution for r has saved an outcome, or is about to save one that
\* leaves a Queued job Queued.
Pending(r) == \A w \in Workers :
    task[w] = r => /\ worker[w] \notin {"saved", "mailing"}
                   /\ worker[w] = "executing" => snap[w].status = "Queued"

\* While the job is Queued, the request that made it so is still owed its
\* execution and no execution for it has saved.
QueuedDebt == status = "Queued" => \E r \in Requests : Owed(r) /\ Pending(r)

\* The three kinds of step the invariants distinguish.  A quiet step leaves
\* status and history alone; an execution goes on with the snapshot it had or
\* has just loaded the job.
Quiet == /\ status' = status /\ history' = history
         /\ \A w \in Workers : worker'[w] = "executing" =>
               \/ worker[w] = "executing" /\ snap'[w] = snap[w]
               \/ snap'[w].status = status

Queueing == \E r \in Requests :
    /\ MarkQueued
    /\ request[r] = "saving"
    /\ request' \in {[request EXCEPT ![r] = "enqueueing"],
                     [request EXCEPT ![r] = "errored"]}
    /\ UNCHANGED <<hangfireVars, workerVars>>

Saving == \E w \in Workers, outcome \in Outcomes :
    /\ Save(w, outcome)
    /\ request' = request
    /\ \/ /\ worker' \in {[worker EXCEPT ![w] = "mailing"], [worker EXCEPT ![w] = "saved"]}
          /\ snap' = [snap EXCEPT ![w] = NotLoaded]
          /\ UNCHANGED <<task, delivery>>
       \/ Threw(w)

\* Every step is of one of the three kinds.
LEMMA StepKinds ==
    ASSUME TypeOK, [Next]_vars
    PROVE  Quiet \/ Queueing \/ Saving
<1>1. CASE OwnerStep
  BY <1>1 DEF OwnerStep, Activate, Deactivate, Edit, Quiet, workerVars
<1>2. ASSUME NEW r \in Requests, RequestStep(r)
      PROVE  Quiet \/ Queueing
  <2>1. CASE LoadForRun(r) \/ Enqueue(r) \/ EnqueueFails(r)
    BY <2>1 DEF LoadForRun, Enqueue, EnqueueFails, Quiet, jobVars, workerVars
  <2>2. CASE SaveQueued(r)
    BY <2>2 DEF SaveQueued, Queueing
  <2>3. CASE SaveQueuedFails(r)
    BY <2>3 DEF SaveQueuedFails, Queueing, Quiet, jobVars, workerVars, hangfireVars
  <2> QED
    BY <1>2, <2>1, <2>2, <2>3 DEF RequestStep
<1>3. ASSUME NEW w \in Workers, NEW r \in Requests, DeliveryStep(w, r)
      PROVE  Quiet
  BY <1>3 DEF DeliveryStep, Fetch, Redeliver, RedeliverEarly, Take, Quiet, TypeOK, jobVars
<1>4. ASSUME NEW w \in Workers, WorkerStep(w)
      PROVE  Quiet \/ Saving
  <2>1. CASE LoadJob(w)
    BY <2>1 DEF LoadJob, Quiet, TypeOK, jobVars
  <2>2. CASE SaveOutcome(w)
    BY <2>2 DEF SaveOutcome, Saving, requestVars, hangfireVars
  <2>3. ASSUME Release(w), UNCHANGED jobVars
        PROVE  Quiet
    BY <2>3 DEF Release, Quiet, TypeOK, jobVars
  <2>4. CASE ExecuteThrows(w)
    <3>1. Release(w)
      BY <2>4 DEF ExecuteThrows, Threw
    <3> QED
      BY <2>4, <2>3, <3>1 DEF ExecuteThrows, Saving, requestVars
  <2>5. CASE Finish(w) \/ MailThrows(w) \/ ShutdownCancels(w) \/ SupersededCancels(w)
    <3>1. Release(w) /\ UNCHANGED jobVars
      BY <2>5 DEF Finish, Returned, MailThrows, Threw, ShutdownCancels,
                  SupersededCancels, jobVars
    <3> QED
      BY <2>3, <3>1
  <2> QED
    BY <1>4, <2>1, <2>2, <2>4, <2>5 DEF WorkerStep
<1>5. CASE Crash
  BY <1>5 DEF Crash, Quiet, jobVars
<1>6. CASE UNCHANGED vars
  BY <1>6 DEF vars, jobVars, workerVars, Quiet
<1> QED
  BY <1>1, <1>2, <1>3, <1>4, <1>5, <1>6 DEF Next

\* No step takes the last open entry away from a Queued job: the witness is
\* beyond the reach of any execution that would leave the job Queued.
LEMMA WitnessStep == TypeOK /\ QueuedWitness /\ [Next]_vars => QueuedWitness'
<1> SUFFICES ASSUME TypeOK, QueuedWitness, [Next]_vars, status' = "Queued"
             PROVE  \E e \in OpenRows' : \A w \in Workers :
                       (worker'[w] = "executing" /\ snap'[w].status # "Queued")
                           => e \notin snap'[w].open
  BY DEF QueuedWitness
<1>1. /\ history \in Seq(Row) /\ Len(history) \in Nat
      /\ DOMAIN history = 1 .. Len(history)
      /\ \A w \in Workers : snap[w].open \subseteq 1 .. Len(history)
  BY SnapshotType, LenProperties DEF TypeOK
<1>2. CASE Quiet
  <2>1. PICK e \in OpenRows : \A w \in Workers :
            (worker[w] = "executing" /\ snap[w].status # "Queued")
                => e \notin snap[w].open
    BY <1>2 DEF Quiet, QueuedWitness
  <2>2. e \in OpenRows'
    BY <1>2, <2>1 DEF Quiet, OpenRows
  <2> QED
    BY <1>2, <2>1, <2>2 DEF Quiet
<1>3. CASE Queueing
  <2> DEFINE n == Len(history) + 1
  <2>1. /\ history' \in Seq(Row) /\ Len(history') = n
        /\ history'[n] = Started("Queued")
    BY <1>1, <1>3, MarkQueuedEffect DEF Queueing
  <2>2. DOMAIN history' = 1 .. n /\ n \in 1 .. n
    BY <1>1, <2>1, LenProperties
  <2>3. n \in OpenRows'
    BY <2>1, <2>2, StartedType DEF OpenRows
  <2>4. \A w \in Workers : n \notin snap[w].open
    BY <1>1
  <2> QED
    BY <1>3, <2>3, <2>4 DEF Queueing, workerVars
<1>4. CASE Saving
  <2>1. PICK w \in Workers, outcome \in Outcomes :
            /\ Save(w, outcome)
            /\ \/ /\ worker' \in {[worker EXCEPT ![w] = "mailing"],
                                  [worker EXCEPT ![w] = "saved"]}
                  /\ snap' = [snap EXCEPT ![w] = NotLoaded]
                  /\ UNCHANGED <<task, delivery>>
               \/ Threw(w)
    BY <1>4 DEF Saving
  <2>2. worker[w] = "executing" /\ CompleteLatestExecution(w, outcome)
    BY <2>1 DEF Save
  <2>3. outcome = snap[w].status /\ status = "Queued" /\ snap[w].status # "Queued"
    BY <2>2 DEF CompleteLatestExecution, Outcomes
  <2>4. PICK e \in OpenRows : \A v \in Workers :
            (worker[v] = "executing" /\ snap[v].status # "Queued")
                => e \notin snap[v].open
    BY <2>3 DEF QueuedWitness
  <2>5. e \notin snap[w].open
    BY <2>2, <2>3, <2>4
  <2>6. e \in OpenRows'
    <3>1. e \in 1 .. Len(history) /\ IsOpen(history[e])
      BY <1>1, <2>4 DEF OpenRows
    <3>2. history' \in Seq(Row) /\ Len(history') >= Len(history) /\ history'[e] = history[e]
      BY <1>1, <2>2, <2>5, <3>1, CompleteEffect
    <3>3. e \in DOMAIN history'
      BY <3>1, <3>2, <1>1, LenProperties
    <3> QED
      BY <3>1, <3>2, <3>3 DEF OpenRows
  <2>7. \A v \in Workers : worker'[v] = "executing" =>
            worker[v] = "executing" /\ snap'[v] = snap[v]
    BY <2>1, <2>2 DEF Threw, Release, TypeOK
  <2> QED
    BY <2>4, <2>6, <2>7
<1> QED
  BY <1>2, <1>3, <1>4, StepKinds

\* A job shown as Queued always has a history entry that is still open.
THEOREM QueuedOpen == Spec => []QueuedHasOpenRun
<1>1. Init => QueuedWitness
  BY DEF Init, QueuedWitness
<1>2. QueuedWitness => QueuedHasOpenRun
  BY DEF QueuedWitness, QueuedHasOpenRun
<1> QED
  BY <1>1, <1>2, WitnessStep, TypeCorrect, PTL DEF Spec

\* The bookkeeping between Run, Hangfire and the workers is inductive.
LEMMA BookkeepingStep == TypeOK /\ Bookkeeping /\ [Next]_vars => Bookkeeping'
<1> SUFFICES ASSUME TypeOK, Bookkeeping, [Next]_vars
             PROVE  Bookkeeping'
  OBVIOUS
<1>1. CASE OwnerStep
  BY <1>1 DEF OwnerStep, Activate, Deactivate, Edit, Bookkeeping,
              requestVars, hangfireVars, workerVars
<1>2. ASSUME NEW r \in Requests, RequestStep(r)
      PROVE  Bookkeeping'
  <2>1. CASE LoadForRun(r) \/ SaveQueued(r) \/ SaveQueuedFails(r)
    BY <2>1 DEF LoadForRun, SaveQueued, SaveQueuedFails, Bookkeeping, TypeOK,
                hangfireVars, workerVars
  <2>2. CASE Enqueue(r) \/ EnqueueFails(r)
    <3>1. /\ request' \in {[request EXCEPT ![r] = "accepted"],
                           [request EXCEPT ![r] = "errored"]}
          /\ delivery' \in {delivery, [delivery EXCEPT ![r] = "enqueued"]}
          /\ task' = task
      BY <2>2 DEF Enqueue, EnqueueFails, workerVars
    <3>2. \A q \in Requests : q # r => request'[q] = request[q] /\ delivery'[q] = delivery[q]
      BY <3>1 DEF TypeOK
    <3>3. request'[r] \in {"accepted", "errored"}
      BY <3>1 DEF TypeOK
    <3>4. \A q \in Requests : delivery[q] # "absent" => delivery'[q] # "absent"
      BY <3>1, <3>2 DEF TypeOK
    <3> QED
      BY <3>1, <3>2, <3>3, <3>4 DEF Bookkeeping, TypeOK
  <2> QED
    BY <1>2, <2>1, <2>2 DEF RequestStep
<1>3. ASSUME NEW w \in Workers, NEW r \in Requests, DeliveryStep(w, r)
      PROVE  Bookkeeping'
  <2>1. Take(w, r) /\ delivery[r] # "absent"
    BY <1>3 DEF DeliveryStep, Fetch, Redeliver, RedeliverEarly
  <2> QED
    BY <2>1 DEF Take, Bookkeeping, TypeOK, requestVars
<1>4. ASSUME NEW w \in Workers, WorkerStep(w)
      PROVE  Bookkeeping'
  <2>1. CASE LoadJob(w) \/ SaveOutcome(w)
    BY <2>1 DEF LoadJob, SaveOutcome, Bookkeeping, requestVars, hangfireVars
  <2>2. CASE ExecuteThrows(w) \/ MailThrows(w)
    <3>1. Threw(w) /\ request' = request
      BY <2>2 DEF ExecuteThrows, MailThrows, requestVars
    <3>2. \A r \in Requests : delivery'[r] = "absent" <=> delivery[r] = "absent"
      BY <3>1 DEF Threw, TypeOK
    <3> QED
      BY <3>1, <3>2 DEF Threw, Release, Bookkeeping, TypeOK
  <2>3. CASE Finish(w) \/ ShutdownCancels(w) \/ SupersededCancels(w)
    <3>1. Release(w) /\ request' = request
      BY <2>3 DEF Finish, Returned, ShutdownCancels, SupersededCancels, requestVars
    <3>2. \A r \in Requests : delivery'[r] = "absent" <=> delivery[r] = "absent"
      BY <2>3 DEF Finish, Returned, ShutdownCancels, SupersededCancels, TypeOK, hangfireVars
    <3> QED
      BY <3>1, <3>2 DEF Release, Bookkeeping, TypeOK
  <2> QED
    BY <1>4, <2>1, <2>2, <2>3 DEF WorkerStep
<1>5. CASE Crash
  BY <1>5 DEF Crash, Bookkeeping, TypeOK, hangfireVars
<1>6. CASE UNCHANGED vars
  BY <1>6 DEF vars, Bookkeeping, requestVars, hangfireVars, workerVars
<1> QED
  BY <1>1, <1>2, <1>3, <1>4, <1>5, <1>6 DEF Next

\* A Run that has just been saved is owed its execution, and nobody holds it.
LEMMA DebtIncurred ==
    ASSUME TypeOK, Bookkeeping, Queueing
    PROVE  QueuedDebt'
<1>1. PICK r \in Requests :
          /\ request[r] = "saving"
          /\ request' \in {[request EXCEPT ![r] = "enqueueing"],
                           [request EXCEPT ![r] = "errored"]}
          /\ UNCHANGED <<hangfireVars, workerVars>>
  BY DEF Queueing
<1>2. delivery[r] = "absent"
  BY <1>1 DEF Bookkeeping
<1>3. \A w \in Workers : task[w] # r
  BY <1>2, NoRunAssumption DEF Bookkeeping
<1>4. Owed(r)'
  BY <1>1, <1>2 DEF Owed, TypeOK, hangfireVars
<1>5. Pending(r)'
  BY <1>1, <1>3 DEF Pending, workerVars
<1> QED
  BY <1>4, <1>5 DEF QueuedDebt

\* What is owed and pending stays so as long as the job stays Queued: only a
\* save by an execution for r could end it, and that save changes the status.
LEMMA DebtKept ==
    ASSUME TypeOK, Bookkeeping, NEW r \in Requests, Owed(r), Pending(r),
           status = "Queued", status' = "Queued", [Next]_vars
    PROVE  Owed(r)' /\ Pending(r)'
<1> USE DEF Owed, Pending
<1>1. CASE OwnerStep
  BY <1>1 DEF OwnerStep, Activate, Deactivate, Edit, requestVars, hangfireVars, workerVars
<1>2. ASSUME NEW q \in Requests, RequestStep(q)
      PROVE  Owed(r)' /\ Pending(r)'
  <2>1. request[r] \notin {"new", "saving"}
    BY DEF Bookkeeping
  <2>2. CASE LoadForRun(q) \/ SaveQueued(q) \/ SaveQueuedFails(q)
    BY <2>1, <2>2 DEF LoadForRun, SaveQueued, SaveQueuedFails, TypeOK,
                      hangfireVars, workerVars
  <2>3. CASE Enqueue(q) \/ EnqueueFails(q)
    BY <2>3 DEF Enqueue, EnqueueFails, TypeOK, workerVars
  <2> QED
    BY <1>2, <2>2, <2>3 DEF RequestStep
<1>3. ASSUME NEW w \in Workers, NEW q \in Requests, DeliveryStep(w, q)
      PROVE  Owed(r)' /\ Pending(r)'
  <2>1. Take(w, q)
    BY <1>3 DEF DeliveryStep, Fetch, Redeliver, RedeliverEarly
  <2> QED
    BY <2>1 DEF Take, TypeOK, requestVars
<1>4. ASSUME NEW w \in Workers, Release(w)
      PROVE  Pending(r)'
  BY <1>4, NoRunAssumption DEF Release, TypeOK
<1>5. ASSUME NEW w \in Workers, NEW outcome \in Outcomes, Save(w, outcome)
      PROVE  task[w] # r
  <2>1. worker[w] = "executing" /\ outcome = snap[w].status
    BY <1>5 DEF Save, CompleteLatestExecution, Outcomes
  <2> QED
    BY <2>1 DEF Outcomes
<1>6. ASSUME NEW w \in Workers, WorkerStep(w)
      PROVE  Owed(r)' /\ Pending(r)'
  <2>1. CASE LoadJob(w)
    BY <2>1 DEF LoadJob, TypeOK, requestVars, hangfireVars
  <2>2. CASE SaveOutcome(w)
    <3>1. task[w] # r
      BY <2>2, <1>5 DEF SaveOutcome
    <3> QED
      BY <2>2, <3>1 DEF SaveOutcome, TypeOK, requestVars, hangfireVars
  <2>3. CASE ExecuteThrows(w) \/ MailThrows(w)
    <3>1. Threw(w) /\ Release(w) /\ request' = request
      BY <2>3 DEF ExecuteThrows, MailThrows, Threw, requestVars
    <3>2. Owed(r)'
      BY <3>1 DEF Threw, TypeOK
    <3> QED
      BY <3>1, <3>2, <1>4
  <2>4. CASE Finish(w)
    <3>1. Release(w) /\ request' = request /\ task[w] # r
      BY <2>4 DEF Finish, Returned, requestVars
    <3>2. Owed(r)'
      BY <2>4, <3>1 DEF Finish, Returned, TypeOK
    <3> QED
      BY <3>1, <3>2, <1>4
  <2>5. CASE ShutdownCancels(w) \/ SupersededCancels(w)
    <3>1. Release(w) /\ request' = request
      BY <2>5 DEF ShutdownCancels, SupersededCancels, requestVars
    <3>2. Owed(r)'
      BY <2>5 DEF ShutdownCancels, SupersededCancels, TypeOK, requestVars, hangfireVars
    <3> QED
      BY <3>1, <3>2, <1>4
  <2> QED
    BY <1>6, <2>1, <2>2, <2>3, <2>4, <2>5 DEF WorkerStep
<1>7. CASE Crash
  BY <1>7, NoRunAssumption DEF Crash, TypeOK, hangfireVars
<1>8. CASE UNCHANGED vars
  BY <1>8 DEF vars, requestVars, hangfireVars, workerVars
<1> QED
  BY <1>1, <1>2, <1>3, <1>6, <1>7, <1>8 DEF Next

LEMMA DebtStep == TypeOK /\ Bookkeeping /\ QueuedDebt /\ [Next]_vars => QueuedDebt'
<1> SUFFICES ASSUME TypeOK, Bookkeeping, QueuedDebt, [Next]_vars, status' = "Queued"
             PROVE  QueuedDebt'
  BY DEF QueuedDebt
<1>1. CASE status = "Queued"
  BY <1>1, DebtKept DEF QueuedDebt
<1>2. CASE status # "Queued"
  <2>1. ~ Quiet
    BY <1>2 DEF Quiet
  <2>2. ~ Saving
    BY <1>2 DEF Saving, Save, CompleteLatestExecution, Outcomes
  <2> QED
    BY <2>1, <2>2, StepKinds, DebtIncurred
<1> QED
  BY <1>1, <1>2

\* A job shown as Queued is Queued on account of a Run request that is still
\* owed its execution, whatever overlaps, is lost or is repeated.
THEOREM QueuedOwed == Spec => []QueuedIsOwedAnExecution
<1>1. Init => Bookkeeping /\ QueuedDebt
  BY DEF Init, Bookkeeping, QueuedDebt
<1>2. QueuedDebt => QueuedIsOwedAnExecution
  BY DEF QueuedDebt, QueuedIsOwedAnExecution
<1> QED
  BY <1>1, <1>2, BookkeepingStep, DebtStep, TypeCorrect, PTL DEF Spec

-----------------------------------------------------------------------------
(* Executions that do not overlap *)

\* Of the slots one at most is between its load of the job and its save, as it is
\* with a single worker, or under a lock held over the execution.
OneExecuting ==
    \A w, u \in Workers : worker[w] = "executing" /\ worker[u] = "executing" => w = u

\* Then what an execution loaded is still true when it saves: the entries it
\* found open are open, and only a Run can have changed the status meanwhile.
FreshSnapshot ==
    \A w \in Workers : worker[w] = "executing" =>
        /\ snap[w].open \subseteq OpenRows
        /\ status = snap[w].status \/ status = "Queued"

\* Neither an open entry nor one that succeeded carries an error message.
RowErrors ==
    \A i \in DOMAIN history :
        IsOpen(history[i]) \/ history[i].status = "Succeeded" => ~ history[i].error

\* The one execution that saves is not executing afterwards, and no other starts to.
LEMMA SavingStops ==
    ASSUME TypeOK, OneExecuting, Saving
    PROVE  \A w \in Workers : worker'[w] # "executing"
<1>1. PICK u \in Workers :
          /\ worker[u] = "executing"
          /\ \E s \in {"saved", "mailing", "idle"} : worker' = [worker EXCEPT ![u] = s]
  BY DEF Saving, SaveOutcome, ExecuteThrows, Save, Threw, Release
<1> QED
  BY <1>1 DEF OneExecuting, TypeOK

\* A slot that executes has the snapshot it had, or takes one now.
LEMMA SnapshotsTaken ==
    ASSUME TypeOK, [Next]_vars, NEW w \in Workers, worker'[w] = "executing"
    PROVE  \/ worker[w] = "executing" /\ snap'[w] = snap[w]
           \/ snap'[w].open = OpenRows /\ snap'[w].status = status
<1>1. CASE OwnerStep \/ \E r \in Requests : RequestStep(r)
  BY <1>1 DEF OwnerStep, Activate, Deactivate, Edit, RequestStep, LoadForRun,
              SaveQueued, SaveQueuedFails, Enqueue, EnqueueFails, workerVars
<1>2. CASE \E u \in Workers, r \in Requests : DeliveryStep(u, r)
  BY <1>2 DEF DeliveryStep, Fetch, Redeliver, RedeliverEarly, Take, TypeOK
<1>3. ASSUME NEW u \in Workers, WorkerStep(u)
      PROVE  \/ worker[w] = "executing" /\ snap'[w] = snap[w]
             \/ snap'[w].open = OpenRows /\ snap'[w].status = status
  <2>1. CASE LoadJob(u)
    BY <2>1 DEF LoadJob, TypeOK
  <2>2. CASE ~ LoadJob(u)
    BY <1>3, <2>2 DEF WorkerStep, SaveOutcome, ExecuteThrows, Finish, Returned,
                MailThrows, Threw, ShutdownCancels, SupersededCancels, Release, TypeOK
  <2> QED
    BY <2>1, <2>2
<1>4. CASE Crash \/ UNCHANGED vars
  BY <1>4 DEF Crash, vars, workerVars
<1> QED
  BY <1>1, <1>2, <1>3, <1>4 DEF Next

\* Only the one execution completes entries, so its snapshot cannot go stale.
LEMMA FreshStep ==
    TypeOK /\ OneExecuting /\ FreshSnapshot /\ [Next]_vars => FreshSnapshot'
<1> SUFFICES ASSUME TypeOK, OneExecuting, FreshSnapshot, [Next]_vars
             PROVE  FreshSnapshot'
  OBVIOUS
<1>1. /\ history \in Seq(Row) /\ Len(history) \in Nat
      /\ DOMAIN history = 1 .. Len(history)
  BY LenProperties DEF TypeOK
<1>2. CASE Quiet
  <2>1. OpenRows' = OpenRows /\ status' = status
    BY <1>2 DEF Quiet, OpenRows
  <2> QED
    BY <2>1, SnapshotsTaken DEF FreshSnapshot
<1>3. CASE Queueing
  <2>1. OpenRows \subseteq OpenRows'
    <3>1. /\ history' \in Seq(Row) /\ Len(history') = Len(history) + 1
          /\ \A i \in 1 .. Len(history) : history'[i] = history[i]
      BY <1>1, <1>3, MarkQueuedEffect DEF Queueing
    <3>2. DOMAIN history' = 1 .. Len(history) + 1
      BY <3>1, LenProperties
    <3> QED
      BY <1>1, <3>1, <3>2 DEF OpenRows
  <2> QED
    BY <1>3, <2>1 DEF Queueing, MarkQueued, FreshSnapshot, workerVars
<1>4. CASE Saving
  BY <1>4, SavingStops DEF FreshSnapshot
<1> QED
  BY <1>2, <1>3, <1>4, StepKinds

\* A completed entry is not completed again, so the merge of columns never
\* leaves a failed execution's message on an entry that succeeded.
LEMMA RowErrorsStep ==
    TypeOK /\ FreshSnapshot /\ RowErrors /\ [Next]_vars => RowErrors'
<1> SUFFICES ASSUME TypeOK, FreshSnapshot, RowErrors, [Next]_vars
             PROVE  RowErrors'
  OBVIOUS
<1>1. /\ history \in Seq(Row) /\ Len(history) \in Nat
      /\ DOMAIN history = 1 .. Len(history)
      /\ \A w \in Workers : snap[w].open \subseteq 1 .. Len(history)
  BY SnapshotType, LenProperties DEF TypeOK
<1>2. CASE Quiet
  BY <1>2 DEF Quiet, RowErrors
<1>3. CASE Queueing
  <2>1. /\ history' \in Seq(Row) /\ Len(history') = Len(history) + 1
        /\ history'[Len(history) + 1] = Started("Queued")
        /\ \A i \in 1 .. Len(history) : history'[i] = history[i]
    BY <1>1, <1>3, MarkQueuedEffect DEF Queueing
  <2>2. DOMAIN history' = 1 .. Len(history) + 1
    BY <2>1, LenProperties
  <2> QED
    BY <1>1, <2>1, <2>2, StartedType DEF RowErrors
<1>4. CASE Saving
  <2>1. PICK w \in Workers, outcome \in Outcomes : Save(w, outcome)
    BY <1>4 DEF Saving
  <2>2. /\ worker[w] = "executing" /\ CompleteLatestExecution(w, outcome)
        /\ snap[w].open \subseteq OpenRows
    BY <2>1 DEF Save, FreshSnapshot
  <2>3. DOMAIN history' = 1 .. Len(history') /\ history' \in Seq(Row)
    BY <1>1, <2>2, CompleteEffect, LenProperties
  <2>4. CASE \E i \in snap[w].open :
               /\ Len(history') = Len(history)
               /\ history'[i] = Complete(history[i], outcome)
               /\ \A j \in 1 .. Len(history) : j # i => history'[j] = history[j]
    <3>1. PICK i \in snap[w].open :
               /\ Len(history') = Len(history)
               /\ history'[i] = Complete(history[i], outcome)
               /\ \A j \in 1 .. Len(history) : j # i => history'[j] = history[j]
      BY <2>4
    <3>2. /\ i \in 1 .. Len(history) /\ history[i] \in Row
          /\ IsOpen(history[i]) /\ ~ history[i].error
      BY <1>1, <2>2, <3>1, ElementOfSeq DEF OpenRows, RowErrors
    <3>3. history'[i].status = outcome /\ (history'[i].error <=> outcome = "Failed")
      BY <3>1, <3>2, CompleteType
    <3>4. ~ IsOpen(history'[i])
      BY <3>3 DEF IsOpen, Outcomes
    <3> QED
      BY <1>1, <2>3, <3>1, <3>2, <3>3, <3>4 DEF RowErrors, Outcomes
  <2>5. CASE /\ snap[w].open = {}
             /\ Len(history') = Len(history) + 1
             /\ history'[Len(history) + 1] = Complete(Started("Running"), outcome)
             /\ \A j \in 1 .. Len(history) : history'[j] = history[j]
    <3> DEFINE n == Len(history) + 1
    <3>1. history'[n].status = outcome /\ (history'[n].error <=> outcome = "Failed")
      BY <2>5, StartedType, CompleteType
    <3>2. ~ IsOpen(history'[n])
      BY <3>1 DEF IsOpen, Outcomes
    <3> QED
      BY <1>1, <2>3, <2>5, <3>1, <3>2 DEF RowErrors, Outcomes
  <2> QED
    BY <1>1, <2>2, <2>4, <2>5, CompleteEffect
<1> QED
  BY <1>2, <1>3, <1>4, StepKinds

\* While executions of the job do not overlap, an entry shown as Succeeded has
\* no error message.
THEOREM SerialErrors == Spec /\ []OneExecuting => []SucceededHasNoError
<1>1. Init => FreshSnapshot /\ RowErrors
  BY DEF Init, FreshSnapshot, RowErrors
<1>2. RowErrors => SucceededHasNoError
  BY DEF RowErrors, SucceededHasNoError
<1> QED
  BY <1>1, <1>2, FreshStep, RowErrorsStep, TypeCorrect, PTL DEF Spec

-----------------------------------------------------------------------------
(* Executions that do not overlap leave no entry open for good *)

OwedSet == {r \in Requests : Owed(r)}

\* A slot whose execution has saved, or found nothing open to complete.
Settled(w) == \/ worker[w] \in {"saved", "mailing"}
              \/ worker[w] = "executing" /\ snap[w].open = {}

\* The requests owed an execution that has settled already and need only return.
SettledRuns == {r \in OwedSet : \E w \in Workers : task[w] = r /\ Settled(w)}

\* The requests owed one that has not settled cover the open entries.
SerialDebt ==
    /\ IsFiniteSet(OwedSet)
    /\ Cardinality(OpenRows) + Cardinality(SettledRuns) <= Cardinality(OwedSet)

LEMMA OpenRowsFinite ==
    ASSUME TypeOK
    PROVE  IsFiniteSet(OpenRows) /\ Cardinality(OpenRows) \in Nat
<1>1. OpenRows \subseteq 1 .. Len(history) /\ Len(history) \in Nat
  BY SnapshotType, LenProperties DEF TypeOK
<1>2. IsFiniteSet(1 .. Len(history))
  BY <1>1, FS_Interval
<1> QED
  BY <1>1, <1>2, FS_Subset, FS_CardinalityType

\* MarkQueued opens one entry more.
LEMMA QueueingOpens ==
    ASSUME TypeOK, MarkQueued
    PROVE  Cardinality(OpenRows') = Cardinality(OpenRows) + 1
<1> DEFINE n == Len(history) + 1
<1>1. history \in Seq(Row) /\ Len(history) \in Nat /\ DOMAIN history = 1 .. Len(history)
  BY LenProperties DEF TypeOK
<1>2. /\ history' \in Seq(Row) /\ Len(history') = n
      /\ history'[n] = Started("Queued")
      /\ \A i \in 1 .. Len(history) : history'[i] = history[i]
  BY <1>1, MarkQueuedEffect
<1>3. DOMAIN history' = 1 .. n
  BY <1>2, LenProperties
<1>4. OpenRows' = OpenRows \cup {n} /\ n \notin OpenRows
  BY <1>1, <1>2, <1>3, StartedType DEF OpenRows
<1> QED
  BY <1>4, OpenRowsFinite, FS_AddElement

\* A save over a fresh snapshot closes one open entry, or adds a closed one
\* when it found none open.
LEMMA SavingCloses ==
    ASSUME TypeOK, FreshSnapshot, NEW w \in Workers, NEW outcome \in Outcomes,
           Save(w, outcome)
    PROVE  \/ snap[w].open = {} /\ OpenRows' = OpenRows
           \/ Cardinality(OpenRows') = Cardinality(OpenRows) - 1
<1>1. /\ history \in Seq(Row) /\ Len(history) \in Nat
      /\ DOMAIN history = 1 .. Len(history)
      /\ \A u \in Workers : snap[u].open \subseteq 1 .. Len(history)
  BY SnapshotType, LenProperties DEF TypeOK
<1>2. /\ CompleteLatestExecution(w, outcome)
      /\ snap[w].open \subseteq OpenRows
  BY DEF Save, FreshSnapshot
<1>3. DOMAIN history' = 1 .. Len(history')
  BY <1>1, <1>2, CompleteEffect, LenProperties
<1>4. CASE \E i \in snap[w].open :
               /\ Len(history') = Len(history)
               /\ history'[i] = Complete(history[i], outcome)
               /\ \A j \in 1 .. Len(history) : j # i => history'[j] = history[j]
  <2>1. PICK i \in snap[w].open :
               /\ Len(history') = Len(history)
               /\ history'[i] = Complete(history[i], outcome)
               /\ \A j \in 1 .. Len(history) : j # i => history'[j] = history[j]
    BY <1>4
  <2>2. i \in OpenRows /\ history[i] \in Row
    BY <1>1, <1>2, <2>1, ElementOfSeq DEF OpenRows
  <2>3. history'[i].status = outcome
    BY <2>1, <2>2, CompleteType
  <2>4. ~ IsOpen(history'[i])
    BY <2>3 DEF IsOpen, Outcomes
  <2>5. OpenRows' = OpenRows \ {i}
    BY <1>1, <1>3, <2>1, <2>4 DEF OpenRows
  <2> QED
    BY <2>2, <2>5, OpenRowsFinite, FS_RemoveElement
<1>5. CASE /\ snap[w].open = {}
           /\ Len(history') = Len(history) + 1
           /\ history'[Len(history) + 1] = Complete(Started("Running"), outcome)
           /\ \A j \in 1 .. Len(history) : history'[j] = history[j]
  <2> DEFINE n == Len(history) + 1
  <2>1. history'[n].status = outcome
    BY <1>5, StartedType, CompleteType
  <2>2. ~ IsOpen(history'[n])
    BY <2>1 DEF IsOpen, Outcomes
  <2>3. OpenRows' = OpenRows
    BY <1>1, <1>3, <1>5, <2>2 DEF OpenRows
  <2> QED
    BY <1>5, <2>3
<1> QED
  BY <1>1, <1>2, <1>4, <1>5, CompleteEffect

\* Retries, redeliveries, shutdowns, crashes and the Enqueue itself leave it
\* as it is which requests are owed their execution.
LEMMA OwedKept ==
    ASSUME TypeOK, Bookkeeping, [Next]_vars, ~ Queueing,
           \A w \in Workers : ~ Finish(w)
    PROVE  OwedSet' = OwedSet
<1> SUFFICES ASSUME NEW r \in Requests
             PROVE  Owed(r)' <=> Owed(r)
  BY DEF OwedSet
<1> USE DEF Owed, TypeOK
<1>1. CASE OwnerStep
  BY <1>1 DEF OwnerStep, Activate, Deactivate, Edit, requestVars, hangfireVars
<1>2. ASSUME NEW q \in Requests, RequestStep(q)
      PROVE  Owed(r)' <=> Owed(r)
  <2>1. CASE LoadForRun(q)
    BY <2>1 DEF LoadForRun, Bookkeeping, hangfireVars
  <2>2. CASE SaveQueued(q) \/ SaveQueuedFails(q)
    <3>1. request[q] = "saving" /\ request' = [request EXCEPT ![q] = "rejected"]
          /\ UNCHANGED hangfireVars
      BY <2>2 DEF SaveQueued, SaveQueuedFails, Queueing, workerVars
    <3> QED
      BY <3>1 DEF hangfireVars, Bookkeeping
  <2>3. CASE Enqueue(q) \/ EnqueueFails(q)
    BY <2>3 DEF Enqueue, EnqueueFails, Bookkeeping
  <2> QED
    BY <1>2, <2>1, <2>2, <2>3 DEF RequestStep
<1>3. ASSUME NEW w \in Workers, NEW q \in Requests, DeliveryStep(w, q)
      PROVE  Owed(r)' <=> Owed(r)
  <2>1. delivery[q] \in {"enqueued", "fetched"} /\ Take(w, q)
    BY <1>3 DEF DeliveryStep, Fetch, Redeliver, RedeliverEarly
  <2> QED
    BY <2>1 DEF Take, requestVars
<1>4. ASSUME NEW w \in Workers, WorkerStep(w)
      PROVE  Owed(r)' <=> Owed(r)
  <2>1. CASE LoadJob(w) \/ SaveOutcome(w) \/ SupersededCancels(w)
    BY <2>1 DEF LoadJob, SaveOutcome, SupersededCancels, requestVars, hangfireVars
  <2>2. CASE ExecuteThrows(w) \/ MailThrows(w)
    <3>1. Threw(w) /\ request' = request
      BY <2>2 DEF ExecuteThrows, MailThrows, requestVars
    <3> QED
      BY <3>1 DEF Threw
  <2>3. CASE ShutdownCancels(w)
    BY <2>3 DEF ShutdownCancels, requestVars
  <2> QED
    BY <1>4, <2>1, <2>2, <2>3 DEF WorkerStep
<1>5. CASE Crash
  BY <1>5 DEF Crash, Bookkeeping, hangfireVars
<1>6. CASE UNCHANGED vars
  BY <1>6 DEF vars, requestVars, hangfireVars
<1> QED
  BY <1>1, <1>2, <1>3, <1>4, <1>5, <1>6 DEF Next

\* A saved Run is owed its execution from then on.
LEMMA OwedGrows ==
    ASSUME TypeOK, Bookkeeping, Queueing
    PROVE  \E r \in Requests :
              /\ r \notin OwedSet /\ OwedSet' = OwedSet \cup {r}
              /\ \A w \in Workers : task[w] # r
<1>1. PICK r \in Requests :
          /\ request[r] = "saving"
          /\ request' \in {[request EXCEPT ![r] = "enqueueing"],
                           [request EXCEPT ![r] = "errored"]}
          /\ UNCHANGED <<hangfireVars, workerVars>>
  BY DEF Queueing
<1>2. delivery[r] = "absent" /\ \A w \in Workers : task[w] # r
  BY <1>1, NoRunAssumption DEF Bookkeeping
<1>3. Owed(r)' /\ ~ Owed(r)
  BY <1>1, <1>2 DEF Owed, TypeOK, hangfireVars
<1>4. \A q \in Requests : q # r => (Owed(q)' <=> Owed(q))
  BY <1>1 DEF Owed, TypeOK, hangfireVars
<1> QED
  BY <1>2, <1>3, <1>4 DEF OwedSet

\* An execution that returns to a Hangfire job still in processing is no longer owed.
LEMMA OwedPaid ==
    ASSUME TypeOK, NEW w \in Workers, Finish(w)
    PROVE  IF delivery[task[w]] = "fetched"
           THEN task[w] \in OwedSet /\ OwedSet' = OwedSet \ {task[w]}
           ELSE OwedSet' = OwedSet
<1>1. /\ task[w] \in Requests /\ request' = request
      /\ delivery' = [delivery EXCEPT ![task[w]] = IF @ = "fetched" THEN "succeeded" ELSE @]
  BY DEF Finish, Returned, TypeOK, requestVars
<1>2. CASE delivery[task[w]] = "fetched"
  <2>1. \A r \in Requests : Owed(r)' <=> Owed(r) /\ r # task[w]
    BY <1>1, <1>2 DEF Owed, TypeOK
  <2>2. Owed(task[w])
    BY <1>2 DEF Owed
  <2> QED
    BY <1>1, <1>2, <2>1, <2>2 DEF OwedSet
<1>3. CASE delivery[task[w]] # "fetched"
  <2>1. delivery' = delivery
    BY <1>1, <1>3 DEF TypeOK
  <2> QED
    BY <1>1, <1>3, <2>1 DEF OwedSet, Owed
<1> QED
  BY <1>2, <1>3

\* A step that settles nothing, opens nothing and keeps what is owed.
LEMMA NothingSettles ==
    ASSUME SerialDebt, OwedSet' = OwedSet, TypeOK, OpenRows' = OpenRows,
           \A w \in Workers : Settled(w)' => Settled(w) /\ task'[w] = task[w]
    PROVE  SerialDebt'
<1>1. SettledRuns' \subseteq SettledRuns /\ SettledRuns \subseteq OwedSet
  BY DEF SettledRuns
<1>2. IsFiniteSet(SettledRuns)
  BY <1>1, FS_Subset DEF SerialDebt
<1>3. Cardinality(SettledRuns') <= Cardinality(SettledRuns) /\ IsFiniteSet(SettledRuns')
  BY <1>1, <1>2, FS_Subset
<1> QED
  BY <1>2, <1>3, OpenRowsFinite, FS_CardinalityType DEF SerialDebt

LEMMA SerialDebtStep ==
    TypeOK /\ Bookkeeping /\ FreshSnapshot /\ SerialDebt /\ [Next]_vars => SerialDebt'
<1> SUFFICES ASSUME TypeOK, Bookkeeping, FreshSnapshot, SerialDebt, [Next]_vars
             PROVE  SerialDebt'
  OBVIOUS
<1>0. /\ Cardinality(OpenRows) \in Nat
      /\ IsFiniteSet(OwedSet) /\ Cardinality(OwedSet) \in Nat
      /\ SettledRuns \subseteq OwedSet
      /\ IsFiniteSet(SettledRuns) /\ Cardinality(SettledRuns) \in Nat
      /\ Cardinality(OpenRows) + Cardinality(SettledRuns) <= Cardinality(OwedSet)
  <2>1. SettledRuns \subseteq OwedSet
    BY DEF SettledRuns
  <2> QED
    BY <2>1, OpenRowsFinite, FS_CardinalityType, FS_Subset DEF SerialDebt
<1>1. CASE Queueing
  <2>1. Cardinality(OpenRows') = Cardinality(OpenRows) + 1
    BY <1>1, QueueingOpens DEF Queueing
  <2>2. IsFiniteSet(OwedSet') /\ Cardinality(OwedSet') = Cardinality(OwedSet) + 1
    BY <1>0, <1>1, OwedGrows, FS_AddElement
  <2>3. SettledRuns' = SettledRuns
    <3>1. PICK r \in Requests : r \notin OwedSet /\ OwedSet' = OwedSet \cup {r}
                                  /\ \A w \in Workers : task[w] # r
      BY <1>1, OwedGrows
    <3>2. UNCHANGED workerVars
      BY <1>1 DEF Queueing
    <3> QED
      BY <3>1, <3>2 DEF SettledRuns, Settled, workerVars
  <2> QED
    BY <1>0, <2>1, <2>2, <2>3 DEF SerialDebt
<1>2. ASSUME NEW w \in Workers, Finish(w)
      PROVE  SerialDebt'
  <2>1. /\ OpenRows' = OpenRows
        /\ \A u \in Workers : Settled(u)' => u # w /\ Settled(u) /\ task'[u] = task[u]
        /\ Settled(w)
    BY <1>2 DEF Finish, Returned, Release, OpenRows, jobVars, TypeOK, Settled
  <2>2. CASE delivery[task[w]] = "fetched"
    <3> DEFINE r == task[w]
    <3>1. r \in OwedSet /\ OwedSet' = OwedSet \ {r}
      BY <1>2, <2>2, OwedPaid
    <3>2. r \in SettledRuns /\ SettledRuns' \subseteq SettledRuns \ {r}
      BY <2>1, <3>1 DEF SettledRuns
    <3> HIDE DEF r
    <3>3. IsFiniteSet(OwedSet') /\ Cardinality(OwedSet') = Cardinality(OwedSet) - 1
      BY <1>0, <3>1, FS_RemoveElement
    <3>4. /\ IsFiniteSet(SettledRuns \ {r})
          /\ Cardinality(SettledRuns \ {r}) = Cardinality(SettledRuns) - 1
      BY <1>0, <3>2, FS_RemoveElement
    <3>5. /\ Cardinality(SettledRuns') <= Cardinality(SettledRuns \ {r})
          /\ IsFiniteSet(SettledRuns')
      BY <3>2, <3>4, FS_Subset
    <3>6. Cardinality(SettledRuns') \in Nat
      BY <3>5, FS_CardinalityType
    <3> QED
      BY <1>0, <2>1, <3>3, <3>4, <3>5, <3>6 DEF SerialDebt
  <2>3. CASE delivery[task[w]] # "fetched"
    BY <1>2, <2>1, <2>3, OwedPaid, NothingSettles
  <2> QED
    BY <2>2, <2>3
<1>3. CASE ~ Queueing /\ \A w \in Workers : ~ Finish(w)
  <2>1. OwedSet' = OwedSet
    BY <1>3, OwedKept
  <2>2. ASSUME OpenRows' = OpenRows,
               \A w \in Workers : Settled(w)' => Settled(w) /\ task'[w] = task[w]
        PROVE  SerialDebt'
    BY <2>1, <2>2, NothingSettles
\* An execution that found nothing open has settled with it: then no more are
\* settled than are owed, and nothing else is to be covered.
  <2>3. ASSUME NEW w \in Workers, LoadJob(w)
        PROVE  SerialDebt'
    <3>1. /\ OpenRows' = OpenRows /\ snap'[w].open = OpenRows
          /\ \A u \in Workers \ {w} : (Settled(u)' <=> Settled(u))
          /\ task' = task
      BY <2>3 DEF LoadJob, OpenRows, jobVars, TypeOK, Settled
    <3>2. CASE OpenRows = {}
      <4>1. SettledRuns' \subseteq OwedSet
        BY <2>1 DEF SettledRuns
      <4>2. Cardinality(SettledRuns') <= Cardinality(OwedSet) /\ IsFiniteSet(SettledRuns')
        BY <1>0, <4>1, FS_Subset
      <4>3. Cardinality(OpenRows') = 0 /\ Cardinality(SettledRuns') \in Nat
        BY <3>1, <3>2, <4>2, FS_EmptySet, FS_CardinalityType
      <4> QED
        BY <1>0, <2>1, <4>2, <4>3 DEF SerialDebt
    <3>3. CASE OpenRows # {}
      <4>1. ~ Settled(w)'
        BY <2>3, <3>1, <3>3 DEF LoadJob, Settled, TypeOK
      <4> QED
        BY <2>2, <3>1, <4>1
    <3> QED
      BY <3>2, <3>3
\* A save closes an entry and settles the request of its slot.
  <2>4. ASSUME NEW w \in Workers, NEW outcome \in Outcomes, Save(w, outcome),
               \A u \in Workers \ {w} : Settled(u)' => Settled(u) /\ task'[u] = task[u],
               Settled(w)' => task'[w] = task[w]
        PROVE  SerialDebt'
    <3>1. CASE snap[w].open = {} /\ OpenRows' = OpenRows
      <4>1. Settled(w)
        BY <2>4, <3>1 DEF Save, Settled
      <4> QED
        BY <2>2, <2>4, <3>1, <4>1
    <3>2. CASE Cardinality(OpenRows') = Cardinality(OpenRows) - 1
      <4>1. SettledRuns' \subseteq SettledRuns \cup {task[w]}
        BY <2>1, <2>4 DEF SettledRuns
      <4>2. /\ IsFiniteSet(SettledRuns \cup {task[w]})
            /\ Cardinality(SettledRuns \cup {task[w]}) <= Cardinality(SettledRuns) + 1
        <5>1. /\ IsFiniteSet(SettledRuns \cup {task[w]})
              /\ \/ Cardinality(SettledRuns \cup {task[w]}) = Cardinality(SettledRuns)
                 \/ Cardinality(SettledRuns \cup {task[w]}) = Cardinality(SettledRuns) + 1
          BY <1>0, FS_AddElement, Zenon
        <5> QED
          BY <1>0, <5>1
      <4>3. /\ IsFiniteSet(SettledRuns')
            /\ Cardinality(SettledRuns') <= Cardinality(SettledRuns \cup {task[w]})
        BY <4>1, <4>2, FS_Subset
      <4>4. Cardinality(SettledRuns') \in Nat /\ Cardinality(SettledRuns \cup {task[w]}) \in Nat
        BY <4>2, <4>3, FS_CardinalityType
      <4> QED
        BY <1>0, <2>1, <3>2, <4>2, <4>3, <4>4 DEF SerialDebt
    <3> QED
      BY <2>4, <3>1, <3>2, SavingCloses
  <2>5. CASE OwnerStep
    BY <2>2, <2>5 DEF OwnerStep, Activate, Deactivate, Edit, OpenRows, Settled, workerVars
  <2>6. CASE \E r \in Requests : RequestStep(r)
    <3>1. UNCHANGED <<history, workerVars>>
      BY <1>3, <2>6 DEF RequestStep, LoadForRun, SaveQueued, SaveQueuedFails, Enqueue,
                        EnqueueFails, Queueing, jobVars, hangfireVars, workerVars
    <3> QED
      BY <2>2, <3>1 DEF OpenRows, Settled, workerVars
  <2>7. ASSUME NEW w \in Workers, NEW r \in Requests, DeliveryStep(w, r)
        PROVE  SerialDebt'
    <3>1. /\ UNCHANGED jobVars /\ UNCHANGED snap
          /\ worker' = [worker EXCEPT ![w] = "fetched"] /\ task' = [task EXCEPT ![w] = r]
      BY <2>7 DEF DeliveryStep, Fetch, Redeliver, RedeliverEarly, Take
    <3>2. \A u \in Workers : Settled(u)' => Settled(u) /\ task'[u] = task[u]
      BY <3>1 DEF Settled, TypeOK
    <3> QED
      BY <2>2, <3>1, <3>2 DEF OpenRows, jobVars
  <2>8. ASSUME NEW w \in Workers, WorkerStep(w)
        PROVE  SerialDebt'
    <3>1. ASSUME Release(w)
          PROVE  \A u \in Workers : Settled(u)' => u # w /\ Settled(u) /\ task'[u] = task[u]
      BY <3>1 DEF Release, Settled, TypeOK
    <3>2. CASE SaveOutcome(w)
      <4>1. \A u \in Workers : task'[u] = task[u] /\ (u # w => (Settled(u)' <=> Settled(u)))
        BY <3>2 DEF SaveOutcome, Settled, TypeOK
      <4> QED
        BY <2>4, <3>2, <4>1 DEF SaveOutcome
    <3>3. ASSUME Release(w), UNCHANGED jobVars
          PROVE  SerialDebt'
      BY <2>2, <3>1, <3>3 DEF OpenRows, jobVars
    <3>4. CASE ExecuteThrows(w)
      <4>1. Release(w)
        BY <3>4 DEF ExecuteThrows, Threw
      <4>2. \A u \in Workers : Settled(u)' => u # w /\ Settled(u) /\ task'[u] = task[u]
        BY <3>1, <4>1
      <4>3. CASE UNCHANGED jobVars
        BY <3>3, <4>1, <4>3
      <4>4. ASSUME NEW outcome \in Outcomes, Save(w, outcome)
            PROVE  SerialDebt'
        BY <2>4, <4>2, <4>4
      <4> QED
        BY <3>4, <4>3, <4>4 DEF ExecuteThrows
    <3>5. CASE MailThrows(w) \/ ShutdownCancels(w) \/ SupersededCancels(w)
      <4>1. Release(w) /\ UNCHANGED jobVars
        BY <3>5 DEF MailThrows, Threw, ShutdownCancels, SupersededCancels, jobVars
      <4> QED
        BY <4>1, <3>3
    <3> QED
      BY <1>3, <2>3, <2>8, <3>2, <3>4, <3>5 DEF WorkerStep
  <2>9. CASE Crash
    BY <2>2, <2>9 DEF Crash, OpenRows, Settled, jobVars
  <2>10. CASE UNCHANGED vars
    BY <2>2, <2>10 DEF vars, OpenRows, Settled, jobVars, workerVars
  <2> QED
    BY <2>5, <2>6, <2>7, <2>8, <2>9, <2>10 DEF Next
<1> QED
  BY <1>1, <1>2, <1>3

\* While executions of the job do not overlap, no history entry stays open
\* without a Run request that is still owed its execution, whatever is retried,
\* redelivered, stopped or crashes in between.
THEOREM SerialOpenRuns == Spec /\ []OneExecuting => []OpenRunsAreOwed
<1>1. Init => Bookkeeping /\ FreshSnapshot
  BY DEF Init, Bookkeeping, FreshSnapshot
<1>2. Init => SerialDebt
  <2> SUFFICES ASSUME Init PROVE SerialDebt
    OBVIOUS
  <2>1. OwedSet = {} /\ OpenRows = {} /\ SettledRuns = {}
    BY DEF Init, OwedSet, Owed, OpenRows, SettledRuns
  <2>2. IsFiniteSet({}) /\ Cardinality({}) = 0
    BY FS_EmptySet
  <2> QED
    BY <2>1, <2>2 DEF SerialDebt
<1>3. TypeOK /\ SerialDebt => OpenRunsAreOwed
  <2> SUFFICES ASSUME TypeOK, SerialDebt PROVE OpenRunsAreOwed
    OBVIOUS
  <2>1. SettledRuns \subseteq OwedSet
    BY DEF SettledRuns
  <2>2. IsFiniteSet(SettledRuns)
    BY <2>1, FS_Subset DEF SerialDebt
  <2>3. /\ Cardinality(SettledRuns) \in Nat /\ Cardinality(OwedSet) \in Nat
        /\ Cardinality(OpenRows) \in Nat
    BY <2>2, OpenRowsFinite, FS_CardinalityType DEF SerialDebt
  <2> QED
    BY <2>3 DEF SerialDebt, OpenRunsAreOwed, OwedSet
<1> QED
  BY <1>1, <1>2, <1>3, FreshStep, SerialDebtStep, BookkeepingStep, TypeCorrect, PTL DEF Spec

-----------------------------------------------------------------------------
(* Executions that do not overlap implement the ledger *)

EntryKinds == Status \cup {"open", "rewritten"}

\* The ledger seen in a history is a sequence as long as it.
LEMMA LedgerSeq ==
    ASSUME NEW h \in Seq(Row)
    PROVE  /\ EntriesOf(h) \in Seq(EntryKinds)
           /\ Len(EntriesOf(h)) = Len(h)
           /\ DOMAIN EntriesOf(h) = 1 .. Len(h)
           /\ \A i \in 1 .. Len(h) : EntriesOf(h)[i] = Entry(h[i])
<1>1. /\ Len(h) \in Nat /\ DOMAIN h = 1 .. Len(h)
      /\ \A i \in 1 .. Len(h) : h[i] \in Row
  BY LenProperties
<1>2. \A i \in 1 .. Len(h) : Entry(h[i]) \in EntryKinds
  BY <1>1 DEF Entry, EntryKinds, Row
<1>3. EntriesOf(h) \in [1 .. Len(h) -> EntryKinds]
  BY <1>1, <1>2 DEF EntriesOf
<1> QED
  BY <1>1, <1>3 DEF EntriesOf

\* A history that gained an entry has gained it in the ledger.
LEMMA LedgerAppend ==
    ASSUME NEW h \in Seq(Row), NEW g \in Seq(Row),
           Len(g) = Len(h) + 1,
           \A i \in 1 .. Len(h) : g[i] = h[i]
    PROVE  EntriesOf(g) = Append(EntriesOf(h), Entry(g[Len(h) + 1]))
<1> DEFINE e == Entry(g[Len(h) + 1])
<1>1. /\ Len(h) \in Nat
      /\ EntriesOf(g) \in Seq(EntryKinds)
      /\ Len(EntriesOf(g)) = Len(h) + 1
      /\ \A i \in 1 .. Len(h) + 1 : EntriesOf(g)[i] = Entry(g[i])
  BY LedgerSeq, LenProperties
<1>2. e \in EntryKinds
  BY <1>1, ElementOfSeq
<1>3. /\ Append(EntriesOf(h), e) \in Seq(EntryKinds)
      /\ Len(Append(EntriesOf(h), e)) = Len(h) + 1
      /\ \A i \in 1 .. Len(h) : Append(EntriesOf(h), e)[i] = Entry(h[i])
      /\ Append(EntriesOf(h), e)[Len(h) + 1] = e
  BY <1>1, <1>2, LedgerSeq
<1>4. \A i \in 1 .. Len(h) + 1 : EntriesOf(g)[i] = Append(EntriesOf(h), e)[i]
  BY <1>1, <1>3
<1> QED
  BY <1>1, <1>3, <1>4, SeqEqual

\* A history with one entry changed has that entry changed in the ledger.
LEMMA LedgerExcept ==
    ASSUME NEW h \in Seq(Row), NEW g \in Seq(Row), NEW i \in 1 .. Len(h),
           Len(g) = Len(h),
           \A j \in 1 .. Len(h) : j # i => g[j] = h[j]
    PROVE  EntriesOf(g) = [EntriesOf(h) EXCEPT ![i] = Entry(g[i])]
<1>1. /\ EntriesOf(g) \in Seq(EntryKinds)
      /\ Len(EntriesOf(g)) = Len(h)
      /\ \A j \in 1 .. Len(h) : EntriesOf(g)[j] = Entry(g[j])
  BY LedgerSeq
<1>2. Entry(g[i]) \in EntryKinds
  BY <1>1, ElementOfSeq
<1>3. /\ [EntriesOf(h) EXCEPT ![i] = Entry(g[i])] \in Seq(EntryKinds)
      /\ Len([EntriesOf(h) EXCEPT ![i] = Entry(g[i])]) = Len(h)
      /\ \A j \in 1 .. Len(h) : [EntriesOf(h) EXCEPT ![i] = Entry(g[i])][j]
                                  = IF j = i THEN Entry(g[i]) ELSE Entry(h[j])
  BY <1>2, LedgerSeq, ExceptSeq
<1>4. \A j \in 1 .. Len(h) :
          EntriesOf(g)[j] = [EntriesOf(h) EXCEPT ![i] = Entry(g[i])][j]
  BY <1>1, <1>3
<1> QED
  BY <1>1, <1>3, <1>4, SeqEqual

\* A save over a fresh snapshot settles an open entry, or adds a settled one.
LEMMA SavingSettles ==
    ASSUME TypeOK, FreshSnapshot, Saving, QueuedHasOpenRun'
    PROVE  Ledger!Next
<1>1. PICK w \in Workers, outcome \in Outcomes : Save(w, outcome)
  BY DEF Saving
<1>2. /\ worker[w] = "executing" /\ CompleteLatestExecution(w, outcome)
      /\ snap[w].open \subseteq OpenRows
      /\ status = snap[w].status \/ status = "Queued"
  BY <1>1 DEF Save, FreshSnapshot
<1>3. /\ history \in Seq(Row) /\ Len(history) \in Nat
      /\ \A v \in Workers : snap[v].open \subseteq 1 .. Len(history)
  BY SnapshotType, LenProperties DEF TypeOK
<1>4. history' \in Seq(Row)
  BY <1>2, <1>3, CompleteEffect
<1>5. \/ status' = outcome
      \/ /\ status = "Queued" /\ status' = "Queued"
         /\ \E i \in DOMAIN EntriesOf(history') : EntriesOf(history')[i] = "open"
  <2>1. CASE status' = "Queued"
    <3>1. PICK i \in DOMAIN history' : IsOpen(history'[i])
      BY <2>1 DEF QueuedHasOpenRun, OpenRows
    <3>2. Entry(history'[i]) = "open"
      BY <3>1 DEF IsOpen, Entry
    <3>3. i \in DOMAIN EntriesOf(history') /\ EntriesOf(history')[i] = "open"
      BY <3>1, <3>2 DEF EntriesOf
    <3> QED
      BY <1>2, <2>1, <3>3 DEF CompleteLatestExecution
  <2> QED
    BY <1>2, <2>1 DEF CompleteLatestExecution
<1>6. CASE \E i \in snap[w].open :
               /\ Len(history') = Len(history)
               /\ history'[i] = Complete(history[i], outcome)
               /\ \A j \in 1 .. Len(history) : j # i => history'[j] = history[j]
  <2>1. PICK i \in snap[w].open :
               /\ Len(history') = Len(history)
               /\ history'[i] = Complete(history[i], outcome)
               /\ \A j \in 1 .. Len(history) : j # i => history'[j] = history[j]
    BY <1>6
  <2>2. /\ i \in 1 .. Len(history) /\ history[i] \in Row
        /\ history[i].stamp = 0
    BY <1>2, <1>3, <2>1, ElementOfSeq DEF OpenRows, IsOpen
  <2>3. Entry(history[i]) = "open" /\ Entry(history'[i]) = outcome
    BY <2>1, <2>2, CompleteType DEF Entry
  <2>4. EntriesOf(history') = [EntriesOf(history) EXCEPT ![i] = outcome]
    BY <1>3, <1>4, <2>1, <2>2, <2>3, LedgerExcept
  <2>5. i \in DOMAIN EntriesOf(history) /\ EntriesOf(history)[i] = "open"
    BY <1>3, <2>2, <2>3, LedgerSeq
  <2>6. Ledger!Settle(outcome)
    BY <1>5, <2>4, <2>5 DEF Ledger!Settle
  <2> QED
    BY <2>6 DEF Ledger!Next, Outcomes
<1>7. CASE /\ snap[w].open = {}
           /\ Len(history') = Len(history) + 1
           /\ history'[Len(history) + 1] = Complete(Started("Running"), outcome)
           /\ \A j \in 1 .. Len(history) : history'[j] = history[j]
  <2>1. Entry(history'[Len(history) + 1]) = outcome
    BY <1>7, StartedType, CompleteType DEF Entry
  <2>2. EntriesOf(history') = Append(EntriesOf(history), outcome)
    BY <1>3, <1>4, <1>7, <2>1, LedgerAppend
  <2>3. Ledger!Settle(outcome)
    BY <1>5, <2>2 DEF Ledger!Settle
  <2> QED
    BY <2>3 DEF Ledger!Next, Outcomes
<1> QED
  BY <1>2, <1>3, <1>6, <1>7, CompleteEffect

\* Every step is a step of the ledger or leaves it unchanged.
LEMMA LedgerStep ==
    TypeOK /\ FreshSnapshot /\ QueuedHasOpenRun' /\ [Next]_vars
        => [Ledger!Next]_(Ledger!ledgerVars)
<1> SUFFICES ASSUME TypeOK, FreshSnapshot, QueuedHasOpenRun', [Next]_vars
             PROVE  [Ledger!Next]_(Ledger!ledgerVars)
  OBVIOUS
<1>1. CASE Quiet
  BY <1>1 DEF Quiet, Ledger!ledgerVars
<1>2. CASE Queueing
  <2>1. /\ history \in Seq(Row)
        /\ status' = "Queued" /\ history' \in Seq(Row)
        /\ Len(history') = Len(history) + 1
        /\ history'[Len(history) + 1] = Started("Queued")
        /\ \A i \in 1 .. Len(history) : history'[i] = history[i]
    BY <1>2, MarkQueuedEffect DEF Queueing, TypeOK
  <2>2. Entry(history'[Len(history) + 1]) = "open"
    BY <2>1, StartedType DEF Entry
  <2>3. EntriesOf(history') = Append(EntriesOf(history), "open")
    BY <2>1, <2>2, LedgerAppend
  <2> QED
    BY <2>1, <2>3 DEF Ledger!Next, Ledger!Submit
<1>3. CASE Saving
  BY <1>3, SavingSettles
<1> QED
  BY <1>1, <1>2, <1>3, StepKinds

\* While executions of the job do not overlap, the handlers, the queue and the
\* workers implement the ledger: entries are settled at most once and the status
\* follows them.
THEOREM SerialRefinement == Spec /\ []OneExecuting => ImplementsLedger
<1>1. Init => Ledger!Init
  BY DEF Init, Ledger!Init, EntriesOf
<1>2. Init => FreshSnapshot
  BY DEF Init, FreshSnapshot
<1> QED
  BY <1>1, <1>2, FreshStep, LedgerStep, TypeCorrect, QueuedOpen, PTL
     DEF Spec, ImplementsLedger, Ledger!Spec

\* One worker is one way to keep them from overlapping.
COROLLARY OneWorkerIsSerial ==
    ASSUME NEW v, Workers = {v}
    PROVE  Spec => []SucceededHasNoError /\ []OpenRunsAreOwed /\ ImplementsLedger
<1>1. OneExecuting
  BY DEF OneExecuting
<1> QED
  BY <1>1, SerialErrors, SerialOpenRuns, SerialRefinement, PTL

=============================================================================
