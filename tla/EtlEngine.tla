------------------------------ MODULE EtlEngine ------------------------------
(***************************************************************************)
(* EtlEngine.ExecuteAsync: one execution of a job over a source of N       *)
(* records.  Records are pulled one at a time, transformed, gathered in a  *)
(* batch and handed to the loader when the batch is full and once more at  *)
(* the end.  An exception anywhere in the loop ends the execution with a   *)
(* failure; what was committed before stays in the destination.            *)
(*                                                                         *)
(* Records are their positions in the source.  What TransformAsync makes   *)
(* of each is chosen at the start: a valid record, an invalid one          *)
(* (a required field is missing) or an exception (a custom expression).    *)
(* The loader is modelled by the outcomes of LoadAsync, which writes a     *)
(* batch in one transaction.                                               *)
(***************************************************************************)
EXTENDS Naturals, FiniteSets

CONSTANTS
    N,                   \* number of source records
    RequestBatchSize,    \* EtlExecutionRequest.BatchSize
    DefaultBatchSize     \* used when that is not positive

ASSUME SizesAssumption ==
    /\ N \in Nat
    /\ RequestBatchSize \in Nat
    /\ DefaultBatchSize \in Nat \ {0}

VARIABLES
    kind,        \* kind[p]: what the transformer does with record p
    pc,          \* where the engine is
    read,        \* RecordsRead: also the position pulled last
    transformed, \* RecordsTransformed
    loaded,      \* RecordsLoaded
    failed,      \* RecordsFailed
    batch,       \* positions of the records in the batch
    dest,        \* dest[p]: how often record p was committed
    outcome,     \* "none" while running, then what the worker gets
    cancelled    \* the cancellation token

counters == <<read, transformed, loaded, failed>>
vars == <<kind, pc, counters, batch, dest, outcome, cancelled>>

batchSize == IF RequestBatchSize > 0 THEN RequestBatchSize ELSE DefaultBatchSize

Kinds == {"valid", "invalid", "throws"}
Valid == {p \in 1 .. N : kind[p] = "valid"}

Init ==
    /\ kind \in [1 .. N -> Kinds]
    /\ pc = "start"
    /\ read = 0 /\ transformed = 0 /\ loaded = 0 /\ failed = 0
    /\ batch = {}
    /\ dest = [p \in 1 .. N |-> 0]
    /\ outcome = "none"
    /\ cancelled = FALSE

Return(result) == /\ outcome' = result
                  /\ pc' = "returned"

-----------------------------------------------------------------------------

\* Hangfire cancels the token at any time.
Cancel ==
    /\ ~ cancelled
    /\ pc # "returned"
    /\ cancelled' = TRUE
    /\ UNCHANGED <<kind, pc, counters, batch, dest, outcome>>

\* An extractor and a loader are looked up; the exception for a type without
\* one is thrown outside the try block.
Begin ==
    /\ pc = "start"
    /\ \/ pc' = "extract" /\ UNCHANGED outcome
       \/ Return("threw")
    /\ UNCHANGED <<kind, counters, batch, dest, cancelled>>

\* Mutant: the end of the source is noticed one record late.
ExtractPastEnd ==
    /\ pc = "extract"
    /\ ~ cancelled
    /\ read' = read + 1
    /\ pc' = "transform"
    /\ UNCHANGED <<kind, transformed, loaded, failed, batch, dest, outcome, cancelled>>

\* The extractor yields the next record and the token is not cancelled.
ExtractRecord ==
    /\ pc = "extract"
    /\ read < N
    /\ ~ cancelled
    /\ read' = read + 1
    /\ pc' = "transform"
    /\ UNCHANGED <<kind, transformed, loaded, failed, batch, dest, outcome, cancelled>>

\* The source cannot be opened or read, or the token is cancelled.
ExtractThrows ==
    /\ pc = "extract"
    /\ Return("failure")
    /\ UNCHANGED <<kind, counters, batch, dest, cancelled>>

\* The source is exhausted.  The token is not looked at here.
EndOfSource ==
    /\ pc = "extract"
    /\ read = N
    /\ \/ batch # {} /\ pc' = "finalLoad" /\ UNCHANGED outcome
       \/ batch = {} /\ Return("success")
    /\ UNCHANGED <<kind, counters, batch, dest, cancelled>>

\* Mutant: the IsValid check is gone.
TransformKeepsInvalid ==
    /\ pc = "transform"
    /\ kind[read] \in {"valid", "invalid"}
    /\ transformed' = transformed + 1
    /\ batch' = batch \cup {read}
    /\ pc' = IF Cardinality(batch') >= batchSize THEN "load" ELSE "extract"
    /\ UNCHANGED <<kind, read, loaded, failed, dest, outcome, cancelled>>

TransformValid ==
    /\ pc = "transform"
    /\ kind[read] = "valid"
    /\ transformed' = transformed + 1
    /\ batch' = batch \cup {read}
    /\ pc' = IF Cardinality(batch') >= batchSize THEN "load" ELSE "extract"
    /\ UNCHANGED <<kind, read, loaded, failed, dest, outcome, cancelled>>

\* Mutant: an invalid record is skipped before it is counted.
TransformInvalidUncounted ==
    /\ pc = "transform"
    /\ kind[read] = "invalid"
    /\ pc' = "extract"
    /\ UNCHANGED <<kind, counters, batch, dest, outcome, cancelled>>

TransformInvalid ==
    /\ pc = "transform"
    /\ kind[read] = "invalid"
    /\ failed' = failed + 1
    /\ pc' = "extract"
    /\ UNCHANGED <<kind, read, transformed, loaded, batch, dest, outcome, cancelled>>

\* An expression throws, or the evaluator notices the cancelled token.
TransformThrows ==
    /\ pc = "transform"
    /\ kind[read] = "throws" \/ cancelled
    /\ Return("failure")
    /\ UNCHANGED <<kind, counters, batch, dest, cancelled>>

-----------------------------------------------------------------------------
(* IDataLoader.LoadAsync, called from the loop ("load") and after it        *)
(* ("finalLoad"): connect and begin, then write and commit.                 *)

Loading == {"load", "finalLoad"}
Writing(at) == IF at = "load" THEN "write" ELSE "finalWrite"

\* The connection is opened unless the token is already cancelled.
BeginLoad ==
    /\ pc \in Loading
    /\ ~ cancelled
    /\ pc' = Writing(pc)
    /\ UNCHANGED <<kind, counters, batch, dest, outcome, cancelled>>

Committed == [p \in 1 .. N |-> IF p \in batch THEN dest[p] + 1 ELSE dest[p]]

\* Mutant: the batch is not cleared.
LoadKeepsBatch ==
    /\ pc = "write"
    /\ dest' = Committed
    /\ loaded' = loaded + Cardinality(batch)
    /\ pc' = "extract"
    /\ UNCHANGED <<kind, read, transformed, failed, batch, outcome, cancelled>>

\* The batch was committed, is counted and cleared.
LoadBatch ==
    /\ pc = "write"
    /\ dest' = Committed
    /\ loaded' = loaded + Cardinality(batch)
    /\ batch' = {}
    /\ pc' = "extract"
    /\ UNCHANGED <<kind, read, transformed, failed, outcome, cancelled>>

\* The last batch is not cleared; nothing reads it again.
LoadFinalBatch ==
    /\ pc = "finalWrite"
    /\ dest' = Committed
    /\ loaded' = loaded + Cardinality(batch)
    /\ Return("success")
    /\ UNCHANGED <<kind, read, transformed, failed, batch, cancelled>>

\* The load throws before the commit, or while it waits for its answer: then
\* the batch may be in the destination but is not counted.
LoadThrows ==
    /\ \/ pc \in Loading /\ UNCHANGED dest
       \/ pc \in {"write", "finalWrite"} /\ dest' \in {dest, Committed}
    /\ Return("failure")
    /\ UNCHANGED <<kind, counters, batch, cancelled>>

Next ==
    \/ Cancel \/ Begin
    \/ ExtractRecord \/ ExtractThrows \/ EndOfSource
    \/ TransformValid \/ TransformInvalid \/ TransformThrows
    \/ BeginLoad \/ LoadBatch \/ LoadFinalBatch \/ LoadThrows

Spec == Init /\ [][Next]_vars

-----------------------------------------------------------------------------
(* Properties *)

\* Types; a record is in hand only when one was pulled.
TypeOK ==
    /\ kind \in [1 .. N -> Kinds]
    /\ pc \in {"start", "extract", "transform", "load", "write",
               "finalLoad", "finalWrite", "returned"}
    /\ read \in 0 .. N
    /\ pc = "transform" => read > 0
    /\ transformed \in Nat /\ loaded \in Nat /\ failed \in Nat
    /\ batch \subseteq 1 .. N
    /\ dest \in [1 .. N -> Nat]
    /\ outcome \in {"none", "success", "failure", "threw"}
    /\ cancelled \in BOOLEAN

Promise == INSTANCE PrefixLoad WITH good <- Valid, delivered <- dest

\* Whatever the batch boundaries, the records that are dropped and the point
\* at which something throws or the token is cancelled: the destination holds
\* the valid records up to some point, once each, and all of them on success.
KeepsPromise == Promise!Spec

\* The counters written to the history add up: every record read is counted
\* as transformed or failed, except the one in hand, and every record
\* transformed is loaded or still in the batch.
CountersAddUp ==
    /\ read - (transformed + failed)
           \in (IF pc = "transform" THEN {1} ELSE IF outcome = "failure" THEN {0, 1} ELSE {0})
    /\ transformed - loaded
           = (IF outcome = "success" THEN 0 ELSE Cardinality(batch))

\* RecordsLoaded is what the destination got, or, after a failure in the
\* middle of a commit, falls short of it by at most the one batch.
LoadedIsDelivered ==
    LET delivered == Cardinality({p \in 1 .. N : dest[p] > 0})
    IN  \/ delivered = loaded
        \/ /\ outcome = "failure"
           /\ delivered = loaded + Cardinality(batch)
           /\ Cardinality(batch) <= batchSize

=============================================================================
