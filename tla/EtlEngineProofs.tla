--------------------------- MODULE EtlEngineProofs ---------------------------
(***************************************************************************)
(* Theorems about EtlEngine, for any source, any verdicts of the           *)
(* transformer and any batch size: the counters of a run add up, and the   *)
(* engine keeps the promise stated in PrefixLoad.                          *)
(***************************************************************************)
EXTENDS EtlEngine, TLAPS, FiniteSetTheorems

\* The records the engine has dealt with: all it pulled but the one in hand.
Pulled == IF pc = "transform" THEN read - 1 ELSE read

\* While the engine runs, the valid records up to some point are delivered,
\* once each, and the batch holds the valid ones from there on.
Frontier(f) ==
    /\ f \in 0 .. N
    /\ f <= Pulled
    /\ dest = Promise!Upto(f)
    /\ batch = {p \in Valid : f < p /\ p <= Pulled}

FrontierInv ==
    /\ outcome = "none" <=> pc # "returned"
    /\ outcome = "none" => \E f \in 0 .. N : Frontier(f)
    /\ pc = "start" => read = 0 /\ batch = {}
    /\ pc \in {"finalLoad", "finalWrite"} => read = N

-----------------------------------------------------------------------------
LEMMA InitTypeOK == Init => TypeOK
<1> SUFFICES ASSUME Init PROVE TypeOK
  OBVIOUS
<1>1. read \in 0 .. N /\ dest \in [1 .. N -> Nat]
  BY SizesAssumption DEF Init
<1> QED
  BY <1>1 DEF Init, TypeOK

\* The batch is a finite set.
LEMMA BatchFinite ==
    ASSUME TypeOK
    PROVE  IsFiniteSet(batch) /\ Cardinality(batch) \in Nat
<1>1. batch \subseteq 1 .. N /\ IsFiniteSet(1 .. N)
  BY FS_Interval, SizesAssumption DEF TypeOK
<1> QED
  BY <1>1, FS_Subset, FS_CardinalityType

LEMMA NextTypeOK == TypeOK /\ [Next]_vars => TypeOK'
<1> SUFFICES ASSUME TypeOK, [Next]_vars
             PROVE  TypeOK'
  OBVIOUS
<1> USE SizesAssumption DEF TypeOK, Return, counters
<1>0. Cardinality(batch) \in Nat
  BY BatchFinite
<1>1. CASE Cancel
  BY <1>1 DEF Cancel
<1>2. CASE Begin
  BY <1>2 DEF Begin
<1>3. CASE ExtractRecord
  BY <1>3 DEF ExtractRecord
<1>4. CASE ExtractThrows \/ EndOfSource \/ TransformThrows
  BY <1>4 DEF ExtractThrows, EndOfSource, TransformThrows
<1>5. CASE TransformValid
  <2>1. read \in 1 .. N
    BY <1>5 DEF TransformValid, Kinds
  <2> QED
    BY <1>5, <2>1 DEF TransformValid
<1>6. CASE TransformInvalid
  BY <1>6 DEF TransformInvalid
<1>7. CASE BeginLoad
  BY <1>7 DEF BeginLoad, Writing, Loading
<1>8. Committed \in [1 .. N -> Nat]
  BY DEF Committed
<1>9. CASE LoadBatch
  BY <1>9, <1>8, <1>0 DEF LoadBatch
<1>10. CASE LoadFinalBatch
  BY <1>10, <1>8, <1>0 DEF LoadFinalBatch
<1>11. CASE LoadThrows
  BY <1>11, <1>8 DEF LoadThrows
<1>12. CASE UNCHANGED vars
  BY <1>12 DEF vars
<1> QED
  BY <1>1, <1>2, <1>3, <1>4, <1>5, <1>6, <1>7, <1>9, <1>10, <1>11, <1>12 DEF Next

\* The counters are numbers, and the batch holds positions of the source.
THEOREM EngineTypes == Spec => []TypeOK
BY InitTypeOK, NextTypeOK, PTL DEF Spec

-----------------------------------------------------------------------------
(* The promise *)

\* Committing the batch moves the frontier to the record pulled last.
LEMMA CommitAdvances ==
    ASSUME TypeOK, NEW f \in 0 .. N, Frontier(f), pc # "transform"
    PROVE  /\ Committed = Promise!Upto(read)
           /\ \A p \in 1 .. N : dest[p] <= Committed[p]
<1>1. Pulled = read
  BY DEF Pulled
<1>2. ASSUME NEW p \in 1 .. N
      PROVE  /\ Committed[p] = (IF p \in Valid /\ p <= read THEN 1 ELSE 0)
             /\ dest[p] <= Committed[p]
  <2>1. dest[p] = (IF p \in Valid /\ p <= f THEN 1 ELSE 0)
    BY <1>2 DEF Frontier, Promise!Upto
  <2>2. p \in batch <=> p \in Valid /\ f < p /\ p <= read
    BY <1>1 DEF Frontier
  <2>3. Committed[p] = (IF p \in batch THEN dest[p] + 1 ELSE dest[p])
    BY <1>2 DEF Committed
  <2>4. f <= read /\ p \in Nat /\ f \in Nat /\ read \in Nat
    BY <1>1, <1>2, SizesAssumption DEF Frontier, TypeOK
  <2> QED
    BY <2>1, <2>2, <2>3, <2>4
<1> QED
  BY <1>2 DEF Committed, Promise!Upto

\* An empty batch at the end of the source: everything valid is delivered.
LEMMA EmptyAtEnd ==
    ASSUME TypeOK, NEW f \in 0 .. N, Frontier(f), pc = "extract", read = N, batch = {}
    PROVE  dest = Promise!Upto(N)
<1>1. \A p \in 1 .. N : p \in Valid => ~ (f < p)
  BY SizesAssumption DEF Frontier, Pulled, Valid
<1>2. \A p \in 1 .. N : (p \in Valid /\ p <= f) <=> (p \in Valid /\ p <= N)
  BY <1>1, SizesAssumption
<1> QED
  BY <1>2 DEF Frontier, Promise!Upto

\* The frontier is inductive: records enter the batch in source order, and
\* the batch leaves as a whole.
LEMMA FrontierStep == TypeOK /\ FrontierInv /\ [Next]_vars => FrontierInv'
<1> SUFFICES ASSUME TypeOK, FrontierInv, [Next]_vars
             PROVE  FrontierInv'
  OBVIOUS
<1>0. Valid' = Valid
  BY DEF Next, vars, Valid, Cancel, Begin, ExtractRecord, ExtractThrows, EndOfSource,
         TransformValid, TransformInvalid, TransformThrows, BeginLoad, LoadBatch,
         LoadFinalBatch, LoadThrows
<1>1. ASSUME NEW f \in 0 .. N, Frontier(f),
             dest' = dest, batch' = batch, Pulled' = Pulled
      PROVE  Frontier(f)'
  BY <1>0, <1>1 DEF Frontier, Promise!Upto
<1>2. ASSUME Return("failure") \/ Return("success") \/ Return("threw")
      PROVE  FrontierInv'
  BY <1>2 DEF Return, FrontierInv
<1>3. CASE Cancel \/ UNCHANGED vars
  <2>1. UNCHANGED <<pc, read, batch, dest, outcome>>
    BY <1>3 DEF Cancel, vars, counters
  <2> QED
    BY <2>1, <1>1 DEF FrontierInv, Pulled
<1>4. CASE Begin
  <2>1. CASE pc' = "extract" /\ UNCHANGED outcome
    <3>1. UNCHANGED <<read, batch, dest, outcome>> /\ pc' = "extract" /\ pc = "start"
      BY <1>4, <2>1 DEF Begin, counters
    <3> QED
      BY <3>1, <1>1 DEF FrontierInv, Pulled
  <2> QED
    BY <1>4, <2>1, <1>2 DEF Begin
<1>5. CASE ExtractRecord
  <2>1. /\ pc = "extract" /\ pc' = "transform" /\ read' = read + 1
        /\ UNCHANGED <<batch, dest, outcome>>
    BY <1>5 DEF ExtractRecord
  <2>2. Pulled' = Pulled
    BY <2>1, SizesAssumption DEF Pulled, TypeOK
  <2> QED
    BY <2>1, <2>2, <1>1 DEF FrontierInv
<1>6. CASE ExtractThrows \/ TransformThrows \/ LoadThrows \/ LoadFinalBatch
  BY <1>6, <1>2 DEF ExtractThrows, TransformThrows, LoadThrows, LoadFinalBatch
<1>7. CASE EndOfSource
  <2>1. CASE batch # {} /\ pc' = "finalLoad" /\ UNCHANGED outcome
    <3>1. UNCHANGED <<read, batch, dest, outcome>> /\ pc = "extract" /\ read = N
      BY <1>7, <2>1 DEF EndOfSource, counters
    <3> QED
      BY <3>1, <2>1, <1>1 DEF FrontierInv, Pulled
  <2> QED
    BY <1>7, <2>1, <1>2 DEF EndOfSource
<1>8. ASSUME TransformValid \/ TransformInvalid
      PROVE  /\ pc = "transform" /\ pc' \in {"extract", "load"}
             /\ UNCHANGED <<read, dest, outcome>>
             /\ read \in 1 .. N /\ Pulled = read - 1 /\ Pulled' = read
             /\ batch' = (IF read \in Valid THEN batch \cup {read} ELSE batch)
  <2>1. pc = "transform" /\ pc' \in {"extract", "load"} /\ UNCHANGED <<read, dest, outcome>>
    BY <1>8 DEF TransformValid, TransformInvalid
  <2>2. read \in 1 .. N
    BY <2>1, SizesAssumption DEF TypeOK
  <2>3. batch' = (IF read \in Valid THEN batch \cup {read} ELSE batch)
    BY <1>8, <2>2 DEF TransformValid, TransformInvalid, Valid
  <2> QED
    BY <2>1, <2>2, <2>3 DEF Pulled
<1>9. CASE TransformValid \/ TransformInvalid
  <2>1. PICK f \in 0 .. N : Frontier(f)
    BY <1>8, <1>9 DEF FrontierInv
  <2>2. batch' = {p \in Valid : f < p /\ p <= read}
    <3>1. \A p \in Valid : p <= read <=> p <= read - 1 \/ p = read
      BY <1>8, <1>9, SizesAssumption DEF Valid
    <3>2. f < read
      BY <1>8, <1>9, <2>1, SizesAssumption DEF Frontier
    <3> QED
      BY <1>8, <1>9, <2>1, <3>1, <3>2 DEF Frontier
  <2>3. Frontier(f)'
    <3>1. f <= read
      BY <1>8, <1>9, <2>1, SizesAssumption DEF Frontier
    <3>2. dest' = Promise!Upto(f)'
      BY <1>0, <1>8, <1>9, <2>1 DEF Frontier, Promise!Upto
    <3> QED
      BY <1>0, <1>8, <1>9, <2>1, <2>2, <3>1, <3>2 DEF Frontier
  <2> QED
    BY <1>8, <1>9, <2>3 DEF FrontierInv
<1>10. CASE BeginLoad
  <2>1. /\ UNCHANGED <<read, batch, dest, outcome>>
        /\ pc \in {"load", "finalLoad"}
        /\ pc' = (IF pc = "load" THEN "write" ELSE "finalWrite")
    BY <1>10 DEF BeginLoad, Loading, Writing, counters
  <2> QED
    BY <2>1, <1>1 DEF FrontierInv, Pulled
<1>11. CASE LoadBatch
  <2>1. /\ pc = "write" /\ pc' = "extract" /\ dest' = Committed /\ batch' = {}
        /\ UNCHANGED <<read, outcome>>
    BY <1>11 DEF LoadBatch
  <2>2. PICK f \in 0 .. N : Frontier(f)
    BY <2>1 DEF FrontierInv
  <2>3. dest' = Promise!Upto(read)'
    BY <1>0, <2>1, <2>2, CommitAdvances DEF Promise!Upto
  <2>4. read \in 0 .. N /\ Pulled' = read
    BY <2>1 DEF TypeOK, Pulled
  <2>5. {p \in Valid : read < p /\ p <= read} = {}
    BY SizesAssumption DEF Valid, TypeOK
  <2>6. Frontier(read)'
    BY <1>0, <2>1, <2>3, <2>4, <2>5 DEF Frontier
  <2> QED
    BY <2>1, <2>4, <2>6 DEF FrontierInv
<1> QED
  BY <1>3, <1>4, <1>5, <1>6, <1>7, <1>9, <1>10, <1>11 DEF Next

\* Every step delivers more, reports, or changes nothing the promise is about.
LEMMA PromiseStep ==
    TypeOK /\ FrontierInv /\ [Next]_vars => [Promise!Next]_(Promise!promiseVars)
<1> SUFFICES ASSUME TypeOK, FrontierInv, [Next]_vars
             PROVE  [Promise!Next]_(Promise!promiseVars)
  OBVIOUS
<1> DEFINE Stutter == UNCHANGED <<kind, dest, outcome>>
<1>1. ASSUME Stutter
      PROVE  [Promise!Next]_(Promise!promiseVars)
  BY <1>1 DEF Promise!promiseVars, Valid
<1>2. read \in 0 .. N /\ N \in 0 .. N
  BY SizesAssumption DEF TypeOK
<1>3. ASSUME kind' = kind, outcome = "none", NEW f \in 0 .. N, Frontier(f),
             dest' = dest, outcome' \in {"failure", "threw"}
      PROVE  Promise!Fail
  <2>1. \A p \in 1 .. N : dest[p] <= dest'[p]
    BY <1>3 DEF TypeOK
  <2>2. dest' = Promise!Upto(f)
    BY <1>3 DEF Frontier
  <2> QED
    BY <1>3, <2>1, <2>2 DEF Promise!Fail, Promise!Advance, Valid
<1>4. CASE Cancel \/ UNCHANGED vars
  BY <1>1, <1>4 DEF Cancel, vars
<1>5. CASE Begin
  <2>1. CASE UNCHANGED outcome
    BY <1>1, <1>5, <2>1 DEF Begin
  <2>2. CASE Return("threw")
    <3>1. PICK f \in 0 .. N : Frontier(f)
      BY <1>5 DEF Begin, FrontierInv
    <3> QED
      BY <1>3, <1>5, <2>2, <3>1 DEF Begin, Return, FrontierInv, Promise!Next
  <2> QED
    BY <1>5, <2>1, <2>2 DEF Begin
<1>6. CASE ExtractRecord \/ TransformValid \/ TransformInvalid \/ BeginLoad
  BY <1>1, <1>6 DEF ExtractRecord, TransformValid, TransformInvalid, BeginLoad
<1>7. CASE ExtractThrows \/ TransformThrows
  <2>1. outcome = "none" /\ outcome' = "failure" /\ kind' = kind /\ dest' = dest
    BY <1>7 DEF ExtractThrows, TransformThrows, Return, FrontierInv
  <2>2. PICK f \in 0 .. N : Frontier(f)
    BY <2>1 DEF FrontierInv
  <2> QED
    BY <1>3, <2>1, <2>2 DEF Promise!Next
<1>8. CASE EndOfSource
  <2>1. CASE UNCHANGED outcome
    BY <1>1, <1>8, <2>1 DEF EndOfSource
  <2>2. CASE batch = {} /\ Return("success")
    <3>1. PICK f \in 0 .. N : Frontier(f)
      BY <1>8 DEF EndOfSource, FrontierInv
    <3>2. dest = Promise!Upto(N)
      BY <1>8, <2>2, <3>1, EmptyAtEnd DEF EndOfSource
    <3>3. Promise!Succeed
      BY <1>8, <2>2, <3>2 DEF EndOfSource, Return, Promise!Succeed, Valid, FrontierInv
    <3> QED
      BY <3>3 DEF Promise!Next
  <2> QED
    BY <1>8, <2>1, <2>2 DEF EndOfSource
<1>9. CASE LoadBatch
  <2>1. /\ pc = "write" /\ outcome = "none" /\ outcome' = outcome
        /\ kind' = kind /\ dest' = Committed
    BY <1>9 DEF LoadBatch, FrontierInv
  <2>2. PICK f \in 0 .. N : Frontier(f)
    BY <2>1 DEF FrontierInv
  <2>3. /\ dest' = Promise!Upto(read)
        /\ \A p \in 1 .. N : dest[p] <= dest'[p]
    BY <2>1, <2>2, CommitAdvances
  <2> QED
    BY <1>2, <2>1, <2>3 DEF Promise!Next, Promise!Deliver, Promise!Advance, Valid
<1>10. CASE LoadFinalBatch
  <2>1. /\ pc = "finalWrite" /\ outcome = "none" /\ outcome' = "success"
        /\ kind' = kind /\ dest' = Committed /\ read = N
    BY <1>10 DEF LoadFinalBatch, Return, FrontierInv
  <2>2. PICK f \in 0 .. N : Frontier(f)
    BY <2>1 DEF FrontierInv
  <2>3. dest' = Promise!Upto(N)
    BY <2>1, <2>2, CommitAdvances
  <2> QED
    BY <2>1, <2>3 DEF Promise!Next, Promise!Succeed, Valid
<1>11. CASE LoadThrows
  <2>1. /\ pc \in {"load", "finalLoad", "write", "finalWrite"} /\ outcome = "none"
        /\ outcome' = "failure" /\ kind' = kind /\ dest' \in {dest, Committed}
    BY <1>11 DEF LoadThrows, Loading, Return, FrontierInv
  <2>2. PICK f \in 0 .. N : Frontier(f)
    BY <2>1 DEF FrontierInv
  <2>3. CASE dest' = dest
    BY <1>3, <2>1, <2>2, <2>3 DEF Promise!Next
  <2>4. CASE dest' = Committed
    <3>1. /\ dest' = Promise!Upto(read)
          /\ \A p \in 1 .. N : dest[p] <= dest'[p]
      BY <2>1, <2>2, <2>4, CommitAdvances
    <3> QED
      BY <1>2, <2>1, <3>1 DEF Promise!Next, Promise!Fail, Promise!Advance, Valid
  <2> QED
    BY <2>1, <2>3, <2>4
<1> QED
  BY <1>4, <1>5, <1>6, <1>7, <1>8, <1>9, <1>10, <1>11 DEF Next

LEMMA InitFrontier == Init => FrontierInv /\ Promise!Init
<1> SUFFICES ASSUME Init PROVE FrontierInv /\ Promise!Init
  OBVIOUS
<1>1. 0 \in 0 .. N
  BY SizesAssumption
<1>2. dest = Promise!Upto(0)
  BY DEF Init, Promise!Upto
<1>3. {p \in Valid : 0 < p /\ p <= 0} = {}
  BY DEF Valid
<1>4. Frontier(0)
  BY <1>1, <1>2, <1>3 DEF Frontier, Pulled, Init
<1> QED
  BY <1>1, <1>2, <1>4 DEF Init, FrontierInv, Promise!Init, Valid

\* One execution delivers the valid records up to some point, each once and
\* nothing else, and all of them when it reports success.
THEOREM EngineKeepsPromise == Spec => KeepsPromise
<1> QED
  BY InitFrontier, FrontierStep, PromiseStep, EngineTypes, PTL
     DEF Spec, KeepsPromise, Promise!Spec

-----------------------------------------------------------------------------
(* The counters *)

\* A record that enters the batch was not in it.
LEMMA BatchGrows ==
    ASSUME TypeOK, FrontierInv, pc = "transform"
    PROVE  /\ read \notin batch
           /\ IsFiniteSet(batch)
           /\ Cardinality(batch) \in Nat
           /\ Cardinality(batch \cup {read}) = Cardinality(batch) + 1
<1>1. PICK f \in 0 .. N : Frontier(f)
  BY DEF FrontierInv
<1>2. read \notin batch
  BY <1>1, SizesAssumption DEF Frontier, Pulled, TypeOK
<1>3. IsFiniteSet(batch)
  BY BatchFinite
<1> QED
  BY <1>2, <1>3, FS_AddElement, FS_CardinalityType

\* The counters add up at every step.
LEMMA CountersStep ==
    TypeOK /\ FrontierInv /\ CountersAddUp /\ [Next]_vars => CountersAddUp'
<1> SUFFICES ASSUME TypeOK, FrontierInv, CountersAddUp, [Next]_vars
             PROVE  CountersAddUp'
  OBVIOUS
<1>0. /\ IsFiniteSet(batch) /\ Cardinality(batch) \in Nat
      /\ Cardinality({}) = 0
  BY BatchFinite, FS_EmptySet
<1> USE DEF CountersAddUp, TypeOK, Return, counters, FrontierInv
<1>1. CASE Cancel \/ UNCHANGED vars
  BY <1>1 DEF Cancel, vars
<1>2. CASE Begin
  BY <1>2 DEF Begin
<1>3. CASE ExtractRecord
  BY <1>3 DEF ExtractRecord
<1>4. CASE ExtractThrows \/ TransformThrows
  BY <1>4 DEF ExtractThrows, TransformThrows
<1>5. CASE EndOfSource
  BY <1>0, <1>5 DEF EndOfSource
<1>6. CASE TransformValid
  BY <1>6, BatchGrows DEF TransformValid
<1>7. CASE TransformInvalid
  BY <1>7 DEF TransformInvalid
<1>8. CASE BeginLoad
  BY <1>8 DEF BeginLoad, Loading, Writing
<1>9. CASE LoadBatch
  BY <1>0, <1>9 DEF LoadBatch
<1>10. CASE LoadFinalBatch
  <2>1. /\ pc = "finalWrite" /\ outcome = "none" /\ outcome' = "success"
        /\ pc' = "returned"
        /\ loaded' = loaded + Cardinality(batch)
        /\ UNCHANGED <<read, transformed, failed, batch>>
    BY <1>10 DEF LoadFinalBatch
  <2>2. read \in Nat /\ transformed \in Nat /\ loaded \in Nat /\ failed \in Nat
    BY SizesAssumption
  <2>3. /\ read - (transformed + failed) = 0
        /\ transformed - loaded = Cardinality(batch)
    BY <2>1, <2>2
  <2> QED
    BY <1>0, <2>1, <2>2, <2>3
<1>11. CASE LoadThrows
  BY <1>11 DEF LoadThrows, Loading
<1> QED
  BY <1>1, <1>2, <1>3, <1>4, <1>5, <1>6, <1>7, <1>8, <1>9, <1>10, <1>11 DEF Next

\* The counters written to the history add up at every moment of a run.
THEOREM EngineCounters == Spec => []CountersAddUp
<1>1. Init => CountersAddUp
  BY FS_EmptySet DEF Init, CountersAddUp
<1> QED
  BY <1>1, InitFrontier, FrontierStep, CountersStep, EngineTypes, PTL DEF Spec

-----------------------------------------------------------------------------
(* What RecordsLoaded says of the destination *)

Delivered == {p \in 1 .. N : dest[p] > 0}

\* While the engine runs nothing is delivered that is not counted, and the
\* batch is handed over as soon as it is full.  Only a load that throws after
\* the commit leaves the batch delivered and uncounted.
LoadedInv ==
    /\ outcome = "none" => /\ Cardinality(Delivered) = loaded
                           /\ Cardinality(batch) <= batchSize
    /\ pc \in {"start", "extract", "transform"} => Cardinality(batch) < batchSize
    /\ LoadedIsDelivered

LEMMA BatchSizePositive == batchSize \in Nat \ {0}
BY SizesAssumption DEF batchSize

\* A commit delivers as many records as the batch holds: none of them is in
\* the destination yet.
LEMMA CommitCounts ==
    ASSUME TypeOK, FrontierInv, outcome = "none", pc # "transform", dest' = Committed
    PROVE  Cardinality(Delivered') = Cardinality(Delivered) + Cardinality(batch)
<1>1. PICK f \in 0 .. N : Frontier(f)
  BY DEF FrontierInv
<1>2. batch \subseteq 1 .. N /\ f \in Nat /\ dest \in [1 .. N -> Nat]
  BY DEF TypeOK
<1>3. \A p \in 1 .. N : dest[p] > 0 <=> p \in Valid /\ p <= f
  BY <1>1 DEF Frontier, Promise!Upto
<1>4. Delivered \cap batch = {}
  BY <1>1, <1>2, <1>3 DEF Delivered, Frontier
<1>5. \A p \in 1 .. N : Committed[p] > 0 <=> p \in batch \/ dest[p] > 0
  BY <1>2 DEF Committed
<1>6. Delivered' = Delivered \cup batch
  BY <1>2, <1>5 DEF Delivered
<1>7. IsFiniteSet(Delivered) /\ Cardinality(Delivered) \in Nat
  <2>1. Delivered \subseteq 1 .. N /\ IsFiniteSet(1 .. N)
    BY FS_Interval, SizesAssumption DEF Delivered
  <2> QED
    BY <2>1, FS_Subset, FS_CardinalityType
<1>8. IsFiniteSet(batch) /\ Cardinality(batch) \in Nat
  BY BatchFinite
<1>9. /\ Cardinality(Delivered \cup batch)
           = Cardinality(Delivered) + Cardinality(batch) - Cardinality(Delivered \cap batch)
      /\ Cardinality(Delivered \cap batch) = 0
  BY <1>4, <1>7, <1>8, FS_Union, FS_EmptySet
<1> QED
  BY <1>6, <1>7, <1>8, <1>9

LEMMA LoadedStep ==
    TypeOK /\ FrontierInv /\ LoadedInv /\ [Next]_vars => LoadedInv'
<1> SUFFICES ASSUME TypeOK, FrontierInv, LoadedInv, [Next]_vars
             PROVE  LoadedInv'
  OBVIOUS
<1>0. /\ IsFiniteSet(batch) /\ Cardinality(batch) \in Nat
      /\ Cardinality({}) = 0 /\ batchSize \in Nat \ {0}
      /\ batchSize' = batchSize
  BY BatchFinite, BatchSizePositive, FS_EmptySet DEF batchSize
<1>a. ASSUME Delivered' = Delivered, batch' = batch, loaded' = loaded,
             pc' \notin {"start", "extract", "transform"} \/ pc \in {"start", "extract", "transform"},
             outcome' = outcome \/ outcome = "none"
      PROVE  LoadedInv'
  BY <1>0, <1>a DEF LoadedInv, LoadedIsDelivered, Delivered
<1>b. ASSUME dest' = dest
      PROVE  Delivered' = Delivered
  BY <1>b DEF Delivered
<1> USE DEF Return, counters, FrontierInv
<1>1. CASE Cancel \/ UNCHANGED vars
  BY <1>1, <1>a, <1>b DEF Cancel, vars
<1>2. CASE Begin
  BY <1>2, <1>a, <1>b DEF Begin
<1>3. CASE ExtractRecord
  BY <1>3, <1>a, <1>b DEF ExtractRecord
<1>4. CASE ExtractThrows \/ TransformThrows
  BY <1>4, <1>a, <1>b DEF ExtractThrows, TransformThrows
<1>5. CASE EndOfSource
  BY <1>5, <1>a, <1>b DEF EndOfSource
<1>6. CASE TransformValid
  <2>1. Cardinality(batch') = Cardinality(batch) + 1
    BY <1>6, BatchGrows DEF TransformValid
  <2>2. /\ pc = "transform" /\ UNCHANGED <<loaded, dest, outcome>>
        /\ pc' = (IF Cardinality(batch') >= batchSize THEN "load" ELSE "extract")
    BY <1>6 DEF TransformValid
  <2>3. Cardinality(Delivered) = loaded /\ Cardinality(batch) < batchSize
    BY <2>2 DEF LoadedInv
  <2> QED
    BY <1>0, <1>b, <2>1, <2>2, <2>3 DEF LoadedInv, LoadedIsDelivered, Delivered
<1>7. CASE TransformInvalid
  BY <1>7, <1>a, <1>b DEF TransformInvalid
<1>8. CASE BeginLoad
  BY <1>8, <1>a, <1>b DEF BeginLoad, Loading, Writing
<1>9. CASE LoadBatch
  <2>1. /\ pc = "write" /\ dest' = Committed /\ batch' = {} /\ outcome = "none"
        /\ loaded' = loaded + Cardinality(batch) /\ UNCHANGED outcome
    BY <1>9 DEF LoadBatch
  <2>2. Cardinality(Delivered') = loaded'
    BY <2>1, CommitCounts DEF LoadedInv
  <2> QED
    BY <1>0, <2>1, <2>2 DEF LoadedInv, LoadedIsDelivered, Delivered
<1>10. CASE LoadFinalBatch
  <2>1. /\ pc = "finalWrite" /\ dest' = Committed /\ outcome = "none"
        /\ loaded' = loaded + Cardinality(batch)
        /\ outcome' = "success" /\ pc' = "returned"
    BY <1>10 DEF LoadFinalBatch
  <2>2. Cardinality(Delivered') = loaded'
    BY <2>1, CommitCounts DEF LoadedInv
  <2> QED
    BY <2>1, <2>2 DEF LoadedInv, LoadedIsDelivered, Delivered
<1>11. CASE LoadThrows
  <2>1. /\ pc \in {"load", "finalLoad", "write", "finalWrite"} /\ outcome = "none"
        /\ outcome' = "failure" /\ pc' = "returned"
        /\ UNCHANGED <<loaded, batch>> /\ dest' \in {dest, Committed}
    BY <1>11 DEF LoadThrows, Loading
  <2>2. CASE dest' = dest
    BY <1>a, <1>b, <2>1, <2>2
  <2>3. CASE dest' = Committed
    <3>1. /\ Cardinality(Delivered') = loaded' + Cardinality(batch')
          /\ Cardinality(batch') <= batchSize'
      BY <1>0, <2>1, <2>3, CommitCounts DEF LoadedInv
    <3> QED
      BY <2>1, <3>1 DEF LoadedInv, LoadedIsDelivered, Delivered
  <2> QED
    BY <2>1, <2>2, <2>3
<1> QED
  BY <1>1, <1>2, <1>3, <1>4, <1>5, <1>6, <1>7, <1>8, <1>9, <1>10, <1>11 DEF Next

LEMMA InitLoaded == Init => LoadedInv
<1> SUFFICES ASSUME Init PROVE LoadedInv
  OBVIOUS
<1>1. Delivered = {}
  BY DEF Init, Delivered
<1>2. Cardinality(Delivered) = 0 /\ Cardinality(batch) = 0
  BY <1>1, FS_EmptySet DEF Init
<1> QED
  BY <1>2, BatchSizePositive DEF Init, LoadedInv, LoadedIsDelivered, Delivered

\* RecordsLoaded is the number of records in the destination, whatever the
\* source, the batch size and the moment something throws; only a load that
\* fails in the middle of its commit leaves more, and never more than a batch.
THEOREM EngineLoadedIsDelivered == Spec => []LoadedIsDelivered
<1>1. LoadedInv => LoadedIsDelivered
  BY DEF LoadedInv
<1> QED
  BY <1>1, InitLoaded, InitFrontier, FrontierStep, LoadedStep, EngineTypes, PTL DEF Spec

=============================================================================
