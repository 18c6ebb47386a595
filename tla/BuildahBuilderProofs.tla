------------------------ MODULE BuildahBuilderProofs ------------------------
(***************************************************************************)
(* Proofs about BuildahBuilder for every set of images, tree, exclusion,   *)
(* worker count and number of attempts.  BuildInv is inductive; the safety *)
(* properties of the runs follow from it, and it carries the refinement of *)
(* OrderedBuild.                                                           *)
(***************************************************************************)
EXTENDS BuildahBuilder, BuildahDepsProofs, FiniteSetTheorems, WellFoundedInduction

Active == {"pending", "building", "pushing"}

(***************************************************************************)
(* Facts about batches                                                     *)
(***************************************************************************)
LEMMA OneBatch ==
    ASSUME DepsInv, NEW m, NEW a, NEW b, InBatch(m, a), InBatch(m, b)
    PROVE  a = b
  BY DEF DepsInv, PlacedOnce, InBatch

LEMMA CurrentIsBatch ==
    ASSUME TypeOK
    PROVE  /\ batch \in Nat /\ Len(containers) \in Nat /\ batch <= Len(containers)
           /\ \A m : m \in Current <=> batch > 0 /\ InBatch(m, batch)
           /\ Current \subseteq Images
<1>1. /\ containers \in Seq(Seq(Images)) /\ Len(containers) \in Nat
      /\ batch \in Nat /\ batch <= Len(containers)
  BY DEF TypeOK, DepsTypeOK
<1>2. \A m : m \in Current <=> batch > 0 /\ InBatch(m, batch)
  BY <1>1 DEF Current, InBatch
<1>3. batch > 0 => Elements(containers[batch]) \subseteq Images
  BY <1>1, ElementsInType
<1> QED BY <1>1, <1>2, <1>3 DEF InBatch

\* a job that is queued or running belongs to the batch being built, and
\* the main thread is waiting for it
LEMMA ActiveInCurrent ==
    ASSUME BuildInv, NEW m \in Images, job[m] \in Active
    PROVE  /\ m \in Current /\ batch > 0 /\ InBatch(m, batch)
           /\ pc \notin {"loop", "end"} /\ outcome = "none" /\ stack = <<>>
           /\ \A b \in 1..(batch - 1) : ~InBatch(m, b)
           /\ m \notin Over /\ (m \notin done \/ pc = "wait")
<1>1. PICK b \in 1..batch : InBatch(m, b)
  BY DEF BuildInv, BatchInv, Active
<1>2. TypeOK /\ batch \in Nat
  BY CurrentIsBatch DEF BuildInv
<1>3. \A c \in 1..(batch - 1) : ~InBatch(m, c)
  BY DEF BuildInv, BatchInv, EarlierBatchesFinished, InBatch, Active
<1>4. b = batch /\ batch > 0
  BY <1>1, <1>2, <1>3
<1>5. m \in Current
  BY <1>1, <1>2, <1>4, CurrentIsBatch
<1>6. m \notin Over
  BY DEF Active, Over
<1>7. pc # "loop" /\ pc # "end"
  BY <1>5, <1>6 DEF BuildInv, BatchInv, Active
<1>8. outcome = "none"
  BY <1>7 DEF BuildInv, MainInv
<1>9. stack = <<>>
  BY <1>7 DEF BuildInv, BatchInv
<1>10. pc \in {"wait", "woken", "shutdown"}
  BY <1>7 DEF BuildInv, TypeOK
<1>11. m \notin done \/ pc = "wait"
  BY <1>6, <1>10 DEF BuildInv, MainInv
<1> QED BY <1>1, <1>3, <1>4, <1>5, <1>6, <1>7, <1>8, <1>9, <1>11

(***************************************************************************)
(* The invariant at the start                                              *)
(***************************************************************************)
LEMMA InitInv == Init => BuildInv
<1> SUFFICES ASSUME Init PROVE BuildInv
  OBVIOUS
<1>1. DepsInv
  BY DepsInitInv DEF Init
<1>2. TypeOK
  <2>1. DepsTypeOK /\ 0 \in 0..Len(containers)
    BY <1>1 DEF DepsInv, DepsTypeOK
  <2> QED BY <2>1, InputsAssumption DEF Init, TypeOK, JobStates
<1>3. BatchInv
  BY DEF Init, BatchInv, EarlierBatchesFinished, Current
<1>4. MainInv
  BY DEF Init, MainInv, WhyItFailed
<1>5. JobInv
  BY DEF Init, JobInv
<1> QED BY <1>1, <1>2, <1>3, <1>4, <1>5 DEF BuildInv

(***************************************************************************)
(* The main thread                                                         *)
(***************************************************************************)
LEMMA GenerateDepsInv == BuildInv /\ GenerateDeps => BuildInv'
<1> SUFFICES ASSUME BuildInv, GenerateDeps PROVE BuildInv'
  OBVIOUS
<1>1. stack # <<>> /\ batch = 0 /\ pc = "loop" /\ outcome = "none"
  BY DEF BuildInv, GenerateDeps, DepsNext, DictItem, Return, BatchInv, MainInv
<1>2. UNCHANGED <<excludes, cont_map, push_containers, pc, batch, done, timedOut, outcome>>
  BY DEF GenerateDeps, buildVars, inputs, mainVars
<1>3. UNCHANGED <<job, attempts, built, pushed>>
  BY DEF GenerateDeps, buildVars, jobVars
<1>4. DepsInv'
  BY DepsStepInv DEF BuildInv, GenerateDeps
<1>5. TypeOK'
  <2>1. DepsTypeOK' /\ 0 \in 0..Len(containers')
    BY <1>4 DEF DepsInv, DepsTypeOK
  <2> QED BY <1>1, <1>2, <1>3, <2>1 DEF BuildInv, TypeOK
<1>6. BatchInv'
  <2>1. \A m \in Images : job[m] = "unsubmitted"
    <3>1. \A b : b \notin 1..0
      OBVIOUS
    <3> QED BY <1>1, <3>1 DEF BuildInv, BatchInv
  <2> QED BY <1>1, <1>2, <1>3, <2>1 DEF BatchInv, EarlierBatchesFinished, Current
<1>7. MainInv'
  BY <1>1, <1>2 DEF BuildInv, MainInv, WhyItFailed
<1>8. JobInv'
  BY <1>2, <1>3 DEF BuildInv, JobInv, Available
<1> QED BY <1>4, <1>5, <1>6, <1>7, <1>8 DEF BuildInv

\* a step that leaves the result of _generate_deps alone
LEMMA DepsUnchanged ==
    ASSUME DepsInv, UNCHANGED depsVars
    PROVE  /\ DepsInv' /\ DepsTypeOK'
           /\ deps' = deps /\ containers' = containers /\ stack' = stack
           /\ \A m, b : InBatch(m, b)' <=> InBatch(m, b)
  BY DepsStepInv DEF depsVars, InBatch, DepsInv

\* no job of the next batch was submitted before
LEMMA NextBatchUnsubmitted ==
    ASSUME BuildInv, batch + 1 \in 1..Len(containers)
    PROVE  \A m \in Images : InBatch(m, batch + 1) => job[m] = "unsubmitted"
<1>1. batch \in Nat
  BY CurrentIsBatch DEF BuildInv
<1>2. ASSUME NEW m \in Images, InBatch(m, batch + 1), NEW b \in 1..batch, InBatch(m, b)
      PROVE  FALSE
  <2>1. b = batch + 1
    BY <1>2, OneBatch DEF BuildInv
  <2> QED BY <1>1, <2>1
<1> QED BY <1>2 DEF BuildInv, BatchInv

LEMMA SubmitBatchInv == BuildInv /\ SubmitBatch => BuildInv'
<1> SUFFICES ASSUME BuildInv, SubmitBatch PROVE BuildInv'
  OBVIOUS
<1>1. /\ pc = "loop" /\ stack = <<>> /\ batch < Len(containers) /\ batch' = batch + 1
      /\ pc' = "wait" /\ outcome = "none"
      /\ UNCHANGED <<depsVars, inputs, attempts, built, pushed, outcome>>
  BY DEF BuildInv, SubmitBatch, MainInv
<1>2. UNCHANGED <<excludes, cont_map, push_containers>>
  BY <1>1 DEF inputs
<1>3. /\ DepsInv' /\ DepsTypeOK'
      /\ deps' = deps /\ containers' = containers /\ stack' = stack
      /\ \A m, b : InBatch(m, b)' <=> InBatch(m, b)
  BY <1>1, DepsUnchanged DEF BuildInv
<1>4. batch \in Nat /\ Len(containers) \in Nat /\ batch + 1 \in 1..Len(containers)
  BY <1>1, CurrentIsBatch DEF BuildInv
<1>5. \A m \in Images : job'[m] = IF InBatch(m, batch + 1) THEN "pending" ELSE job[m]
  BY <1>4 DEF SubmitBatch, InBatch
<1>6. \A m \in Images : InBatch(m, batch + 1) => job[m] = "unsubmitted"
  BY <1>4, NextBatchUnsubmitted
<1>7. TypeOK'
  <2>1. job' \in [Images -> JobStates]
    BY DEF BuildInv, TypeOK, SubmitBatch, JobStates
  <2>2. batch' \in 0..Len(containers')
    BY <1>1, <1>3, <1>4
  <2>3. done' \in SUBSET Images /\ timedOut' \in BOOLEAN
    BY DEF SubmitBatch
  <2> QED BY <1>1, <1>2, <1>3, <2>1, <2>2, <2>3 DEF BuildInv, TypeOK
<1>8. BatchInv'
  <2>1. \A m \in Images : job[m] # "unsubmitted" <=> \E b \in 1..batch : InBatch(m, b)
    BY DEF BuildInv, BatchInv
  <2>2. \A m \in Images : job'[m] # "unsubmitted" <=> \E b \in 1..(batch + 1) : InBatch(m, b)
    BY <1>4, <1>5, <2>1
  <2>3. \A b \in 1..batch : \A m \in Elements(containers[b]) : m \in Images /\ job'[m] = "finished"
    <3>1. \A b \in 1..batch : b \in 1..(batch - 1) \/ (b = batch /\ batch > 0)
      BY <1>4
    <3>2. \A b \in 1..batch : \A m \in Elements(containers[b]) : job[m] = "finished"
      BY <1>1, <1>4, <3>1 DEF BuildInv, BatchInv, EarlierBatchesFinished, Current
    <3>3. \A b \in 1..batch : containers[b] \in Seq(Images)
      BY <1>4 DEF BuildInv, TypeOK, DepsTypeOK
    <3>4. \A b \in 1..batch : Elements(containers[b]) \subseteq Images
      BY <3>3, ElementsInType
    <3>5. \A b \in 1..batch : \A m \in Elements(containers[b]) : job'[m] = job[m]
      BY <1>5, <1>6, <3>2, <3>4
    <3> QED BY <3>2, <3>4, <3>5
  <2>4. EarlierBatchesFinished'
    BY <1>1, <1>3, <1>4, <2>3 DEF EarlierBatchesFinished
  <2> QED BY <1>1, <1>3, <2>2, <2>4 DEF BatchInv
<1>9. MainInv'
  BY <1>1, <1>4 DEF MainInv, WhyItFailed
<1>10. JobInv'
  BY <1>1, <1>2, <1>5, <1>6 DEF BuildInv, JobInv, Available
<1> QED BY <1>3, <1>7, <1>8, <1>9, <1>10 DEF BuildInv

\* the steps of the main thread that change no job
LEMMA MainStepFrame ==
    ASSUME BuildInv, UNCHANGED <<depsVars, inputs, jobVars, batch>>,
           done' \in SUBSET Images, timedOut' \in BOOLEAN,
           pc' \in {"loop", "wait", "woken", "shutdown", "end"},
           outcome' \in {"none", "success", "RuntimeError", "SystemError"}
    PROVE  /\ TypeOK' /\ DepsInv' /\ JobInv'
           /\ containers' = containers /\ stack' = stack /\ job' = job /\ batch' = batch
           /\ \A m, b : InBatch(m, b)' <=> InBatch(m, b)
           /\ Current' = Current /\ Over' = Over /\ Raised' = Raised
           /\ EarlierBatchesFinished'
<1>1. /\ DepsInv' /\ DepsTypeOK'
      /\ deps' = deps /\ containers' = containers /\ stack' = stack
      /\ \A m, b : InBatch(m, b)' <=> InBatch(m, b)
  BY DepsUnchanged DEF BuildInv
<1>2. UNCHANGED <<excludes, cont_map, push_containers, job, attempts, built, pushed>>
  BY DEF inputs, jobVars
<1>3. TypeOK'
  BY <1>1, <1>2 DEF BuildInv, TypeOK
<1>4. JobInv'
  BY <1>2 DEF BuildInv, JobInv, Available
<1>5. Current' = Current /\ Over' = Over /\ Raised' = Raised
  BY <1>1, <1>2 DEF Current, Over, Raised
<1>6. EarlierBatchesFinished'
  BY <1>1, <1>2 DEF BuildInv, BatchInv, EarlierBatchesFinished
<1> QED BY <1>1, <1>2, <1>3, <1>4, <1>5, <1>6

LEMMA WaitWakesInv == BuildInv /\ WaitWakes => BuildInv'
<1> SUFFICES ASSUME BuildInv, WaitWakes PROVE BuildInv'
  OBVIOUS
<1>1. /\ pc = "wait" /\ pc' = "woken" /\ outcome' = outcome /\ done' = Current \cap Over
      /\ timedOut' = ~(Current \subseteq Over \/ Current \cap Raised # {})
      /\ UNCHANGED <<depsVars, inputs, jobVars, batch>>
  BY DEF WaitWakes
<1>2. outcome = "none" /\ batch > 0 /\ stack = <<>>
  BY <1>1 DEF BuildInv, MainInv, BatchInv
<1>3. done' \in SUBSET Images /\ timedOut' \in BOOLEAN
  BY <1>1, CurrentIsBatch DEF BuildInv
<1>4. /\ TypeOK' /\ DepsInv' /\ JobInv' /\ EarlierBatchesFinished'
      /\ containers' = containers /\ stack' = stack /\ job' = job /\ batch' = batch
      /\ \A m, b : InBatch(m, b)' <=> InBatch(m, b)
      /\ Current' = Current /\ Over' = Over /\ Raised' = Raised
  BY <1>1, <1>2, <1>3, MainStepFrame
<1>5. BatchInv'
  BY <1>1, <1>2, <1>4 DEF BuildInv, BatchInv
<1>6. MainInv'
  <2>1. done' \subseteq Current' \cap Over'
    BY <1>1, <1>4
  <2>2. Raised \subseteq Over
    BY DEF Raised, Over
  <2>3. timedOut' \/ Current' \subseteq done' \/ done' \cap Raised' # {}
    BY <1>1, <1>4, <2>2
  <2> QED BY <1>1, <1>2, <1>4, <2>1, <2>3 DEF MainInv, WhyItFailed
<1> QED BY <1>4, <1>5, <1>6 DEF BuildInv

LEMMA WaitReturnsInv == BuildInv /\ WaitReturns => BuildInv'
<1> SUFFICES ASSUME BuildInv, WaitReturns PROVE BuildInv'
  OBVIOUS
<1>1. /\ pc = "woken" /\ pc' = "shutdown" /\ outcome' = outcome /\ timedOut' = timedOut
      /\ done \subseteq done' /\ done' \subseteq done \cup (Current \cap Over)
      /\ UNCHANGED <<depsVars, inputs, jobVars, batch>>
  BY DEF WaitReturns
<1>2. outcome = "none" /\ batch > 0 /\ stack = <<>>
  BY <1>1 DEF BuildInv, MainInv, BatchInv
<1>3. done' \subseteq Current \cap Over
  BY <1>1 DEF BuildInv, MainInv
<1>4. done' \in SUBSET Images /\ timedOut' \in BOOLEAN
  BY <1>1, <1>3, CurrentIsBatch DEF BuildInv, TypeOK
<1>5. /\ TypeOK' /\ DepsInv' /\ JobInv' /\ EarlierBatchesFinished'
      /\ containers' = containers /\ stack' = stack /\ job' = job /\ batch' = batch
      /\ \A m, b : InBatch(m, b)' <=> InBatch(m, b)
      /\ Current' = Current /\ Over' = Over /\ Raised' = Raised
  BY <1>1, <1>2, <1>4, MainStepFrame
<1>6. BatchInv'
  BY <1>1, <1>2, <1>5 DEF BuildInv, BatchInv
<1>7. MainInv'
  <2>1. timedOut' \/ Current' \subseteq done' \/ done' \cap Raised' # {}
    BY <1>1, <1>5 DEF BuildInv, MainInv
  <2> QED BY <1>1, <1>2, <1>3, <1>5, <2>1 DEF MainInv, WhyItFailed
<1> QED BY <1>5, <1>6, <1>7 DEF BuildInv

LEMMA CheckJobsInv == BuildInv /\ CheckJobs => BuildInv'
<1> SUFFICES ASSUME BuildInv, CheckJobs PROVE BuildInv'
  OBVIOUS
<1>1. /\ pc = "shutdown" /\ Current \subseteq Over /\ done' = done /\ timedOut' = timedOut
      /\ outcome' = IF done \cap Raised # {} THEN "RuntimeError"
                    ELSE IF Current \ done # {} THEN "SystemError" ELSE outcome
      /\ pc' = IF outcome' = "none" THEN "loop" ELSE "end"
      /\ UNCHANGED <<depsVars, inputs, jobVars, batch>>
  BY DEF CheckJobs
<1>2. /\ outcome = "none" /\ batch > 0 /\ stack = <<>> /\ done \subseteq Current \cap Over
      /\ timedOut \/ Current \subseteq done \/ done \cap Raised # {}
  BY <1>1 DEF BuildInv, MainInv, BatchInv
<1>3. /\ TypeOK' /\ DepsInv' /\ JobInv' /\ EarlierBatchesFinished'
      /\ containers' = containers /\ stack' = stack /\ job' = job /\ batch' = batch
      /\ \A m, b : InBatch(m, b)' <=> InBatch(m, b)
      /\ Current' = Current /\ Over' = Over /\ Raised' = Raised
  BY <1>1, <1>2, MainStepFrame DEF BuildInv, TypeOK
<1>4. outcome' # "success" /\ (outcome' = "none" <=> pc' # "end") /\ pc' \in {"loop", "end"}
  BY <1>1, <1>2
<1>5. ASSUME pc' = "loop" PROVE \A m \in Current : job[m] = "finished"
  <2>1. done \cap Raised = {} /\ Current \subseteq done
    BY <1>1, <1>5
  <2> QED BY <1>2, <2>1 DEF Over, Raised
<1>6. BatchInv'
  BY <1>1, <1>2, <1>3, <1>4, <1>5 DEF BuildInv, BatchInv
<1>7. MainInv'
  BY <1>1, <1>2, <1>3, <1>4 DEF MainInv, WhyItFailed
<1> QED BY <1>3, <1>6, <1>7 DEF BuildInv

LEMMA FinishInv == BuildInv /\ Finish => BuildInv'
<1> SUFFICES ASSUME BuildInv, Finish PROVE BuildInv'
  OBVIOUS
<1>1. /\ pc = "loop" /\ stack = <<>> /\ batch = Len(containers) /\ outcome' = "success"
      /\ pc' = "end" /\ done' = done /\ timedOut' = timedOut
      /\ UNCHANGED <<depsVars, inputs, jobVars, batch>>
  BY DEF Finish
<1>2. /\ TypeOK' /\ DepsInv' /\ JobInv' /\ EarlierBatchesFinished'
      /\ containers' = containers /\ stack' = stack /\ job' = job /\ batch' = batch
      /\ \A m, b : InBatch(m, b)' <=> InBatch(m, b)
      /\ Current' = Current /\ Over' = Over /\ Raised' = Raised
  BY <1>1, MainStepFrame DEF BuildInv, TypeOK
<1>3. \A m \in Current : job[m] = "finished" /\ m \in Over
  BY <1>1, CurrentIsBatch DEF BuildInv, BatchInv, Over
<1>4. BatchInv'
  BY <1>1, <1>2, <1>3 DEF BuildInv, BatchInv
<1>5. MainInv'
  BY <1>1, <1>2 DEF MainInv, WhyItFailed
<1> QED BY <1>2, <1>4, <1>5 DEF BuildInv

(***************************************************************************)
(* The workers.  A step of the job of image m leaves the batches and the   *)
(* main thread's knowledge alone.                                          *)
(***************************************************************************)
LEMMA WorkFrame ==
    ASSUME BuildInv, NEW m \in Images, job[m] \in Active,
           NEW s \in JobStates \ {"unsubmitted"},
           job' = [job EXCEPT ![m] = s],
           UNCHANGED <<depsVars, inputs, mainVars>>
    PROVE  /\ DepsInv' /\ DepsTypeOK' /\ BatchInv' /\ MainInv'
           /\ containers' = containers /\ batch' = batch
           /\ job' \in [Images -> JobStates]
           /\ job'[m] = s /\ \A n \in Images : n # m => job'[n] = job[n]
           /\ UNCHANGED <<excludes, cont_map, push_containers, pc, done, timedOut, outcome>>
<1>1. /\ DepsInv' /\ DepsTypeOK'
      /\ deps' = deps /\ containers' = containers /\ stack' = stack
      /\ \A n, b : InBatch(n, b)' <=> InBatch(n, b)
  BY DepsUnchanged DEF BuildInv
<1>2. /\ UNCHANGED <<excludes, cont_map, push_containers>>
      /\ UNCHANGED <<pc, batch, done, timedOut, outcome>>
  BY DEF inputs, mainVars
<1>3. /\ job' \in [Images -> JobStates] /\ job'[m] = s
      /\ \A n \in Images : n # m => job'[n] = job[n]
  BY DEF BuildInv, TypeOK
<1>4. /\ m \in Current /\ batch > 0 /\ InBatch(m, batch)
      /\ pc # "loop" /\ pc # "end" /\ outcome = "none" /\ stack = <<>>
      /\ \A b \in 1..(batch - 1) : ~InBatch(m, b)
      /\ m \notin Over /\ (m \notin done \/ pc = "wait")
  BY ActiveInCurrent
<1>5. Current' = Current
  BY <1>1, <1>2 DEF Current
<1>6. \A n \in Images : n \in Over => n \in Over' /\ (n \in Raised' <=> n \in Raised)
  BY <1>3, <1>4 DEF Over, Raised
<1>7. batch \in 1..batch
  BY <1>4, CurrentIsBatch DEF BuildInv
<1>8. \A n \in Images : job'[n] # "unsubmitted" <=> \E b \in 1..batch : InBatch(n, b)
  BY <1>3, <1>4, <1>7 DEF BuildInv, BatchInv
<1>9. EarlierBatchesFinished'
  <2>1. ASSUME NEW b \in 1..(batch - 1), NEW n \in Elements(containers[b])
        PROVE  n \in Images /\ n # m /\ job[n] = "finished"
    <3>1. b \in 1..Len(containers) /\ containers[b] \in Seq(Images)
      BY CurrentIsBatch DEF BuildInv, TypeOK, DepsTypeOK
    <3>2. n \in Images /\ InBatch(n, b)
      BY <3>1, ElementsInType DEF InBatch
    <3> QED BY <1>4, <3>2 DEF BuildInv, BatchInv, EarlierBatchesFinished
  <2> QED BY <1>1, <1>2, <1>3, <2>1 DEF EarlierBatchesFinished
<1>10. BatchInv'
  BY <1>1, <1>2, <1>4, <1>8, <1>9 DEF BatchInv
<1>11. MainInv'
  <2>1. pc \in {"woken", "shutdown"} =>
           /\ done \subseteq Images /\ done \subseteq Current \cap Over
           /\ timedOut \/ Current \subseteq done \/ done \cap Raised # {}
    BY DEF BuildInv, MainInv, TypeOK
  <2>2. pc \in {"woken", "shutdown"} =>
           /\ done \subseteq Current \cap Over'
           /\ timedOut \/ Current \subseteq done \/ done \cap Raised' # {}
    BY <1>6, <2>1
  <2> QED BY <1>1, <1>2, <1>4, <1>5, <2>2 DEF MainInv, WhyItFailed
<1> QED BY <1>1, <1>2, <1>3, <1>10, <1>11

LEMMA TakeJobInv == ASSUME NEW m \in Images PROVE BuildInv /\ TakeJob(m) => BuildInv'
<1> SUFFICES ASSUME BuildInv, TakeJob(m) PROVE BuildInv'
  OBVIOUS
<1> DEFINE s == IF m \in excludes THEN "finished" ELSE "building"
<1>1. /\ job[m] = "pending" /\ job' = [job EXCEPT ![m] = s]
      /\ UNCHANGED <<depsVars, inputs, mainVars>> /\ UNCHANGED <<attempts, built, pushed>>
  BY DEF TakeJob, NextJob, Become
<1>2. s \in JobStates \ {"unsubmitted"} /\ job[m] \in Active
  BY <1>1 DEF JobStates, Active
<1>3. /\ DepsInv' /\ DepsTypeOK' /\ BatchInv' /\ MainInv'
      /\ containers' = containers /\ batch' = batch
      /\ job' \in [Images -> JobStates]
      /\ job'[m] = s /\ \A n \in Images : n # m => job'[n] = job[n]
      /\ UNCHANGED <<excludes, cont_map, push_containers, pc, done, timedOut, outcome>>
  BY <1>1, <1>2, WorkFrame
<1>4. TypeOK'
  BY <1>1, <1>3 DEF BuildInv, TypeOK
<1>5. JobInv'
  BY <1>1, <1>3, BoundsAssumption DEF BuildInv, JobInv, Available
<1> QED BY <1>3, <1>4, <1>5 DEF BuildInv

LEMMA BuildSucceedsInv == ASSUME NEW m \in Images PROVE BuildInv /\ BuildSucceeds(m) => BuildInv'
<1> SUFFICES ASSUME BuildInv, BuildSucceeds(m) PROVE BuildInv'
  OBVIOUS
<1> DEFINE s == IF push_containers THEN "pushing" ELSE "finished"
<1>1. /\ job[m] = "building" /\ job' = [job EXCEPT ![m] = s]
      /\ built' = built \cup {m} /\ attempts' = [attempts EXCEPT ![m] = 0]
      /\ UNCHANGED <<depsVars, inputs, mainVars>> /\ pushed' = pushed
  BY DEF BuildSucceeds, Become
<1>2. s \in JobStates \ {"unsubmitted"} /\ job[m] \in Active
  BY <1>1 DEF JobStates, Active
<1>3. /\ DepsInv' /\ DepsTypeOK' /\ BatchInv' /\ MainInv'
      /\ containers' = containers /\ batch' = batch
      /\ job' \in [Images -> JobStates]
      /\ job'[m] = s /\ \A n \in Images : n # m => job'[n] = job[n]
      /\ UNCHANGED <<excludes, cont_map, push_containers, pc, done, timedOut, outcome>>
  BY <1>1, <1>2, WorkFrame
<1>4. /\ attempts' \in [Images -> Nat] /\ attempts'[m] = 0
      /\ \A n \in Images : n # m => attempts'[n] = attempts[n]
  BY <1>1 DEF BuildInv, TypeOK
<1>5. TypeOK'
  BY <1>1, <1>3, <1>4 DEF BuildInv, TypeOK
<1>6. JobInv'
  BY <1>1, <1>3, <1>4, BoundsAssumption DEF BuildInv, JobInv, Available
<1> QED BY <1>3, <1>5, <1>6 DEF BuildInv

\* one failed attempt of a call with the given bound
LEMMA AttemptFacts ==
    ASSUME BuildInv, NEW m \in Images, job[m] \in {"building", "pushing"},
           NEW bound \in Nat, AttemptFails(m, bound), attempts[m] < bound,
           UNCHANGED <<depsVars, inputs, mainVars>>
    PROVE  /\ DepsInv' /\ DepsTypeOK' /\ BatchInv' /\ MainInv'
           /\ containers' = containers /\ batch' = batch
           /\ job' \in [Images -> JobStates] /\ attempts' \in [Images -> Nat]
           /\ \A n \in Images : n # m => job'[n] = job[n] /\ attempts'[n] = attempts[n]
           /\ \/ job'[m] = "raised" /\ attempts'[m] = bound
              \/ job'[m] = job[m] /\ attempts'[m] < bound
           /\ UNCHANGED <<excludes, cont_map, push_containers, pc, done, timedOut, outcome>>
<1> DEFINE s == IF attempts'[m] = bound THEN "raised" ELSE job[m]
<1>1. job' = [job EXCEPT ![m] = s] /\ attempts' = [attempts EXCEPT ![m] = @ + 1]
  BY DEF AttemptFails, Become
<1>2. s \in JobStates \ {"unsubmitted"} /\ job[m] \in Active
  BY DEF JobStates, Active
<1>3. /\ DepsInv' /\ DepsTypeOK' /\ BatchInv' /\ MainInv'
      /\ containers' = containers /\ batch' = batch
      /\ job' \in [Images -> JobStates]
      /\ job'[m] = s /\ \A n \in Images : n # m => job'[n] = job[n]
      /\ UNCHANGED <<excludes, cont_map, push_containers, pc, done, timedOut, outcome>>
  BY <1>1, <1>2, WorkFrame
<1>4. attempts \in [Images -> Nat]
  BY DEF BuildInv, TypeOK
<1>5. /\ attempts' \in [Images -> Nat] /\ attempts'[m] = attempts[m] + 1
      /\ \A n \in Images : n # m => attempts'[n] = attempts[n]
  BY <1>1, <1>4
<1>6. attempts'[m] = bound \/ attempts'[m] < bound
  BY <1>4, <1>5
<1> QED BY <1>3, <1>5, <1>6

LEMMA BuildFailsInv == ASSUME NEW m \in Images PROVE BuildInv /\ BuildFails(m) => BuildInv'
<1> SUFFICES ASSUME BuildInv, BuildFails(m) PROVE BuildInv'
  OBVIOUS
<1>1. /\ job[m] = "building" /\ AttemptFails(m, BuildAttempts)
      /\ UNCHANGED <<depsVars, inputs, mainVars>> /\ built' = built /\ pushed' = pushed
  BY DEF BuildFails
<1>2. BuildAttempts \in Nat /\ attempts[m] < BuildAttempts
  BY <1>1, BoundsAssumption DEF BuildInv, JobInv
<1>3. /\ DepsInv' /\ DepsTypeOK' /\ BatchInv' /\ MainInv'
      /\ containers' = containers /\ batch' = batch
      /\ job' \in [Images -> JobStates] /\ attempts' \in [Images -> Nat]
      /\ \A n \in Images : n # m => job'[n] = job[n] /\ attempts'[n] = attempts[n]
      /\ \/ job'[m] = "raised" /\ attempts'[m] = BuildAttempts
         \/ job'[m] = job[m] /\ attempts'[m] < BuildAttempts
      /\ UNCHANGED <<excludes, cont_map, push_containers, pc, done, timedOut, outcome>>
  BY <1>1, <1>2, AttemptFacts
<1>4. TypeOK'
  BY <1>1, <1>3 DEF BuildInv, TypeOK
<1>5. JobInv'
  BY <1>1, <1>3 DEF BuildInv, JobInv, Available
<1> QED BY <1>3, <1>4, <1>5 DEF BuildInv

LEMMA PushSucceedsInv == ASSUME NEW m \in Images PROVE BuildInv /\ PushSucceeds(m) => BuildInv'
<1> SUFFICES ASSUME BuildInv, PushSucceeds(m) PROVE BuildInv'
  OBVIOUS
<1>1. /\ job[m] = "pushing" /\ job' = [job EXCEPT ![m] = "finished"]
      /\ pushed' = pushed \cup {m} /\ attempts' = attempts /\ built' = built
      /\ UNCHANGED <<depsVars, inputs, mainVars>>
  BY DEF PushSucceeds, Become
<1>2. "finished" \in JobStates \ {"unsubmitted"} /\ job[m] \in Active
  BY <1>1 DEF JobStates, Active
<1>3. /\ DepsInv' /\ DepsTypeOK' /\ BatchInv' /\ MainInv'
      /\ containers' = containers /\ batch' = batch
      /\ job' \in [Images -> JobStates]
      /\ job'[m] = "finished" /\ \A n \in Images : n # m => job'[n] = job[n]
      /\ UNCHANGED <<excludes, cont_map, push_containers, pc, done, timedOut, outcome>>
  BY <1>1, <1>2, WorkFrame
<1>4. TypeOK'
  BY <1>1, <1>3 DEF BuildInv, TypeOK
<1>5. JobInv'
  BY <1>1, <1>3 DEF BuildInv, JobInv, Available
<1> QED BY <1>3, <1>4, <1>5 DEF BuildInv

LEMMA PushFailsInv == ASSUME NEW m \in Images PROVE BuildInv /\ PushFails(m) => BuildInv'
<1> SUFFICES ASSUME BuildInv, PushFails(m) PROVE BuildInv'
  OBVIOUS
<1>1. /\ job[m] = "pushing" /\ AttemptFails(m, PushAttempts)
      /\ pushed' \in {pushed, pushed \cup {m}} /\ built' = built
      /\ UNCHANGED <<depsVars, inputs, mainVars>>
  BY DEF PushFails
<1>2. PushAttempts \in Nat /\ attempts[m] < PushAttempts
  BY <1>1, BoundsAssumption DEF BuildInv, JobInv
<1>3. /\ DepsInv' /\ DepsTypeOK' /\ BatchInv' /\ MainInv'
      /\ containers' = containers /\ batch' = batch
      /\ job' \in [Images -> JobStates] /\ attempts' \in [Images -> Nat]
      /\ \A n \in Images : n # m => job'[n] = job[n] /\ attempts'[n] = attempts[n]
      /\ \/ job'[m] = "raised" /\ attempts'[m] = PushAttempts
         \/ job'[m] = job[m] /\ attempts'[m] < PushAttempts
      /\ UNCHANGED <<excludes, cont_map, push_containers, pc, done, timedOut, outcome>>
  BY <1>1, <1>2, AttemptFacts
<1>4. TypeOK'
  BY <1>1, <1>3 DEF BuildInv, TypeOK
<1>5. JobInv'
  BY <1>1, <1>3 DEF BuildInv, JobInv, Available
<1> QED BY <1>3, <1>4, <1>5 DEF BuildInv

(***************************************************************************)
(* BuildInv is an invariant                                                *)
(***************************************************************************)
LEMMA StutterInv == BuildInv /\ UNCHANGED vars => BuildInv'
<1> SUFFICES ASSUME BuildInv, UNCHANGED vars PROVE BuildInv'
  OBVIOUS
<1>1. UNCHANGED <<depsVars, inputs, jobVars, batch>> /\ UNCHANGED <<pc, done, timedOut, outcome>>
  BY DEF vars, buildVars, mainVars
<1>2. /\ TypeOK' /\ DepsInv' /\ JobInv' /\ EarlierBatchesFinished'
      /\ containers' = containers /\ stack' = stack /\ job' = job /\ batch' = batch
      /\ \A m, b : InBatch(m, b)' <=> InBatch(m, b)
      /\ Current' = Current /\ Over' = Over /\ Raised' = Raised
  BY <1>1, MainStepFrame DEF BuildInv, TypeOK
<1>3. BatchInv'
  BY <1>1, <1>2 DEF BuildInv, BatchInv
<1>4. MainInv'
  BY <1>1, <1>2 DEF BuildInv, MainInv, WhyItFailed
<1> QED BY <1>2, <1>3, <1>4 DEF BuildInv

LEMMA NextInv == BuildInv /\ [Next]_vars => BuildInv'
<1> SUFFICES ASSUME BuildInv, [Next]_vars PROVE BuildInv'
  OBVIOUS
<1>1. CASE GenerateDeps
  BY <1>1, GenerateDepsInv
<1>2. CASE Main
  BY <1>2, SubmitBatchInv, WaitWakesInv, WaitReturnsInv, CheckJobsInv, FinishInv DEF Main
<1>3. ASSUME NEW m \in Images, Work(m) PROVE BuildInv'
  BY <1>3, TakeJobInv, BuildSucceedsInv, BuildFailsInv, PushSucceedsInv, PushFailsInv
     DEF Work, BuildReturns, PushReturns
<1>4. CASE Terminated \/ UNCHANGED vars
  BY <1>4, StutterInv DEF Terminated
<1> QED BY <1>1, <1>2, <1>3, <1>4 DEF Next

(***************************************************************************)
(* Every reachable state of build_all and its workers satisfies the        *)
(* inductive invariant, in particular TypeOK (buildah.py:132-387).         *)
(***************************************************************************)
THEOREM BuildInvariance == Spec => []BuildInv
<1>1. Init => BuildInv
  BY InitInv
<1>2. BuildInv /\ [Next]_vars => BuildInv'
  BY NextInv
<1> QED BY <1>1, <1>2, PTL DEF Spec

(***************************************************************************)
(* The state of every variable stays in its type.                          *)
(***************************************************************************)
THEOREM TypeCorrectness == Spec => []TypeOK
  BY BuildInvariance, PTL DEF BuildInv

\* the parent of an image that left the queue is finished
LEMMA ParentFinished ==
    ASSUME BuildInv, NEW m \in Images, NEW b \in 1..batch, InBatch(m, b), deps.parent[m] # Root
    PROVE  deps.parent[m] \in Images /\ job[deps.parent[m]] = "finished"
<1>1. batch \in Nat /\ Len(containers) \in Nat /\ batch <= Len(containers) /\ b \in 1..Len(containers)
  BY CurrentIsBatch DEF BuildInv
<1>2. PICK a \in 1..(b - 1) : InBatch(deps.parent[m], a)
  BY <1>1 DEF BuildInv, DepsInv, ParentPlacedEarlier, InBatch
<1>3. a \in 1..(batch - 1)
  BY <1>1
<1>4. job[deps.parent[m]] = "finished"
  BY <1>2, <1>3 DEF BuildInv, BatchInv, EarlierBatchesFinished, InBatch
<1>5. deps.parent[m] \in Nodes
  BY TreesAssumption DEF BuildInv, DepsInv, DepsTypeOK, IsTree
<1> QED BY <1>4, <1>5 DEF Nodes

(***************************************************************************)
(* No job runs before the image it is FROM is built, and pushed if images  *)
(* are pushed, for every tree and every schedule (buildah.py:248-251).     *)
(***************************************************************************)
THEOREM ParentsFirst == Spec => []ParentAvailable
<1>1. BuildInv => ParentAvailable
  <2> SUFFICES ASSUME BuildInv, NEW m \in Images,
                      job[m] \in {"building", "pushing", "finished", "raised"},
                      deps.parent[m] \notin excludes \cup {Root}
               PROVE  Available(deps.parent[m])
    BY DEF ParentAvailable
  <2>1. PICK b \in 1..batch : InBatch(m, b)
    BY DEF BuildInv, BatchInv
  <2>2. deps.parent[m] \in Images /\ job[deps.parent[m]] = "finished"
    BY <2>1, ParentFinished
  <2> QED BY <2>2 DEF BuildInv, JobInv
<1> QED BY <1>1, BuildInvariance, PTL

\* between batches, and at a successful end, the submitted jobs are finished
LEMMA SuccessFinished ==
    ASSUME BuildInv, stack = <<>>, batch = Len(containers), pc = "loop" \/ outcome = "success"
    PROVE  \A m \in Images : job[m] = "finished"
<1>1. Placed = Images
  BY DepsInvComplete DEF BuildInv, AllPlacedAtReturn
<1>2. batch \in Nat /\ \A m : m \in Current <=> batch > 0 /\ InBatch(m, batch)
  BY CurrentIsBatch DEF BuildInv
<1> SUFFICES ASSUME NEW m \in Images PROVE job[m] = "finished"
  OBVIOUS
<1>3. PICK b \in 1..batch : InBatch(m, b)
  BY <1>1 DEF Placed, InBatch
<1>4. CASE b = batch
  BY <1>2, <1>3, <1>4 DEF BuildInv, BatchInv
<1>5. CASE b # batch
  BY <1>2, <1>3, <1>5 DEF BuildInv, BatchInv, EarlierBatchesFinished, InBatch
<1> QED BY <1>4, <1>5

(***************************************************************************)
(* A normal return of build_all means that every image that is not         *)
(* excluded was built, and pushed if images are pushed (buildah.py:352).   *)
(***************************************************************************)
THEOREM SuccessIsComplete == Spec => []SuccessMeansAllBuilt
<1>1. BuildInv => SuccessMeansAllBuilt
  <2> SUFFICES ASSUME BuildInv PROVE SuccessMeansAllBuilt
    OBVIOUS
  <2>1. (built \cup pushed) \cap excludes = {}
    BY DEF BuildInv, TypeOK, JobInv
  <2>2. ASSUME outcome = "success", NEW m \in Images \ excludes PROVE Available(m)
    <3>1. job[m] = "finished"
      BY <2>2, SuccessFinished DEF BuildInv, MainInv
    <3> QED BY <2>2, <3>1 DEF BuildInv, JobInv
  <2> QED BY <2>1, <2>2 DEF SuccessMeansAllBuilt
<1> QED BY <1>1, BuildInvariance, PTL

(***************************************************************************)
(* No buildah command outlives build_all, not even after a failure or a    *)
(* timeout (buildah.py:335).                                               *)
(***************************************************************************)
THEOREM NothingLeftRunning == Spec => []NoJobLeftBehind
<1>1. BuildInv => NoJobLeftBehind
  <2> SUFFICES ASSUME BuildInv, NEW m \in Images, job[m] \in Active PROVE pc \notin {"loop", "end"}
    BY DEF NoJobLeftBehind, Active
  <2> QED BY ActiveInCurrent
<1> QED BY <1>1, BuildInvariance, PTL

(***************************************************************************)
(* A failing batch is the last one (buildah.py:352-387).                   *)
(***************************************************************************)
THEOREM Failures == Spec => []EarlierBatchesFinished
<1>1. BuildInv => EarlierBatchesFinished
  BY DEF BuildInv, BatchInv
<1> QED BY <1>1, BuildInvariance, PTL

(***************************************************************************)
(* Where the note at buildah.py:347-351 is wrong: not in a corner, but     *)
(* whenever a job failed and the timer of its batch did not expire.        *)
(***************************************************************************)
THEOREM FailuresRaiseRuntimeError ==
    Spec => [](pc = "end" /\ Raised # {} /\ ~timedOut => outcome = "RuntimeError")
<1>1. ASSUME BuildInv, pc = "end", Raised # {}, ~timedOut PROVE outcome = "RuntimeError"
  <2>1. outcome \in {"success", "RuntimeError"}
    BY <1>1 DEF BuildInv, TypeOK, MainInv, WhyItFailed
  <2>2. PICK m \in Images : job[m] = "raised"
    BY <1>1 DEF Raised
  <2>3. ASSUME outcome = "success" PROVE FALSE
    <3>1. \E b \in 1..batch : InBatch(m, b)
      BY <1>1, <2>2 DEF BuildInv, BatchInv
    <3>2. PICK b \in 1..batch : m \in Elements(containers[b])
      BY <3>1 DEF InBatch
    <3>3. CASE b = batch
      <4>1. m \in Current
        BY <3>2, <3>3 DEF Current
      <4> QED BY <1>1, <2>2, <2>3, <4>1 DEF BuildInv, BatchInv
    <3>4. CASE b # batch
      <4>1. batch \in Nat
        BY <1>1, CurrentIsBatch DEF BuildInv, TypeOK
      <4>2. b \in 1..(batch - 1)
        BY <3>2, <3>4, <4>1
      <4> QED BY <1>1, <2>2, <3>2, <4>2 DEF BuildInv, BatchInv, EarlierBatchesFinished
    <3> QED BY <3>3, <3>4
  <2> QED BY <2>1, <2>3
<1> QED BY <1>1, BuildInvariance, PTL

(***************************************************************************)
(* A job that is over never starts again, in a later batch or on a retry,  *)
(* and nothing goes to the registry unbuilt (buildah.py:145-148, 336).     *)
(***************************************************************************)
THEOREM JobsRunOnce == Spec => NoRebuild
<1>1. BuildInv /\ [Next]_vars =>
        [\A m \in Images : /\ m \in Over => job'[m] = job[m]
                           /\ m \in pushed' \ pushed => m \in built]_vars
  <2> SUFFICES ASSUME BuildInv, Next, NEW m \in Images
               PROVE  /\ m \in Over => job'[m] = job[m]
                      /\ m \in pushed' \ pushed => m \in built
    OBVIOUS
  <2>1. m \in Over <=> job[m] \in {"finished", "raised"}
    BY DEF Over
  <2>2. job \in [Images -> JobStates]
    BY DEF BuildInv, TypeOK
  <2>3. CASE GenerateDeps \/ Terminated
    BY <2>3 DEF GenerateDeps, Terminated, buildVars, jobVars, vars
  <2>4. CASE SubmitBatch
    <3>1. batch \in Nat /\ Len(containers) \in Nat /\ batch + 1 \in 1..Len(containers)
      BY <2>4, CurrentIsBatch DEF BuildInv, SubmitBatch
    <3>2. job'[m] = IF InBatch(m, batch + 1) THEN "pending" ELSE job[m]
      BY <2>4, <3>1 DEF SubmitBatch, InBatch
    <3>3. InBatch(m, batch + 1) => job[m] = "unsubmitted"
      BY NextBatchUnsubmitted, <3>1
    <3> QED BY <2>1, <2>4, <3>2, <3>3 DEF SubmitBatch
  <2>5. CASE WaitWakes \/ WaitReturns \/ CheckJobs \/ Finish
    BY <2>5 DEF WaitWakes, WaitReturns, CheckJobs, Finish, jobVars
  <2>6. ASSUME NEW n \in Images, Work(n)
        PROVE  /\ job[n] \in Active
               /\ \A k \in Images \ {n} : job'[k] = job[k]
               /\ \A k \in Images : k \in pushed' \ pushed => k = n /\ job[n] = "pushing"
    BY <2>2, <2>6 DEF Work, TakeJob, NextJob, BuildReturns, PushReturns, BuildSucceeds, BuildFails,
         PushSucceeds, PushFails, AttemptFails, Become, Active, mainVars
  <2>7. ASSUME NEW n \in Images, Work(n)
        PROVE  /\ m \in Over => job'[m] = job[m]
               /\ m \in pushed' \ pushed => m \in built
    BY <2>1, <2>6, <2>7 DEF Active, BuildInv, JobInv
  <2> QED BY <2>3, <2>4, <2>5, <2>7 DEF Next, Main
<1> QED BY <1>1, BuildInvariance, PTL DEF Spec, NoRebuild

(***************************************************************************)
(* The registry is closed under FROM in every reachable state, also when   *)
(* build_all fails half-way (buildah.py:145-151, 248-251).                 *)
(***************************************************************************)
THEOREM RegistryStaysClosed == Spec => []RegistryClosed
<1>1. BuildInv => RegistryClosed
  <2> SUFFICES ASSUME BuildInv, NEW m \in Images, m \in pushed,
                      deps.parent[m] \notin excludes \cup {Root}
               PROVE  deps.parent[m] \in pushed
    BY DEF RegistryClosed, BuildInv, TypeOK
  <2>1. job[m] \in {"pushing", "finished", "raised"}
    BY DEF BuildInv, TypeOK, JobInv
  <2>2. push_containers
    BY DEF BuildInv, JobInv
  <2>3. PICK b \in 1..batch : InBatch(m, b)
    BY <2>1 DEF BuildInv, BatchInv
  <2>4. deps.parent[m] \in Images /\ job[deps.parent[m]] = "finished"
    BY <2>3, ParentFinished
  <2> QED BY <2>2, <2>4 DEF BuildInv, JobInv, Available
<1> QED BY <1>1, BuildInvariance, PTL

(***************************************************************************)
(* The refinement of OrderedBuild                                          *)
(***************************************************************************)
LEMMA InitRefines == Init => Ordered!Init
<1> SUFFICES ASSUME Init PROVE Ordered!Init
  OBVIOUS
<1>1. deps.parent \in [Images -> Images \cup {Root}]
  BY TreesAssumption DEF Init, DepsInit, IsTree, Nodes
<1>2. AbsStatus = [m \in Images |-> "waiting"] /\ AbsVerdict = "none"
  BY DEF Init, AbsStatus, AbsVerdict
<1>3. excludes \in SUBSET Images
  BY InputsAssumption DEF Init
<1> QED BY <1>1, <1>2, <1>3 DEF Ordered!Init

\* a step that only moves jobs into the queue or not at all is a stutter
LEMMA StutterRefines ==
    ASSUME deps' = deps, excludes' = excludes, AbsStatus' = AbsStatus, AbsVerdict' = AbsVerdict
    PROVE  UNCHANGED Ordered!vars
  BY DEF Ordered!vars

LEMMA MainRefines == BuildInv /\ Main => [Ordered!Next]_(Ordered!vars)
<1> SUFFICES ASSUME BuildInv, Main PROVE [Ordered!Next]_(Ordered!vars)
  OBVIOUS
<1>1. deps' = deps /\ excludes' = excludes
  BY DEF Main, SubmitBatch, WaitWakes, WaitReturns, CheckJobs, Finish, inputs, depsVars
<1>2. CASE SubmitBatch
  <2>1. batch \in Nat /\ batch + 1 \in 1..Len(containers)
    BY <1>2, CurrentIsBatch DEF SubmitBatch, BuildInv
  <2>2. \A m \in Images : m \in Elements(containers[batch + 1]) => job[m] = "unsubmitted"
    <3>1. ASSUME NEW m \in Images, InBatch(m, batch + 1), NEW b \in 1..batch, InBatch(m, b)
          PROVE  FALSE
      <4>1. b = batch + 1
        BY <3>1, OneBatch DEF BuildInv
      <4> QED BY <2>1, <4>1
    <3> QED BY <2>1, <3>1 DEF BuildInv, BatchInv, InBatch
  <2>3. AbsStatus' = AbsStatus
    BY <1>1, <1>2, <2>2 DEF SubmitBatch, AbsStatus
  <2>4. AbsVerdict' = AbsVerdict
    BY <1>2 DEF SubmitBatch, AbsVerdict
  <2> QED BY <1>1, <2>3, <2>4, StutterRefines
<1>3. CASE WaitWakes \/ WaitReturns
  <2>1. job' = job /\ outcome' = outcome
    BY <1>3 DEF WaitWakes, WaitReturns, jobVars
  <2> QED BY <1>1, <2>1, StutterRefines DEF AbsStatus, AbsVerdict
<1>4. CASE CheckJobs
  <2>1. job' = job /\ pc = "shutdown" /\ Current \subseteq Over
    BY <1>4 DEF CheckJobs, jobVars
  <2>2. AbsStatus' = AbsStatus
    BY <1>1, <2>1 DEF AbsStatus
  <2>3. outcome = "none"
    BY <2>1 DEF BuildInv, MainInv
  <2>4. outcome' \in {"none", "RuntimeError", "SystemError"}
    BY <1>4, <2>3 DEF CheckJobs
  <2>5. CASE outcome' = "none"
    BY <1>1, <2>2, <2>3, <2>5, StutterRefines DEF AbsVerdict
  <2>6. CASE outcome' # "none"
    <3>1. \A m \in Images : AbsStatus[m] # "working"
      <4>1. ASSUME NEW m \in Images, job[m] \in {"building", "pushing"} PROVE FALSE
        <5>1. m \in Current /\ m \notin Over
          BY <4>1, ActiveInCurrent DEF Active
        <5> QED BY <2>1, <5>1
      <4> QED BY <4>1 DEF AbsStatus
    <3>2. AbsVerdict = "none" /\ AbsVerdict' = "failure"
      BY <2>3, <2>4, <2>6 DEF AbsVerdict
    <3>3. Ordered!GiveUp
      BY <1>1, <2>2, <3>1, <3>2 DEF Ordered!GiveUp
    <3> QED BY <3>3 DEF Ordered!Next
  <2> QED BY <2>5, <2>6
<1>5. CASE Finish
  <2>1. job' = job /\ outcome' = "success" /\ pc = "loop" /\ stack = <<>> /\ batch = Len(containers)
    BY <1>5 DEF Finish, jobVars
  <2>2. \A m \in Images : job[m] = "finished"
    BY <2>1, SuccessFinished
  <2>3. AbsStatus' = AbsStatus /\ \A m \in Images : AbsStatus[m] \in {"ready", "skipped"}
    BY <1>1, <2>1, <2>2 DEF AbsStatus
  <2>4. AbsVerdict = "none" /\ AbsVerdict' = "success"
    BY <2>1 DEF BuildInv, MainInv, AbsVerdict
  <2>5. Ordered!Succeed
    BY <1>1, <2>3, <2>4 DEF Ordered!Succeed, Ordered!Settled
  <2> QED BY <2>5 DEF Ordered!Next
<1> QED BY <1>2, <1>3, <1>4, <1>5 DEF Main

\* the abstract status of an image whose job is in state s
Seen(m, s) ==
    IF s \in {"unsubmitted", "pending"} THEN "waiting"
    ELSE IF s \in {"building", "pushing"} THEN "working"
    ELSE IF s = "raised" THEN "failed"
    ELSE IF m \in excludes THEN "skipped" ELSE "ready"

\* what a change of the state of one job is in the abstract status
LEMMA StatusOfJob ==
    ASSUME BuildInv, NEW m \in Images, NEW s, job' = [job EXCEPT ![m] = s], excludes' = excludes
    PROVE  AbsStatus' = [AbsStatus EXCEPT ![m] = Seen(m, s)]
<1>1. job'[m] = s /\ \A n \in Images : n # m => job'[n] = job[n]
  BY DEF BuildInv, TypeOK
<1> QED BY <1>1 DEF AbsStatus, Seen

LEMMA WorkRefines ==
    ASSUME NEW m \in Images
    PROVE  BuildInv /\ Work(m) => [Ordered!Next]_(Ordered!vars)
<1> SUFFICES ASSUME BuildInv, Work(m) PROVE [Ordered!Next]_(Ordered!vars)
  OBVIOUS
<1>1. UNCHANGED <<depsVars, inputs, mainVars>> /\ job[m] \in Active
  BY DEF Work, TakeJob, NextJob, BuildReturns, BuildSucceeds, BuildFails, PushReturns, PushSucceeds,
         PushFails, Active
<1>2. deps' = deps /\ excludes' = excludes /\ AbsVerdict' = AbsVerdict
  BY <1>1 DEF depsVars, inputs, mainVars, AbsVerdict
<1>3. AbsVerdict = "none"
  BY <1>1, ActiveInCurrent DEF AbsVerdict
<1>4. CASE TakeJob(m)
  <2>1. job[m] = "pending" /\ job' = [job EXCEPT ![m] = IF m \in excludes THEN "finished" ELSE "building"]
    BY <1>4 DEF TakeJob, NextJob, Become
  <2>2. AbsStatus' = [AbsStatus EXCEPT ![m] = IF m \in excludes THEN "skipped" ELSE "working"]
    <3>1. CASE m \in excludes
      <4>1. job' = [job EXCEPT ![m] = "finished"]
        BY <2>1, <3>1
      <4>2. Seen(m, "finished") = "skipped"
        BY <3>1 DEF Seen
      <4> QED BY <1>2, <3>1, <4>1, <4>2, StatusOfJob
    <3>2. CASE m \notin excludes
      <4>1. job' = [job EXCEPT ![m] = "building"]
        BY <2>1, <3>2
      <4>2. Seen(m, "building") = "working"
        BY DEF Seen
      <4> QED BY <1>2, <3>2, <4>1, <4>2, StatusOfJob
    <3> QED BY <3>1, <3>2
  <2>3. deps.parent[m] # Root => AbsStatus[deps.parent[m]] \in {"ready", "skipped"}
    <3>1. PICK b \in 1..batch : InBatch(m, b)
      BY <2>1 DEF BuildInv, BatchInv
    <3>2. deps.parent[m] # Root => deps.parent[m] \in Images /\ job[deps.parent[m]] = "finished"
      BY <3>1, ParentFinished
    <3> QED BY <3>2 DEF AbsStatus
  <2>4. Ordered!Turn(m)
    BY <1>3, <2>1, <2>3 DEF Ordered!Turn, Ordered!Settled, AbsStatus
  <2>5. Ordered!Begin(m) \/ Ordered!Skip(m)
    BY <1>2, <2>2, <2>4 DEF Ordered!Begin, Ordered!Skip, Ordered!Become
  <2> QED BY <2>5 DEF Ordered!Next
<1>5. CASE BuildReturns(m) \/ PushReturns(m)
  <2>1. job[m] \in {"building", "pushing"} /\ m \notin excludes
    BY <1>5 DEF BuildInv, JobInv, BuildReturns, BuildSucceeds, BuildFails,
                PushReturns, PushSucceeds, PushFails
  <2>2. PICK s \in {"building", "pushing", "finished", "raised"} : job' = [job EXCEPT ![m] = s]
    BY <1>5, <2>1 DEF BuildReturns, BuildSucceeds, BuildFails, PushReturns, PushSucceeds,
                PushFails, AttemptFails, Become
  <2>3. AbsStatus[m] = "working" /\ AbsStatus \in [Images -> {AbsStatus[n] : n \in Images}]
    BY <2>1 DEF AbsStatus
  <2>4. CASE s \in {"building", "pushing"}
    <3>1. AbsStatus' = [AbsStatus EXCEPT ![m] = "working"]
      BY <1>2, <2>2, <2>4, StatusOfJob DEF Seen
    <3>2. AbsStatus' = AbsStatus
      BY <2>3, <3>1
    <3> QED BY <1>2, <3>2, StutterRefines
  <2>5. CASE s \in {"finished", "raised"}
    <3>1. \/ AbsStatus' = [AbsStatus EXCEPT ![m] = "ready"]
          \/ AbsStatus' = [AbsStatus EXCEPT ![m] = "failed"]
      BY <1>2, <2>1, <2>2, <2>5, StatusOfJob DEF Seen
    <3>2. Ordered!Complete(m)
      BY <1>2, <2>3, <3>1 DEF Ordered!Complete, Ordered!Become
    <3> QED BY <3>2 DEF Ordered!Next
  <2> QED BY <2>2, <2>4, <2>5
<1> QED BY <1>4, <1>5 DEF Work

(***************************************************************************)
(* build_all with its batches, thread pool, retries and timer implements   *)
(* the abstract promise OrderedBuild (buildah.py:132-387).                 *)
(***************************************************************************)
THEOREM Refinement == Spec => ImplementsOrderedBuild
<1>1. Init => Ordered!Init
  BY InitRefines
<1>2. BuildInv /\ [Next]_vars => [Ordered!Next]_(Ordered!vars)
  <2> SUFFICES ASSUME BuildInv, [Next]_vars PROVE [Ordered!Next]_(Ordered!vars)
    OBVIOUS
  <2>1. CASE GenerateDeps
    <3>1. deps' = deps /\ excludes' = excludes /\ job' = job /\ outcome' = outcome
      BY <2>1 DEF GenerateDeps, DepsNext, DictItem, Return, buildVars, inputs, mainVars, jobVars
    <3> QED BY <3>1, StutterRefines DEF AbsStatus, AbsVerdict
  <2>2. CASE Main
    BY <2>2, MainRefines
  <2>3. ASSUME NEW m \in Images, Work(m) PROVE [Ordered!Next]_(Ordered!vars)
    BY <2>3, WorkRefines
  <2>4. CASE Terminated \/ UNCHANGED vars
    <3>1. deps' = deps /\ excludes' = excludes /\ job' = job /\ outcome' = outcome
      BY <2>4 DEF Terminated, vars, depsVars, buildVars, inputs, mainVars, jobVars
    <3> QED BY <3>1, StutterRefines DEF AbsStatus, AbsVerdict
  <2> QED BY <2>1, <2>2, <2>3, <2>4 DEF Next
<1> QED BY <1>1, <1>2, BuildInvariance, PTL DEF Spec, ImplementsOrderedBuild, Ordered!Spec

----------------------------------------------------------------------------
(* The safety halves of Termination: some thread can go on, and every step *)
(* counts                                                                  *)

LessThan == {ss \in Nat \X Nat : ss[1] < ss[2]}

LEMMA LeastIndex ==
    ASSUME NEW S \in SUBSET Nat, S # {}
    PROVE  \E x \in S : \A y \in S : x <= y
<1>1. IsWellFoundedOn(LessThan, Nat)
  BY NatLessThanWellFounded DEF LessThan, OpToRel
<1>2. PICK x \in S : \A y \in S : ~(<<y, x>> \in LessThan)
  BY <1>1, WFMin
<1>3. ASSUME NEW y \in S PROVE x <= y
  <2>1. /\ x \in Nat /\ y \in Nat /\ <<y, x>> \notin LessThan
        /\ <<y, x>> \in Nat \X Nat /\ <<y, x>>[1] = y /\ <<y, x>>[2] = x
    BY <1>2
  <2> QED BY <2>1 DEF LessThan
<1> QED BY <1>3

\* as long as a job waits for a worker and none runs, a worker is free for
\* the oldest of the batch
LEMMA IdlePoolTakesJob ==
    ASSUME BuildInv, Running = {}, NEW m \in Images, job[m] = "pending"
    PROVE  \E n \in Images : NextJob(n)
<1>1. batch > 0 /\ InBatch(m, batch)
  BY ActiveInCurrent DEF Active
<1> DEFINE b == containers[batch]
           S == {i \in 1..Len(b) : job[b[i]] = "pending"}
<1>2. batch \in 1..Len(containers) /\ b \in Seq(Images) /\ b # <<>> /\ Len(b) \in Nat
  BY <1>1 DEF InBatch, BuildInv, TypeOK, DepsTypeOK, DepsInv, NoEmptyBatch
<1>3. S \in SUBSET Nat /\ S # {}
  BY <1>1, <1>2 DEF InBatch, Elements
<1>4. PICK i \in S : \A j \in S : i <= j
  <2> HIDE DEF S
  <2> QED BY <1>3, LeastIndex
<1>5. i \in 1..Len(b) /\ job[b[i]] = "pending" /\ b[i] \in Images
  BY <1>2, <1>4
<1>6. \A j \in 1..(i - 1) : job[b[j]] # "pending"
  <2> SUFFICES ASSUME NEW j \in 1..(i - 1), job[b[j]] = "pending" PROVE FALSE
    OBVIOUS
  <2>1. j \in 1..Len(b) /\ j < i
    BY <1>2, <1>5
  <2>2. j \in S
    BY <2>1
  <2> QED BY <1>4, <1>5, <2>1, <2>2
<1>7. Cardinality(Running) < Workers(batch)
  <2>1. Cardinality(Running) = 0
    BY FS_EmptySet
  <2>2. Len(b) >= 1
    BY <1>2
  <2>3. Workers(batch) >= 1 /\ Workers(batch) \in Nat
    BY <1>2, <2>2, BoundsAssumption DEF Workers, Min2, Max2
  <2> QED BY <2>1, <2>3
<1>8. NextJob(b[i])
  <2> DEFINE n == b[i]
  <2>1. job[n] = "pending" /\ containers[batch][i] = n /\ i \in 1..Len(containers[batch])
    BY <1>5
  <2>2. \A j \in 1..(i - 1) : job[containers[batch][j]] # "pending"
    BY <1>6
  <2> HIDE DEF n, b, S
  <2>3. NextJob(n)
    BY <1>7, <2>1, <2>2 DEF NextJob
  <2> QED BY <2>3 DEF n, b
<1> QED BY <1>5, <1>8

(***************************************************************************)
(* Until build_all is over a thread can go on, for every batch and number  *)
(* of processors: the pool has a worker for the oldest job when none runs  *)
(* (buildah.py:321-352).                                                   *)
(***************************************************************************)
THEOREM SomeThreadGoesOn == Spec => []NeverStuck
<1>1. BuildInv => NeverStuck
  <2> SUFFICES ASSUME BuildInv, pc = "shutdown", ~(Current \subseteq Over), Running = {}
               PROVE  \E m \in Images : NextJob(m)
    BY DEF NeverStuck, BuildInv, TypeOK
  <2>1. PICK m \in Current : m \notin Over
    OBVIOUS
  <2>2. m \in Images /\ batch > 0 /\ batch \in Nat /\ InBatch(m, batch)
    BY <2>1, CurrentIsBatch DEF BuildInv
  <2>3. job[m] # "unsubmitted"
    BY <2>2 DEF BuildInv, BatchInv
  <2>4. job[m] = "pending"
    BY <2>1, <2>2, <2>3 DEF BuildInv, TypeOK, JobStates, Running, Over
  <2> QED BY <2>2, <2>4, IdlePoolTakesJob
<1> QED BY <1>1, BuildInvariance, PTL

\* the cases of JobLeft and MainLeft, of a state and of its successor
LEMMA JobLeftCases ==
    ASSUME NEW m
    PROVE  /\ job[m] = "unsubmitted" => JobLeft(m) = BuildAttempts + PushAttempts + 2
           /\ job[m] = "pending"     => JobLeft(m) = BuildAttempts + PushAttempts + 1
           /\ job[m] = "building"    => JobLeft(m) = BuildAttempts + PushAttempts - attempts[m]
           /\ job[m] = "pushing"     => JobLeft(m) = PushAttempts - attempts[m]
           /\ job[m] \in {"finished", "raised"} => JobLeft(m) = 0
  BY DEF JobLeft

LEMMA NextJobLeftCases ==
    ASSUME NEW m
    PROVE  /\ job'[m] = "unsubmitted" => JobLeft(m)' = BuildAttempts + PushAttempts + 2
           /\ job'[m] = "pending"     => JobLeft(m)' = BuildAttempts + PushAttempts + 1
           /\ job'[m] = "building"    => JobLeft(m)' = BuildAttempts + PushAttempts - attempts'[m]
           /\ job'[m] = "pushing"     => JobLeft(m)' = PushAttempts - attempts'[m]
           /\ job'[m] \in {"finished", "raised"} => JobLeft(m)' = 0
  BY DEF JobLeft

LEMMA MainLeftCases ==
    ASSUME NEW m
    PROVE  /\ job[m] = "unsubmitted" => MainLeft(m) = 3
           /\ job[m] # "unsubmitted" /\ m \in Current =>
                 /\ pc = "wait"     => MainLeft(m) = 3
                 /\ pc = "woken"    => MainLeft(m) = 2
                 /\ pc = "shutdown" => MainLeft(m) = 1
           /\ job[m] # "unsubmitted" /\ (m \notin Current \/ pc \in {"loop", "end"}) =>
                 MainLeft(m) = 0
  BY DEF MainLeft

LEMMA NextMainLeftCases ==
    ASSUME NEW m
    PROVE  /\ job'[m] = "unsubmitted" => MainLeft(m)' = 3
           /\ job'[m] # "unsubmitted" /\ m \in Current' =>
                 /\ pc' = "wait"     => MainLeft(m)' = 3
                 /\ pc' = "woken"    => MainLeft(m)' = 2
                 /\ pc' = "shutdown" => MainLeft(m)' = 1
           /\ job'[m] # "unsubmitted" /\ (m \notin Current' \/ pc' \in {"loop", "end"}) =>
                 MainLeft(m)' = 0
  BY DEF MainLeft

LEMMA LeftCases ==
    ASSUME NEW n \in Nodes
    PROVE  /\ n \in Images => /\ n # Root
                              /\ Left(n) = DepsLeft(n) + (JobLeft(n) + MainLeft(n))
                              /\ Left(n)' = DepsLeft(n)' + (JobLeft(n)' + MainLeft(n)')
           /\ n = Root => /\ Left(n) = DepsLeft(n) + (IF pc = "end" THEN 0 ELSE 1)
                          /\ Left(n)' = DepsLeft(n)' + (IF pc' = "end" THEN 0 ELSE 1)
           /\ n \in Images \/ n = Root
  BY RootAssumption DEF Left, Nodes

LEMMA DepsLeftRange == ASSUME NEW n PROVE DepsLeft(n) \in 0..2 /\ DepsLeft(n)' \in 0..2
  BY DEF DepsLeft

\* what is left to do about a job, and its range
LEMMA LeftRange ==
    ASSUME BuildInv, NEW m \in Images
    PROVE  /\ JobLeft(m) \in 0..(BuildAttempts + PushAttempts + 2) /\ MainLeft(m) \in 0..3
           /\ job[m] = "building" => JobLeft(m) > PushAttempts
           /\ job[m] = "pushing" => JobLeft(m) > 0
<1>1. /\ job[m] \in JobStates /\ attempts[m] \in Nat
      /\ BuildAttempts \in Nat \ {0} /\ PushAttempts \in Nat \ {0}
      /\ pc \in {"loop", "wait", "woken", "shutdown", "end"}
  BY BoundsAssumption DEF BuildInv, TypeOK
<1>2. /\ job[m] = "building" => attempts[m] < BuildAttempts
      /\ job[m] = "pushing" => attempts[m] < PushAttempts
  BY DEF BuildInv, JobInv
<1>3. /\ JobLeft(m) \in 0..(BuildAttempts + PushAttempts + 2)
      /\ job[m] = "building" => JobLeft(m) > PushAttempts
      /\ job[m] = "pushing" => JobLeft(m) > 0
  BY <1>1, <1>2, JobLeftCases DEF JobStates
<1>4. MainLeft(m) \in 0..3
  BY <1>1, MainLeftCases
<1> QED BY <1>3, <1>4

LEMMA LeftNat ==
    ASSUME BuildInv
    PROVE  \A m \in Images : JobLeft(m) \in Nat /\ MainLeft(m) \in Nat
<1> TAKE m \in Images
<1>1. JobLeft(m) \in 0..(BuildAttempts + PushAttempts + 2) /\ MainLeft(m) \in 0..3
  BY LeftRange
<1> QED BY <1>1

Counts ==
    /\ \A n \in Nodes : Left(n)' <= Left(n)
    /\ \E n \in Nodes : Left(n)' < Left(n)

LEMMA DepsLeftUnchanged ==
    ASSUME UNCHANGED depsVars, NEW n
    PROVE  DepsLeft(n)' = DepsLeft(n)
<1>1. containers' = containers /\ stack' = stack
  BY DEF depsVars
<1>2. Placed' = Placed
  BY <1>1 DEF Placed
<1> QED BY <1>1, <1>2, Zenon DEF DepsLeft

LEMMA GenerateDepsCounts == BuildInv /\ GenerateDeps => Counts
<1> SUFFICES ASSUME BuildInv, GenerateDeps PROVE Counts
  OBVIOUS
<1>1. batch = 0
  BY DEF BuildInv, GenerateDeps, DepsNext, DictItem, Return, BatchInv
<1>2. job' = job /\ attempts' = attempts /\ pc' = pc /\ batch' = batch
  BY DEF GenerateDeps, buildVars, mainVars, jobVars
<1>3. Current = {} /\ Current' = {}
  BY <1>1, <1>2 DEF Current
<1>4. \A n : JobLeft(n)' = JobLeft(n)
  BY <1>2, Zenon DEF JobLeft
<1>5. \A n : MainLeft(n)' = MainLeft(n)
  BY <1>2, <1>3 DEF MainLeft
<1>6. \A m \in Images : JobLeft(m) \in Nat /\ MainLeft(m) \in Nat
  BY LeftNat
<1>7. /\ \A n \in Nodes : DepsLeft(n)' <= DepsLeft(n)
      /\ \E n \in Nodes : DepsLeft(n)' < DepsLeft(n)
  <2>1. DepsInv /\ (DictItem \/ Return)
    BY DEF BuildInv, GenerateDeps, DepsNext
  <2>2. CASE DictItem
    BY <2>1, <2>2, DictItemCounts
  <2>3. CASE Return
    BY <2>1, <2>3, ReturnCounts
  <2> QED BY <2>1, <2>2, <2>3
<1>8. ASSUME NEW n \in Nodes
      PROVE  \E c \in Nat : Left(n) = DepsLeft(n) + c /\ Left(n)' = DepsLeft(n)' + c
  <2>1. CASE n \in Images
    <3>1. JobLeft(n) + MainLeft(n) \in Nat
      BY <1>6, <2>1
    <3> QED BY <1>4, <1>5, <2>1, <3>1, LeftCases
  <2>2. CASE n = Root
    BY <1>2, <2>2, LeftCases
  <2> QED BY <2>1, <2>2, LeftCases
<1>9. \A n \in Nodes : DepsLeft(n) \in Nat /\ DepsLeft(n)' \in Nat
  BY DepsLeftRange
<1> QED BY <1>7, <1>8, <1>9 DEF Counts

\* a step that leaves the recursion alone counts for some image, or ends
\* build_all, when it adds to the rest of none
LEMMA StepCounts ==
    ASSUME BuildInv, UNCHANGED depsVars,
           pc = "end" => pc' = "end",
           \A m \in Images : JobLeft(m)' \in Nat /\ MainLeft(m)' \in Nat,
           \A m \in Images : JobLeft(m)' <= JobLeft(m) /\ MainLeft(m)' <= MainLeft(m),
           \/ \E m \in Images : JobLeft(m)' < JobLeft(m) \/ MainLeft(m)' < MainLeft(m)
           \/ pc # "end" /\ pc' = "end"
    PROVE  Counts
<1>1. \A n : DepsLeft(n)' = DepsLeft(n) /\ DepsLeft(n) \in Nat
  BY DepsLeftUnchanged, DepsLeftRange
<1>2. \A m \in Images : JobLeft(m) \in Nat /\ MainLeft(m) \in Nat
  BY LeftNat
<1>3. ASSUME NEW m \in Images
      PROVE  /\ m \in Nodes /\ Left(m)' <= Left(m)
             /\ JobLeft(m)' < JobLeft(m) \/ MainLeft(m)' < MainLeft(m) => Left(m)' < Left(m)
  BY <1>1, <1>2, LeftCases DEF Nodes
<1>4. /\ Root \in Nodes /\ Left(Root)' <= Left(Root)
      /\ pc # "end" /\ pc' = "end" => Left(Root)' < Left(Root)
  <2>1. Root \in Nodes
    BY DEF Nodes
  <2>2. DepsLeft(Root)' = DepsLeft(Root) /\ DepsLeft(Root) \in Nat
    BY <1>1
  <2> QED BY <2>1, <2>2, LeftCases
<1>5. \A n \in Nodes : n \in Images \/ n = Root
  BY DEF Nodes
<1> QED BY <1>3, <1>4, <1>5 DEF Counts

LEMMA SubmitBatchCounts == BuildInv /\ SubmitBatch => Counts
<1> SUFFICES ASSUME BuildInv, SubmitBatch PROVE Counts
  OBVIOUS
<1>1. /\ pc = "loop" /\ pc' = "wait" /\ batch' = batch + 1 /\ UNCHANGED depsVars
      /\ containers' = containers /\ attempts' = attempts
  BY DEF SubmitBatch, depsVars
<1>2. batch \in Nat /\ Len(containers) \in Nat /\ batch + 1 \in 1..Len(containers)
  BY CurrentIsBatch DEF BuildInv, SubmitBatch
<1>3. \A m \in Images : job'[m] = IF InBatch(m, batch + 1) THEN "pending" ELSE job[m]
  BY <1>2 DEF SubmitBatch, InBatch
<1>4. \A m : m \in Current' <=> InBatch(m, batch + 1)
  BY <1>1, <1>2 DEF Current, InBatch
<1>5. \A m \in Images : InBatch(m, batch + 1) => job[m] = "unsubmitted"
  BY <1>2, NextBatchUnsubmitted
<1>6. BuildAttempts + PushAttempts \in Nat
  BY BoundsAssumption
<1>7. ASSUME NEW m \in Images, InBatch(m, batch + 1)
      PROVE  /\ JobLeft(m) = BuildAttempts + PushAttempts + 2 /\ MainLeft(m) = 3
             /\ JobLeft(m)' = BuildAttempts + PushAttempts + 1 /\ MainLeft(m)' = 3
  BY <1>1, <1>3, <1>4, <1>5, <1>7, JobLeftCases, MainLeftCases, NextJobLeftCases, NextMainLeftCases
<1>8. ASSUME NEW m \in Images, ~InBatch(m, batch + 1)
      PROVE  JobLeft(m)' = JobLeft(m) /\ MainLeft(m)' = MainLeft(m)
  <2>1. JobLeft(m)' = JobLeft(m)
    BY <1>1, <1>3, <1>8 DEF JobLeft
  <2>2. MainLeft(m)' = MainLeft(m)
    BY <1>1, <1>3, <1>4, <1>8, MainLeftCases, NextMainLeftCases
  <2> QED BY <2>1, <2>2
<1>9. \A m \in Images : /\ JobLeft(m)' \in Nat /\ MainLeft(m)' \in Nat
                        /\ JobLeft(m)' <= JobLeft(m) /\ MainLeft(m)' <= MainLeft(m)
  BY <1>6, <1>7, <1>8, LeftRange
<1>10. PICK m \in Images : InBatch(m, batch + 1)
  <2>1. containers[batch + 1] \in Seq(Images) /\ containers[batch + 1] # <<>>
    BY <1>2 DEF BuildInv, TypeOK, DepsTypeOK, DepsInv, NoEmptyBatch
  <2>2. Elements(containers[batch + 1]) \subseteq Images /\ Elements(containers[batch + 1]) # {}
    BY <2>1, ElementsInType
  <2> QED BY <1>2, <2>2 DEF InBatch
<1>11. JobLeft(m)' < JobLeft(m)
  BY <1>6, <1>7, <1>10
<1> QED BY <1>1, <1>9, <1>11, StepCounts

\* the main thread sees its batch through
LEMMA MainStepCounts == BuildInv /\ (WaitWakes \/ WaitReturns \/ CheckJobs \/ Finish) => Counts
<1> SUFFICES ASSUME BuildInv, WaitWakes \/ WaitReturns \/ CheckJobs \/ Finish PROVE Counts
  OBVIOUS
<1>1. /\ UNCHANGED depsVars /\ job' = job /\ attempts' = attempts
      /\ batch' = batch /\ containers' = containers
  BY DEF WaitWakes, WaitReturns, CheckJobs, Finish, depsVars, jobVars
<1>2. \/ pc = "wait" /\ pc' = "woken"
      \/ pc = "woken" /\ pc' = "shutdown"
      \/ pc = "shutdown" /\ pc' \in {"loop", "end"}
      \/ pc = "loop" /\ pc' = "end"
  BY DEF WaitWakes, WaitReturns, CheckJobs, Finish
<1>3. Current' = Current
  BY <1>1 DEF Current
<1>4. \A m \in Images : JobLeft(m)' = JobLeft(m)
  BY <1>1, Zenon DEF JobLeft
<1>5. ASSUME NEW m \in Images
      PROVE  /\ MainLeft(m)' \in Nat /\ MainLeft(m)' <= MainLeft(m)
             /\ m \in Current /\ job[m] # "unsubmitted" /\ pc # "loop" => MainLeft(m)' < MainLeft(m)
  BY <1>1, <1>2, <1>3, MainLeftCases, NextMainLeftCases
<1>6. pc # "loop" => \E m \in Images : MainLeft(m)' < MainLeft(m)
  <2> SUFFICES ASSUME pc # "loop" PROVE \E m \in Images : m \in Current /\ job[m] # "unsubmitted"
    BY <1>5
  <2>1. batch > 0 /\ batch \in 1..Len(containers) /\ batch \in 1..batch
    BY <1>2, CurrentIsBatch DEF BuildInv, MainInv
  <2>2. containers[batch] \in Seq(Images) /\ containers[batch] # <<>>
    BY <2>1 DEF BuildInv, TypeOK, DepsTypeOK, DepsInv, NoEmptyBatch
  <2>3. PICK m \in Images : m \in Elements(containers[batch])
    BY <2>2, ElementsInType
  <2>4. m \in Current /\ InBatch(m, batch)
    BY <2>1, <2>3 DEF Current, InBatch
  <2> QED BY <2>1, <2>4 DEF BuildInv, BatchInv
<1>7. \A m \in Images : JobLeft(m)' \in Nat /\ JobLeft(m)' <= JobLeft(m)
  BY <1>4, LeftRange, BoundsAssumption
<1> QED BY <1>1, <1>2, <1>5, <1>6, <1>7, StepCounts

\* a job takes a step: it is nearer to its end, the rest is as it was
LEMMA WorkCounts ==
    ASSUME NEW n \in Images
    PROVE  BuildInv /\ Work(n) => Counts
<1> SUFFICES ASSUME BuildInv, Work(n) PROVE Counts
  OBVIOUS
<1>1. UNCHANGED depsVars /\ pc' = pc /\ batch' = batch /\ job[n] \in Active
  BY DEF Work, TakeJob, NextJob, BuildReturns, BuildSucceeds, BuildFails, PushReturns,
         PushSucceeds, PushFails, Active, mainVars
<1>2. n \in Current /\ job \in [Images -> JobStates] /\ attempts \in [Images -> Nat]
  BY <1>1, ActiveInCurrent DEF BuildInv, TypeOK
<1>3. \A m \in Images : m # n => job'[m] = job[m] /\ attempts'[m] = attempts[m]
  BY <1>2 DEF Work, TakeJob, NextJob, BuildReturns, BuildSucceeds, BuildFails, PushReturns,
         PushSucceeds, PushFails, AttemptFails, Become
<1>4. Current' = Current
  BY <1>1 DEF Current, depsVars
<1>5. job'[n] \in {"building", "pushing", "finished", "raised"}
  BY <1>1, <1>2 DEF Work, TakeJob, NextJob, BuildReturns, BuildSucceeds, BuildFails, PushReturns,
         PushSucceeds, PushFails, AttemptFails, Become
<1>6. BuildAttempts \in Nat \ {0} /\ PushAttempts \in Nat \ {0}
  BY BoundsAssumption
<1>7. JobLeft(n)' \in Nat /\ JobLeft(n)' < JobLeft(n)
  <2>1. CASE TakeJob(n)
    <3>1. job[n] = "pending" /\ job'[n] \in {"building", "finished"} /\ attempts'[n] = attempts[n]
      BY <1>2, <2>1 DEF TakeJob, NextJob, Become
    <3>2. attempts[n] = 0
      BY <3>1 DEF BuildInv, JobInv
    <3> QED BY <1>6, <3>1, <3>2, JobLeftCases, NextJobLeftCases
  <2>2. CASE BuildSucceeds(n)
    <3>1. /\ job[n] = "building" /\ job'[n] \in {"pushing", "finished"}
          /\ attempts'[n] = 0
      BY <1>2, <2>2 DEF BuildSucceeds, Become
    <3>2. attempts[n] < BuildAttempts /\ attempts[n] \in Nat
      BY <1>2, <3>1 DEF BuildInv, JobInv
    <3> QED BY <1>6, <3>1, <3>2, JobLeftCases, NextJobLeftCases
  <2>3. CASE BuildFails(n) \/ PushFails(n)
    <3>1. /\ job[n] \in {"building", "pushing"} /\ job'[n] \in {job[n], "raised"}
          /\ attempts'[n] = attempts[n] + 1
          /\ job'[n] = "building" => attempts'[n] # BuildAttempts
          /\ job'[n] = "pushing" => attempts'[n] # PushAttempts
      BY <1>2, <2>3 DEF BuildFails, PushFails, AttemptFails, Become
    <3>2. /\ attempts[n] \in Nat
          /\ job[n] = "building" => attempts[n] < BuildAttempts
          /\ job[n] = "pushing" => attempts[n] < PushAttempts
      BY <1>2 DEF BuildInv, JobInv
    <3>3. CASE job'[n] = "raised"
      BY <1>6, <3>1, <3>2, <3>3, JobLeftCases, NextJobLeftCases
    <3>4. CASE job'[n] = job[n]
      BY <1>6, <3>1, <3>2, <3>4, JobLeftCases, NextJobLeftCases
    <3> QED BY <3>1, <3>3, <3>4
  <2>4. CASE PushSucceeds(n)
    <3>1. job[n] = "pushing" /\ job'[n] = "finished"
      BY <1>2, <2>4 DEF PushSucceeds, Become
    <3>2. attempts[n] < PushAttempts /\ attempts[n] \in Nat
      BY <1>2, <3>1 DEF BuildInv, JobInv
    <3> QED BY <1>6, <3>1, <3>2, JobLeftCases, NextJobLeftCases
  <2> QED BY <2>1, <2>2, <2>3, <2>4 DEF Work, BuildReturns, PushReturns
<1>8. \A m \in Images : JobLeft(m) \in Nat /\ MainLeft(m) \in Nat
  BY LeftNat
<1>9. ASSUME NEW m \in Images PROVE MainLeft(m)' = MainLeft(m)
  <2>1. job'[m] = "unsubmitted" <=> job[m] = "unsubmitted"
    BY <1>1, <1>3, <1>5 DEF Active
  <2> QED BY <1>1, <1>4, <2>1 DEF MainLeft
<1>10. ASSUME NEW m \in Images PROVE JobLeft(m)' \in Nat /\ JobLeft(m)' <= JobLeft(m)
  <2>1. CASE m = n
    BY <1>7, <1>8, <2>1
  <2>2. CASE m # n
    <3>1. JobLeft(m)' = JobLeft(m)
      BY <1>3, <2>2 DEF JobLeft
    <3> QED BY <1>8, <3>1
  <2> QED BY <2>1, <2>2
<1> QED BY <1>1, <1>7, <1>8, <1>9, <1>10, StepCounts

(***************************************************************************)
(* Every step of any thread takes from what is left to do about some image *)
(* and adds to none, for every tree, number of attempts and schedule       *)
(* (buildah.py:155-160, 193-198, 246-310).                                 *)
(***************************************************************************)
THEOREM StepsCount == Spec => EveryStepCounts
<1>1. BuildInv /\ [Next]_vars =>
        [/\ \A n \in Nodes : Left(n)' <= Left(n)
         /\ \E n \in Nodes : Left(n)' < Left(n)]_vars
  <2> SUFFICES ASSUME BuildInv, Next, ~UNCHANGED vars PROVE Counts
    BY DEF Counts
  <2>1. CASE GenerateDeps
    BY <2>1, GenerateDepsCounts
  <2>2. CASE Main
    BY <2>2, SubmitBatchCounts, MainStepCounts DEF Main
  <2>3. ASSUME NEW m \in Images, Work(m) PROVE Counts
    BY <2>3, WorkCounts
  <2> QED BY <2>1, <2>2, <2>3 DEF Next, Terminated
<1> QED BY <1>1, BuildInvariance, PTL DEF Spec, EveryStepCounts

(***************************************************************************)
(* What is left to do about an image is never more than a number that      *)
(* depends on the attempts alone; with StepsCount, build_all takes no more *)
(* steps than there are images, times that number, whatever fails.         *)
(***************************************************************************)
THEOREM LeftBounded ==
    Spec => [](\A n \in Nodes : Left(n) \in 0..(BuildAttempts + PushAttempts + 7))
<1>1. BuildInv => \A n \in Nodes : Left(n) \in 0..(BuildAttempts + PushAttempts + 7)
  <2> SUFFICES ASSUME BuildInv, NEW n \in Nodes
               PROVE  Left(n) \in 0..(BuildAttempts + PushAttempts + 7)
    OBVIOUS
  <2>1. BuildAttempts \in Nat /\ PushAttempts \in Nat /\ DepsLeft(n) \in 0..2
    BY BoundsAssumption, DepsLeftRange
  <2>2. CASE n \in Images
    <3>1. JobLeft(n) \in 0..(BuildAttempts + PushAttempts + 2) /\ MainLeft(n) \in 0..3
      BY <2>2, LeftRange
    <3> QED BY <2>1, <2>2, <3>1, LeftCases
  <2>3. CASE n = Root
    BY <2>1, <2>3, LeftCases
  <2> QED BY <2>2, <2>3, LeftCases
<1> QED BY <1>1, BuildInvariance, PTL
=============================================================================
