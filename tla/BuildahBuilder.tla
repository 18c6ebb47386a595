--------------------------- MODULE BuildahBuilder ---------------------------
(***************************************************************************)
(* BuildahBuilder.build_all (tcib/builder/buildah.py): the batches of      *)
(* BuildahDeps are built one after the other, the images of a batch by a   *)
(* thread pool.  Actors: the main thread (build_all and _multi_build), the *)
(* workers of the pool (_generate_container: build then push, each         *)
(* retried), and the timer of futures.wait.                                *)
(*                                                                         *)
(* External and nondeterministic: whether a `buildah bud' or a             *)
(* `buildah push' succeeds, and whether a push that reported an error has  *)
(* stored the image in the registry nevertheless.                          *)
(***************************************************************************)
EXTENDS BuildahDeps, FiniteSets

CONSTANTS
    ExcludeSets,    \* the values of self.excludes considered
    ContMaps,       \* the domains of self.cont_map considered
    WorkerCount,    \* processutils.get_worker_count()
    BuildAttempts,  \* stop_after_attempt of build, 5 in the code
    PushAttempts    \* stop_after_attempt of push, 10 in the code

ASSUME InputsAssumption ==
    ExcludeSets \subseteq SUBSET Images /\ ContMaps \subseteq SUBSET Images
ASSUME BoundsAssumption ==
    /\ WorkerCount \in Nat
    /\ BuildAttempts \in Nat \ {0}
    /\ PushAttempts \in Nat \ {0}

VARIABLES
    excludes,         \* self.excludes, never changed
    cont_map,         \* names with a Containerfile in work_dir, never changed
    push_containers,  \* self.push_containers, never changed
    pc,               \* where the main thread is
    batch,            \* how many batches were submitted
    job,              \* state of the future of each image
    attempts,         \* failed attempts of the retried call an image is in
    done,             \* what futures.wait returned as done
    timedOut,         \* the timeout of futures.wait expired for this batch
    built,            \* images tagged in the local storage
    pushed,           \* images the registry holds
    outcome           \* how build_all ended

inputs    == <<excludes, cont_map, push_containers>>
mainVars  == <<pc, batch, done, timedOut, outcome>>
jobVars   == <<job, attempts, built, pushed>>
buildVars == <<inputs, mainVars, jobVars>>
vars      == <<depsVars, buildVars>>

JobStates == {"unsubmitted", "pending", "building", "pushing", "finished", "raised"}

Init ==
    /\ DepsInit
    /\ excludes \in ExcludeSets
    /\ cont_map \in ContMaps
    /\ push_containers \in BOOLEAN
    /\ pc = "loop"
    /\ batch = 0
    /\ job = [m \in Images |-> "unsubmitted"]
    /\ attempts = [m \in Images |-> 0]
    /\ done = {}
    /\ timedOut = FALSE
    /\ built = {}
    /\ pushed = {}
    /\ outcome = "none"

Current == IF batch = 0 THEN {} ELSE Elements(containers[batch])

Running == {m \in Images : job[m] \in {"building", "pushing"}}
Over    == {m \in Images : job[m] \in {"finished", "raised"}}
Raised  == {m \in Images : job[m] = "raised"}

Min2(a, b) == IF a < b THEN a ELSE b
Max2(a, b) == IF a > b THEN a ELSE b

\* the number of threads for a batch
\* (mutated form: one core is left to the main thread)
M_Workers(b) == Min2(Min2(8, WorkerCount - 1), Len(containers[b]))
Workers(b) == Min2(Min2(8, Max2(2, WorkerCount)), Len(containers[b]))

Become(m, s) == job' = [job EXCEPT ![m] = s]

----------------------------------------------------------------------------
(* The main thread *)

\* build_all first computes all batches
GenerateDeps == DepsNext /\ UNCHANGED buildVars

\* _multi_build submits one job for every image of the next batch
SubmitBatch ==
    /\ pc = "loop"
    /\ stack = <<>>
    /\ batch < Len(containers)
    /\ batch' = batch + 1
    /\ job' = [m \in Images |-> IF m \in Elements(containers[batch + 1])
                                THEN "pending" ELSE job[m]]
    /\ done' = {}
    /\ timedOut' = FALSE
    /\ pc' = "wait"
    /\ UNCHANGED <<depsVars, inputs, attempts, built, pushed, outcome>>

\* futures.wait wakes up: every job is over, or one raised, or the timer
\* expired.  It has then seen the jobs that are over.
WaitWakes ==
    /\ pc = "wait"
    /\ timedOut' = ~(Current \subseteq Over \/ Current \cap Raised # {})
    /\ done' = Current \cap Over
    /\ pc' = "woken"
    /\ UNCHANGED <<depsVars, inputs, jobVars, batch, outcome>>

\* ... and collects, while it withdraws its waiters one by one, any of the
\* jobs that ended in the meantime.
\* (mutated form: every future counts as done)
M_WaitReturns ==
    /\ pc = "woken"
    /\ done' = Current
    /\ pc' = "shutdown"
    /\ UNCHANGED <<depsVars, inputs, jobVars, batch, timedOut, outcome>>
WaitReturns ==
    /\ pc = "woken"
    /\ \E late \in SUBSET ((Current \cap Over) \ done) : done' = done \cup late
    /\ pc' = "shutdown"
    /\ UNCHANGED <<depsVars, inputs, jobVars, batch, timedOut, outcome>>

\* Leaving the `with' block waits for every submitted job, whatever woke
\* the main thread; then the jobs futures.wait returned are examined.
\* (mutated forms: exceptions not examined; not_done not examined; the pool
\* shut down without waiting)
M_CheckNoExceptions ==
    /\ pc = "shutdown"
    /\ Current \subseteq Over
    /\ outcome' = IF Current \ done # {} THEN "SystemError" ELSE outcome
    /\ pc' = IF outcome' = "none" THEN "loop" ELSE "end"
    /\ UNCHANGED <<depsVars, inputs, jobVars, batch, done, timedOut>>
M_CheckNoNotDone ==
    /\ pc = "shutdown"
    /\ Current \subseteq Over
    /\ outcome' = IF done \cap Raised # {} THEN "RuntimeError" ELSE outcome
    /\ pc' = IF outcome' = "none" THEN "loop" ELSE "end"
    /\ UNCHANGED <<depsVars, inputs, jobVars, batch, done, timedOut>>
M_CheckNoWait ==
    /\ pc = "shutdown"
    /\ outcome' = IF done \cap Raised # {} THEN "RuntimeError"
                  ELSE IF Current \ done # {} THEN "SystemError"
                  ELSE outcome
    /\ pc' = IF outcome' = "none" THEN "loop" ELSE "end"
    /\ UNCHANGED <<depsVars, inputs, jobVars, batch, done, timedOut>>
CheckJobs ==
    /\ pc = "shutdown"
    /\ Current \subseteq Over
    /\ outcome' = IF done \cap Raised # {} THEN "RuntimeError"
                  ELSE IF Current \ done # {} THEN "SystemError"
                  ELSE outcome
    /\ pc' = IF outcome' = "none" THEN "loop" ELSE "end"
    /\ UNCHANGED <<depsVars, inputs, jobVars, batch, done, timedOut>>

Finish ==
    /\ pc = "loop"
    /\ stack = <<>>
    /\ batch = Len(containers)
    /\ outcome' = "success"
    /\ pc' = "end"
    /\ UNCHANGED <<depsVars, inputs, jobVars, batch, done, timedOut>>

----------------------------------------------------------------------------
(* The workers *)

\* a worker is free, and m is the oldest job
NextJob(m) ==
    /\ job[m] = "pending"
    /\ Cardinality(Running) < Workers(batch)
    /\ \E i \in 1..Len(containers[batch]) :
          /\ containers[batch][i] = m
          /\ \A j \in 1..(i - 1) : job[containers[batch][j]] # "pending"

\* A free worker takes the oldest job; _generate_container returns at once
\* for an excluded image.
\* (mutated form: one worker too few)
M_TakeJob(m) ==
    /\ job[m] = "pending"
    /\ Cardinality(Running) < Workers(batch) - 1
    /\ \E i \in 1..Len(containers[batch]) :
          /\ containers[batch][i] = m
          /\ \A j \in 1..(i - 1) : job[containers[batch][j]] # "pending"
    /\ Become(m, IF m \in excludes THEN "finished" ELSE "building")
    /\ UNCHANGED <<depsVars, inputs, mainVars, attempts, built, pushed>>
TakeJob(m) ==
    /\ NextJob(m)
    /\ Become(m, IF m \in excludes THEN "finished" ELSE "building")
    /\ UNCHANGED <<depsVars, inputs, mainVars, attempts, built, pushed>>

\* `buildah bud' exits with 0.  Without a Containerfile the directory passed
\* to it is '', where there is nothing to build.
BuildSucceeds(m) ==
    /\ job[m] = "building"
    /\ m \in cont_map
    /\ built' = built \cup {m}
    /\ attempts' = [attempts EXCEPT ![m] = 0]
    /\ Become(m, IF push_containers THEN "pushing" ELSE "finished")
    /\ UNCHANGED <<depsVars, inputs, mainVars, pushed>>

\* One more attempt failed; after the last one the exception leaves the job.
\* (mutated form: every call of the function counts from the start)
M_AttemptFails(m, bound) ==
    /\ attempts' = [attempts EXCEPT ![m] = 1]
    /\ Become(m, IF attempts'[m] = bound THEN "raised" ELSE job[m])
AttemptFails(m, bound) ==
    /\ attempts' = [attempts EXCEPT ![m] = @ + 1]
    /\ Become(m, IF attempts'[m] = bound THEN "raised" ELSE job[m])

BuildFails(m) ==
    /\ job[m] = "building"
    /\ AttemptFails(m, BuildAttempts)
    /\ UNCHANGED <<depsVars, inputs, mainVars, built, pushed>>

PushSucceeds(m) ==
    /\ job[m] = "pushing"
    /\ pushed' = pushed \cup {m}
    /\ Become(m, "finished")
    /\ UNCHANGED <<depsVars, inputs, mainVars, attempts, built>>

\* (mutated form: the exception of a failed push is swallowed)
M_PushFails(m) ==
    /\ job[m] = "pushing"
    /\ attempts' = [attempts EXCEPT ![m] = @ + 1]
    /\ Become(m, IF attempts'[m] = PushAttempts THEN "finished" ELSE "pushing")
    /\ pushed' \in {pushed, pushed \cup {m}}
    /\ UNCHANGED <<depsVars, inputs, mainVars, built>>

PushFails(m) ==
    /\ job[m] = "pushing"
    /\ AttemptFails(m, PushAttempts)
    /\ pushed' \in {pushed, pushed \cup {m}}
    /\ UNCHANGED <<depsVars, inputs, mainVars, built>>

BuildReturns(m) == BuildSucceeds(m) \/ BuildFails(m)
PushReturns(m)  == PushSucceeds(m) \/ PushFails(m)

Main == SubmitBatch \/ WaitWakes \/ WaitReturns \/ CheckJobs \/ Finish

Work(m) == TakeJob(m) \/ BuildReturns(m) \/ PushReturns(m)

\* nothing happens after build_all (keeps TLC's deadlock check meaningful)
Terminated == pc = "end" /\ UNCHANGED vars

Next == GenerateDeps \/ Main \/ (\E m \in Images : Work(m)) \/ Terminated

\* Python threads are scheduled fairly ...
Scheduling ==
    /\ WF_vars(GenerateDeps)
    /\ WF_vars(Main)
    /\ \A m \in Images : WF_vars(TakeJob(m))

\* ... and a buildah command is assumed to return, one way or the other
CommandsReturn == \A m \in Images : WF_vars(BuildReturns(m)) /\ WF_vars(PushReturns(m))

Spec == Init /\ [][Next]_vars

FairSpec == Spec /\ Scheduling /\ CommandsReturn

\* a buildah command may hang, but Python does not
HangSpec == Spec /\ Scheduling

----------------------------------------------------------------------------
(* Properties *)

TypeOK ==
    /\ DepsTypeOK
    /\ excludes \in SUBSET Images
    /\ cont_map \in SUBSET Images
    /\ push_containers \in BOOLEAN
    /\ pc \in {"loop", "wait", "woken", "shutdown", "end"}
    /\ batch \in 0..Len(containers)
    /\ job \in [Images -> JobStates]
    /\ attempts \in [Images -> Nat]
    /\ done \in SUBSET Images
    /\ timedOut \in BOOLEAN
    /\ built \in SUBSET Images
    /\ pushed \in SUBSET Images
    /\ outcome \in {"none", "success", "RuntimeError", "SystemError"}

\* an image is where a build of a child can find it
Available(m) == m \in built /\ (push_containers => m \in pushed)

(***************************************************************************)
(* A job that started has its parent image: unless the parent is excluded, *)
(* it has been built, and pushed when images are pushed, so the FROM line  *)
(* of the Containerfile resolves (buildah.py:248-251).                     *)
(***************************************************************************)
ParentAvailable ==
    \A m \in Images :
        /\ job[m] \in {"building", "pushing", "finished", "raised"}
        /\ deps.parent[m] \notin excludes \cup {Root}
        => Available(deps.parent[m])

(***************************************************************************)
(* build_all returns normally only when every image that is not excluded   *)
(* was built and, if asked for, pushed, and no excluded one was touched    *)
(* (buildah.py:352-387): no failed, late or forgotten job is lost.         *)
(***************************************************************************)
SuccessMeansAllBuilt ==
    /\ outcome = "success" => \A m \in Images \ excludes : Available(m)
    /\ (built \cup pushed) \cap excludes = {}

(***************************************************************************)
(* When build_all is over, whatever its outcome, no buildah command runs   *)
(* and no job waits for a worker (the `with' of buildah.py:335): the       *)
(* caller may remove or reuse what the workers use.                        *)
(***************************************************************************)
NoJobLeftBehind ==
    pc \in {"loop", "end"} => \A m \in Images : job[m] \notin {"pending", "building", "pushing"}

(***************************************************************************)
(* After a batch with a failed or unseen job no later batch is submitted:  *)
(* the jobs of all earlier batches have finished (buildah.py:352-387).     *)
(***************************************************************************)
EarlierBatchesFinished ==
    \A b \in 1..(batch - 1) : \A m \in Elements(containers[b]) : job[m] = "finished"

(***************************************************************************)
(* Whatever happened, failures and lost acknowledgements included, the     *)
(* registry never holds an image without the image it is FROM, unless that *)
(* one is excluded (buildah.py:145-151, 248-251).                          *)
(***************************************************************************)
RegistryClosed ==
    \A m \in pushed : deps.parent[m] \in pushed \cup excludes \cup {Root}

(***************************************************************************)
(* A job that is over never starts again, so no tag is built twice, and an *)
(* image goes to the registry only after its build (buildah.py:145-148).   *)
(***************************************************************************)
NoRebuild ==
    [][\A m \in Images : /\ m \in Over => job'[m] = job[m]
                         /\ m \in pushed' \ pushed => m \in built]_vars

(***************************************************************************)
(* Unless build_all is over, some thread can go on (buildah.py:328-352):   *)
(* the main thread leaves the `with' block, or waits there for a job that  *)
(* runs or that a worker of the pool is free to take.                      *)
(***************************************************************************)
NeverStuck ==
    pc # "end" =>
        \/ stack # <<>>
        \/ pc \in {"loop", "wait", "woken"}
        \/ pc = "shutdown" /\ Current \subseteq Over
        \/ Running # {}
        \/ \E m \in Images : NextJob(m)

\* the steps the workers, and the main thread for its batch, have still to
\* make about an image at most
JobLeft(m) ==
    CASE job[m] = "unsubmitted" -> BuildAttempts + PushAttempts + 2
      [] job[m] = "pending"     -> BuildAttempts + PushAttempts + 1
      [] job[m] = "building"    -> BuildAttempts + PushAttempts - attempts[m]
      [] job[m] = "pushing"     -> PushAttempts - attempts[m]
      [] OTHER                  -> 0

MainLeft(m) ==
    IF job[m] = "unsubmitted" THEN 3
    ELSE IF m \notin Current THEN 0
    ELSE CASE pc = "wait" -> 3 [] pc = "woken" -> 2 [] pc = "shutdown" -> 1 [] OTHER -> 0

\* ... and all of them together; the end of build_all counts for the root
Left(n) ==
    DepsLeft(n) + IF n # Root THEN JobLeft(n) + MainLeft(n)
                  ELSE IF pc = "end" THEN 0 ELSE 1

(***************************************************************************)
(* Every step of any thread brings the build nearer to its end: it takes   *)
(* from what is left to do about some image, and adds to none (buildah.py: *)
(* 155-160, 193-198, the retries, and 246-310).  So no behaviour, whatever *)
(* fails in it, goes on for ever.                                          *)
(***************************************************************************)
EveryStepCounts ==
    [][/\ \A n \in Nodes : Left(n)' <= Left(n)
       /\ \E n \in Nodes : Left(n)' < Left(n)]_vars

(***************************************************************************)
(* If buildah commands return, build_all returns or raises.                *)
(***************************************************************************)
Termination == <>(pc = "end")

(***************************************************************************)
(* build_all implements the abstract promise OrderedBuild, in which there  *)
(* are no batches, threads, retries or timers (buildah.py:233-387).        *)
(***************************************************************************)
AbsStatus ==
    [m \in Images |-> IF job[m] \in {"unsubmitted", "pending"} THEN "waiting"
                      ELSE IF job[m] \in {"building", "pushing"} THEN "working"
                      ELSE IF job[m] = "raised" THEN "failed"
                      ELSE IF m \in excludes THEN "skipped" ELSE "ready"]

AbsVerdict == IF outcome \in {"none", "success"} THEN outcome ELSE "failure"

Ordered == INSTANCE OrderedBuild WITH
    parent <- deps.parent, skip <- excludes, status <- AbsStatus, verdict <- AbsVerdict

ImplementsOrderedBuild == Ordered!Spec

(***************************************************************************)
(* The inductive invariant, in three parts.                                *)
(***************************************************************************)
\* Batches: all are computed before the first is submitted; the jobs of the
\* submitted batches, and only those, were submitted; all but the last are
\* finished, and so is the last when the main thread is between batches.
BatchInv ==
    /\ stack # <<>> => batch = 0 /\ pc = "loop"
    /\ \A m \in Images : job[m] # "unsubmitted" <=> \E b \in 1..batch : InBatch(m, b)
    /\ EarlierBatchesFinished
    /\ pc = "loop" \/ outcome = "success" => \A m \in Current : job[m] = "finished"
    /\ pc = "end" => Current \subseteq Over

\* The main thread: what futures.wait returned, and what follows from it.
\* Only a timeout makes SystemError, only a failed job RuntimeError.
WhyItFailed ==
    /\ outcome = "SystemError" => timedOut
    /\ outcome = "RuntimeError" => Raised # {}

MainInv ==
    /\ outcome = "none" <=> pc # "end"
    /\ pc \in {"wait", "woken", "shutdown"} => batch > 0
    /\ pc \in {"woken", "shutdown"} =>
          /\ done \subseteq Current \cap Over
          /\ timedOut \/ Current \subseteq done \/ done \cap Raised # {}
    /\ outcome = "success" => stack = <<>> /\ batch = Len(containers)
    /\ WhyItFailed

\* Jobs: what the state of a job says about the image and its attempts.
JobInv ==
    \A m \in Images :
        /\ m \in pushed => m \in built /\ push_containers
        /\ m \in built => m \notin excludes /\ job[m] \in {"pushing", "finished", "raised"}
        /\ job[m] = "finished" => m \in excludes \/ Available(m)
        /\ job[m] \in {"building", "raised"} => m \notin excludes
        /\ job[m] = "building" => attempts[m] < BuildAttempts
        /\ job[m] = "pushing" => m \in built /\ push_containers /\ attempts[m] < PushAttempts
        /\ job[m] \in {"unsubmitted", "pending"} => attempts[m] = 0
        /\ job[m] = "raised" => attempts[m] = IF m \in built THEN PushAttempts ELSE BuildAttempts

BuildInv == TypeOK /\ DepsInv /\ BatchInv /\ MainInv /\ JobInv

(***************************************************************************)
(* container_image.py:270-277, the help of --build-timeout: "Build timeout *)
(* in seconds".  Once the timer has expired the build comes to an end.     *)
(***************************************************************************)
TimeoutEndsBuild == timedOut ~> pc = "end"

(***************************************************************************)
(* buildah.py:347-351: "If any jobs failed a SystemError will be raised    *)
(* using the exception information."  It is the one exception of build_all *)
(* that container_image.py:773 catches and logs.                           *)
(***************************************************************************)
FailureRaisesSystemError == pc = "end" /\ Raised # {} => outcome = "SystemError"
=============================================================================
