-------------------------- MODULE AcceleratedBatch --------------------------
(***************************************************************************)
(* The accelerated workflows: a batch run validates the days it was asked  *)
(* for, computes each of them in a job of its own without the release      *)
(* lock, hands the bundle over as an artifact of Actions and publishes it  *)
(* in a second job that queues for the concurrency group of the release.   *)
(* Jobs of the other workflows use the same group.  A run whose jobs have  *)
(* ended may be run again, all of it or its failed jobs only.              *)
(*                                                                         *)
(* Bundles grow old while their publishers queue, which they do while some *)
(* job holds the group: only that time is counted, in units of which a     *)
(* publisher has PublishLimit.  Actions loses no time in giving a free     *)
(* group to the next job of its queue.                                     *)
(*                                                                         *)
(* Publication models what happens inside a publisher: here a partition is *)
(* published in one step.                                                  *)
(***************************************************************************)
EXTENDS Naturals, Sequences, FiniteSets, SequencesExt

CONSTANTS
  Runs,          \* runs of the batch workflow
  Days,          \* the UTC days of one release group
  Partitions,    \* the partitions of a day
  Requested,     \* run -> the days of its REQUESTED_MATRIX
  MaxParallel,   \* max-parallel of the matrix (6)
  PublishLimit,  \* timeout-minutes of a publisher (60)
  ForeignLimit,  \* timeout-minutes of a job of another workflow
  Retention,     \* retention-days of a bundle (1 day)
  MaxAttempts,   \* bound: attempts of a run
  MaxForeign,    \* bound: jobs of other workflows
  MaxBroken,     \* bound: jobs that break
  Foreign,       \* a job of another workflow
  None

\* Why a job may fail.
Reasons == {"conflict", "missing", "expired", "coverage", "deleted", "broken"}

\* A day of a batch: two jobs.
Legs == {l \in Runs \X Days : l[2] \in Requested[l[1]]}

ASSUME AcceleratedBatchAssumption ==
  /\ None # Foreign /\ None \notin Legs \cup Reasons /\ Foreign \notin Legs
  /\ IsFiniteSet(Runs) /\ IsFiniteSet(Days) /\ IsFiniteSet(Partitions)
  /\ Requested \in [Runs -> SUBSET Days]
  /\ MaxParallel \in Nat \ {0} /\ PublishLimit \in Nat \ {0} /\ ForeignLimit \in Nat
  /\ MaxAttempts \in Nat \ {0} /\ MaxForeign \in Nat /\ MaxBroken \in Nat
  /\ Retention \in Nat
  \* The publishers that may queue at once take less than a bundle lives: a half
  \* month has 16 days, of an hour each.
  /\ Cardinality(Legs) * PublishLimit < Retention

VARIABLES
  durable,   \* the durable partitions: <<day, partition>>
  attempt,   \* run -> github.run_attempt, 0 before the dispatch
  stage,     \* leg -> where the two jobs of the day are
  assigned,  \* leg -> the partitions of its row of the matrix
  computed,  \* leg -> the attempt in which its compute job succeeded, or 0
  why,       \* leg -> why it failed
  bundles,   \* the artifacts: [name, parts, age]
  queue,     \* the jobs that wait for the concurrency group
  lock,      \* the job that holds it, or None
  held,      \* for how long
  foreign,   \* the jobs of other workflows so far
  broken     \* the jobs that broke so far

legVars   == <<stage, assigned, computed, why>>
groupVars == <<queue, lock, held, foreign, broken>>
vars == <<durable, attempt, legVars, bundles, groupVars>>

Ended  == {"idle", "done", "failed"}
Active == {"ready", "compute", "waiting", "queued", "retrieve", "publish", "delete"}

Init ==
  /\ durable = {}
  /\ attempt = [r \in Runs |-> 0]
  /\ stage = [l \in Legs |-> "idle"]
  /\ assigned = [l \in Legs |-> {}]
  /\ computed = [l \in Legs |-> 0]
  /\ why = [l \in Legs |-> None]
  /\ bundles = {}
  /\ queue = <<>> /\ lock = None /\ held = 0 /\ foreign = 0 /\ broken = 0

-----------------------------------------------------------------------------
Goto(l, s) == stage' = [stage EXCEPT ![l] = s]

\* unfinished_plan for one day.
Unfinished(d) == {p \in Partitions : <<d, p>> \notin durable}

HasEnded(r) == \A d \in Requested[r] : stage[<<r, d>>] \in Ended

\* The name of a leg's artifact: staged-<run id>-<run attempt>-<day>.
BundleName(l) == <<l[1], attempt[l[1]], l[2]>>

Stored(l) == {b \in bundles : b.name = BundleName(l)}

\* A job of leg l fails.
Fail(l, reason) ==
  /\ Goto(l, "failed")
  /\ why' = [why EXCEPT ![l] = reason]

-----------------------------------------------------------------------------
(***************************************************************************)
(* The batch: command_validate_accelerated_matrix.                         *)
(***************************************************************************)

\* The days of the request of which a partition is unfinished become the rows
\* of the matrix, with those partitions.
Validate(r) ==
  LET rows == {d \in Requested[r] : Unfinished(d) # {}} IN
  /\ rows # {}
  /\ stage' = [l \in Legs |-> IF l[1] # r THEN stage[l]
                              ELSE IF l[2] \in rows THEN "ready" ELSE "idle"]
  /\ assigned' = [l \in Legs |-> IF l[1] = r THEN Unfinished(l[2]) ELSE assigned[l]]
  /\ computed' = [l \in Legs |-> IF l[1] = r THEN 0 ELSE computed[l]]
  /\ why' = [l \in Legs |-> IF l[1] = r THEN None ELSE why[l]]
  /\ attempt' = [attempt EXCEPT ![r] = @ + 1]
  /\ UNCHANGED <<durable, bundles, groupVars>>

Dispatch(r) == attempt[r] = 0 /\ Validate(r)

\* "Re-run all jobs".
RerunAll(r) == attempt[r] \in 1..(MaxAttempts - 1) /\ HasEnded(r) /\ Validate(r)

\* "Re-run failed jobs": a compute job that succeeded is not run again.
RerunFailed(r) ==
  LET failed == {l \in Legs : l[1] = r /\ stage[l] = "failed"} IN
  /\ attempt[r] \in 1..(MaxAttempts - 1) /\ HasEnded(r)
  /\ failed # {}
  /\ attempt' = [attempt EXCEPT ![r] = @ + 1]
  /\ stage' = [l \in Legs |-> IF l \notin failed THEN stage[l]
                              ELSE IF computed[l] = 0 THEN "ready" ELSE "waiting"]
  /\ why' = [l \in Legs |-> IF l \in failed THEN None ELSE why[l]]
  /\ UNCHANGED <<durable, assigned, computed, bundles, groupVars>>

-----------------------------------------------------------------------------
(***************************************************************************)
(* The compute job: command_compute_day and the upload of its bundle.      *)
(***************************************************************************)

StartCompute(l) ==
  /\ stage[l] = "ready"
  /\ Cardinality({d \in Requested[l[1]] : stage[<<l[1], d>>] = "compute"}) < MaxParallel
  /\ Goto(l, "compute")
  /\ UNCHANGED <<durable, attempt, assigned, computed, why, bundles, groupVars>>

\* Actions refuses a second artifact of one name in a run.
Upload(l) ==
  /\ stage[l] = "compute"
  /\ IF Stored(l) # {}
     THEN Fail(l, "conflict") /\ UNCHANGED <<bundles, computed>>
     ELSE /\ bundles' = bundles \cup
               {[name |-> BundleName(l), parts |-> assigned[l], age |-> 0]}
          /\ computed' = [computed EXCEPT ![l] = attempt[l[1]]]
          /\ Goto(l, "waiting")
          /\ UNCHANGED why
  /\ UNCHANGED <<durable, attempt, assigned, groupVars>>

-----------------------------------------------------------------------------
(***************************************************************************)
(* The publish job, under the concurrency group.                           *)
(***************************************************************************)

Enqueue(l) ==
  /\ stage[l] = "waiting"
  /\ queue' = Append(queue, l)
  /\ Goto(l, "queued")
  /\ UNCHANGED <<durable, attempt, assigned, computed, why, bundles, lock, held, foreign, broken>>

\* The group is free, and goes to the job that has queued longest.
Grant ==
  /\ lock = None /\ queue # <<>>
  /\ lock' = Head(queue) /\ queue' = Tail(queue) /\ held' = 0
  /\ stage' = [l \in Legs |-> IF l = Head(queue) THEN "retrieve" ELSE stage[l]]
  /\ UNCHANGED <<durable, attempt, assigned, computed, why, bundles, foreign, broken>>

Release == lock' = None /\ held' = 0

\* Mutant of Covers: what is durable by now is not subtracted from the plan.
CoversPlan(l, b) == Partitions \subseteq b.parts

\* _require_complete_staged_coverage: the bundle has what is unfinished now.
Covers(l, b) == Unfinished(l[2]) \subseteq b.parts

\* The bundle is downloaded by the name of this attempt and must cover the day.
Retrieve(l) ==
  /\ stage[l] = "retrieve"
  /\ \/ /\ Stored(l) = {}
        /\ Fail(l, IF computed[l] = attempt[l[1]] THEN "expired" ELSE "missing")
        /\ Release
     \/ \E b \in Stored(l) :
          IF Covers(l, b)
          THEN Goto(l, "publish") /\ UNCHANGED <<why, lock, held>>
          ELSE Fail(l, "coverage") /\ Release
  /\ UNCHANGED <<durable, attempt, assigned, computed, bundles, queue, foreign, broken>>

\* Partitions that became durable meanwhile are left alone.
PublishPartition(l, p) ==
  /\ stage[l] = "publish"
  /\ p \in assigned[l] \cap Unfinished(l[2])
  /\ durable' = durable \cup {<<l[2], p>>}
  /\ UNCHANGED <<attempt, legVars, bundles, groupVars>>

\* Mutant of Verify: the loop over the bundle ends at a partition that is durable.
VerifyStops(l) ==
  /\ stage[l] = "publish"
  /\ assigned[l] \cap Unfinished(l[2]) # assigned[l]
  /\ Goto(l, "delete")
  /\ UNCHANGED <<durable, attempt, assigned, computed, why, bundles, groupVars>>

\* All of the bundle is durable.
Verify(l) ==
  /\ stage[l] = "publish"
  /\ assigned[l] \cap Unfinished(l[2]) = {}
  /\ Goto(l, "delete")
  /\ UNCHANGED <<durable, attempt, assigned, computed, why, bundles, groupVars>>

\* The artifact is deleted; the request fails if it is gone.
Delete(l) ==
  /\ stage[l] = "delete"
  /\ IF Stored(l) = {} THEN Fail(l, "deleted") ELSE Goto(l, "done") /\ UNCHANGED why
  /\ bundles' = bundles \ Stored(l)
  /\ Release
  /\ UNCHANGED <<durable, attempt, assigned, computed, queue, foreign, broken>>

-----------------------------------------------------------------------------
(***************************************************************************)
(* What happens around the jobs.                                           *)
(***************************************************************************)

\* Leg l leaves the queue, if it is there.
LeaveQueue(l) ==
  \/ \E i \in DOMAIN queue : queue[i] = l /\ queue' = RemoveAt(queue, i)
  \/ (\A i \in DOMAIN queue : queue[i] # l) /\ UNCHANGED queue

\* A job is cancelled, loses its runner or reaches its limit, or the lifecycle
\* refuses a source.
Break(l) ==
  /\ stage[l] \in Active /\ broken < MaxBroken
  /\ Fail(l, "broken")
  /\ broken' = broken + 1
  /\ LeaveQueue(l)
  /\ IF lock = l THEN Release ELSE UNCHANGED <<lock, held>>
  /\ UNCHANGED <<durable, attempt, assigned, computed, bundles, foreign>>

\* A job of the main or the recover-day workflow: it queues, publishes, ends.
ForeignQueue ==
  /\ foreign < MaxForeign
  /\ \A i \in 1..Len(queue) : queue[i] # Foreign
  /\ lock # Foreign
  /\ foreign' = foreign + 1
  /\ queue' = Append(queue, Foreign)
  /\ UNCHANGED <<durable, attempt, legVars, bundles, lock, held, broken>>

ForeignPublish(d, p) ==
  /\ lock = Foreign
  /\ p \in Unfinished(d)
  /\ durable' = durable \cup {<<d, p>>}
  /\ UNCHANGED <<attempt, legVars, bundles, groupVars>>

ForeignEnd ==
  /\ lock = Foreign
  /\ Release
  /\ UNCHANGED <<durable, attempt, legVars, bundles, queue, foreign, broken>>

\* Mutant of Limit: a publisher may take as long as any other job.
LimitOfAll == ForeignLimit

Limit == IF lock = Foreign THEN ForeignLimit ELSE PublishLimit

\* Time passes while a job holds the group; a bundle of the age Retention is gone.
Tick ==
  /\ \A l \in Legs : stage[l] # "waiting"
  /\ lock # None /\ held < Limit
  /\ held' = held + 1
  /\ bundles' = {[b EXCEPT !.age = @ + 1] : b \in {b \in bundles : b.age + 1 < Retention}}
  /\ UNCHANGED <<durable, attempt, legVars, queue, lock, foreign, broken>>

-----------------------------------------------------------------------------
Proceed(l) ==
  \/ StartCompute(l) \/ Upload(l) \/ Enqueue(l) \/ Retrieve(l)
  \/ (\E p \in Partitions : PublishPartition(l, p)) \/ Verify(l) \/ Delete(l)

Actions == Grant \/ (\E l \in Legs : Proceed(l)) \/ ForeignEnd

Next ==
  \/ Actions
  \/ \E r \in Runs : Dispatch(r) \/ RerunAll(r) \/ RerunFailed(r)
  \/ \E l \in Legs : Break(l)
  \/ ForeignQueue \/ (\E d \in Days, p \in Partitions : ForeignPublish(d, p))
  \/ Tick

Spec == Init /\ [][Next]_vars

\* Actions starts what can be started, and every job comes to its end.
FairSpec == Spec /\ WF_vars(Actions)

-----------------------------------------------------------------------------
(***************************************************************************)
(* Properties.                                                             *)
(***************************************************************************)

TypeOK ==
  /\ durable \subseteq Days \X Partitions
  /\ attempt \in [Runs -> 0..MaxAttempts]
  /\ stage \in [Legs -> Ended \cup Active]
  /\ assigned \in [Legs -> SUBSET Partitions]
  /\ computed \in [Legs -> 0..MaxAttempts]
  /\ why \in [Legs -> Reasons \cup {None}]
  /\ bundles \subseteq [name : Runs \X (0..MaxAttempts) \X Days, parts : SUBSET Partitions, age : Nat]
  /\ queue \in Seq(Legs \cup {Foreign}) /\ lock \in Legs \cup {Foreign, None}
  /\ held \in Nat /\ foreign \in 0..MaxForeign /\ broken \in 0..MaxBroken

\* However long ago the days were validated, and whichever of their partitions
\* other jobs, or earlier attempts that broke halfway, have published since: no
\* publisher finds that its bundle leaves out an unfinished partition, no run, run
\* again or not, stores two bundles under one name, and only a publisher that was
\* run again without its compute job looks for a bundle nobody has stored.
NeverRefused ==
  \A l \in Legs :
    /\ why[l] \notin {"coverage", "conflict"}
    /\ why[l] = "missing" => computed[l] \in 1..(attempt[l[1]] - 1)

\* While only accelerated publishers use the group, none of them queues longer
\* than its bundle lives, or takes so long that it cannot delete it.
BundleInTime == \A l \in Legs : why[l] \in {"expired", "deleted"} => foreign > 0

\* A day of the matrix becomes durable as a whole, with the partitions its bundle
\* leaves to others, unless one of its own jobs breaks or its bundle expires:
\* whatever happens to the jobs it queues with.
DayGetsDurable ==
  \A l \in Legs :
    stage[l] = "ready" ~> Unfinished(l[2]) = {} \/ why[l] \in {"broken", "expired"}
=============================================================================
