---------------------------- MODULE Publication ----------------------------
(***************************************************************************)
(* Runs that recompute the partitions of one UTC day and publish them to   *)
(* the half-month release they share: `execute-day` (main backfill and     *)
(* recover-day workflows: inventory, compute and publish under the release *)
(* lock) and `compute-day` + `publish-staged-day` (accelerated workflow:   *)
(* compute without the lock, publish under it), over Publisher and         *)
(* GitHubReleaseBackend.  The aggregate checkpoint job reads the release   *)
(* without the lock.                                                       *)
(*                                                                         *)
(* A run may die between any two requests.  Every run rebuilds in a        *)
(* temporary directory and stamps provenance.retrieved_at_ns with its own  *)
(* clock, so two runs never produce the same manifest: NewBuild hands out  *)
(* each member of Builds at most once.                                     *)
(***************************************************************************)
EXTENDS ReleaseInventory

CONSTANTS
  Runs,         \* run attempts: an attempt is never restarted, it is replaced
  Days,         \* the UTC days of the release, each a set of partitions
  MaxAttempts,  \* POSTs of one upload: (0, *RETRY_DELAYS) is 4
  Faults,       \* which environment faults this instance admits
  LateCommit    \* can GitHub still commit a POST whose client saw it fail?

ASSUME PublicationAssumption ==
  /\ Days \subseteq SUBSET Partitions
  /\ MaxAttempts \in Nat \ {0}
  /\ Faults \subseteq {"crash", "build", "lost", "refused", "delete", "download"}
  /\ LateCommit \in BOOLEAN
  /\ None \notin Runs

VARIABLES
  uploaded,     \* assets GitHub holds in state "uploaded"
  incomplete,   \* assets GitHub holds in another state ("starter")
  late,         \* POSTs given up by their client and not yet settled
  lock,         \* the run holding the release concurrency group, or None
  ledger,       \* config/backfill-ledger.json: partition -> manifest digest
  pc,           \* where each run is
  kind,         \* "execute" or "staged"
  day,          \* the UTC day the run was dispatched for
  assets,       \* the partitions the run will verify at its end
  build,        \* what the run computed
  todo,         \* the partitions it still has to publish
  cur,          \* the partition it is publishing
  file,         \* the position of publish_partition's loop over the files
  seenUp,       \* the `existing` snapshot of this partition's publication:
  seenInc,      \*   its uploaded and its other assets
  attempts      \* POSTs done for the current file

remoteVars == <<uploaded, incomplete, late>>
planVars   == <<kind, day, assets>>
snapVars   == <<cur, seenUp, seenInc>>
vars == <<uploaded, incomplete, late, lock, ledger, pc, kind, day, assets,
          build, todo, cur, file, seenUp, seenInc, attempts>>

\* Where a run is publishing one file of the partition cur.
InFile == {"check", "delete", "post", "reconcile", "discard", "purge", "verify"}

\* Where a run holds the release lock.
Locked == InFile \cup {"inventory", "building", "next", "refresh"}

Ended == {"done", "failed"}

PCs == {"idle", "compute", "queued"} \cup Locked \cup Ended

Init ==
  /\ uploaded = {} /\ incomplete = {} /\ late = {}
  /\ lock = None
  /\ ledger = [p \in Partitions |-> None]
  /\ pc = [r \in Runs |-> "idle"]
  /\ kind = [r \in Runs |-> "execute"]
  /\ day = [r \in Runs |-> {}]
  /\ assets = [r \in Runs |-> {}]
  /\ build = [r \in Runs |-> None]
  /\ todo = [r \in Runs |-> {}]
  /\ cur = [r \in Runs |-> None]
  /\ file = [r \in Runs |-> 1]
  /\ seenUp = [r \in Runs |-> {}]
  /\ seenInc = [r \in Runs |-> {}]
  /\ attempts = [r \in Runs |-> 0]

-----------------------------------------------------------------------------
Goto(r, l) == pc' = [pc EXCEPT ![r] = l]

\* The step keeps the lock as it is and moves run r to l.
Step(r, l) == Goto(r, l) /\ UNCHANGED lock

\* An exception, a cancelled job or a finished one: the job ends and Actions
\* hands the concurrency group to the next run of its queue.
End(r, l) == Goto(r, l) /\ lock' = IF lock = r THEN None ELSE lock

\* Mutant of Mine: an asset is recognised by its filename.
MineByFilename(r) ==
  IF Listed(seenUp[r], {}, cur[r], file[r]) # {}
    THEN CHOOSE a \in Listed(seenUp[r], {}, cur[r], file[r]) : TRUE
    ELSE Name(cur[r], file[r], build[r])

\* The name of the file a run is publishing.
Mine(r) == Name(cur[r], file[r], build[r])

\* Rebuilding in a fresh temporary directory, at a later time than every
\* earlier run: a build no run has had before.
NewBuild(r, b) ==
  /\ b \in Builds \ {build[o] : o \in Runs}
  /\ build' = [build EXCEPT ![r] = b]

-----------------------------------------------------------------------------
(***************************************************************************)
(* Dispatch and planning.                                                  *)
(***************************************************************************)

\* command_execute_day, dispatched by the plan's matrix or by recover-day.
DispatchExecute(r, d) ==
  /\ pc[r] = "idle"
  /\ kind' = [kind EXCEPT ![r] = "execute"]
  /\ day' = [day EXCEPT ![r] = d]
  /\ Step(r, "queued")
  /\ UNCHANGED <<remoteVars, ledger, assets, build, todo, snapVars, file, attempts>>

\* command_validate_accelerated_matrix: the assets to compute are the day's
\* unfinished ones at dispatch, long before the lock is taken.
DispatchStaged(r, d) ==
  LET open == Unfinished(uploaded, incomplete, d) IN
  /\ pc[r] = "idle"
  /\ ~FatalAnomaly(uploaded, incomplete)
  /\ open # {}
  /\ kind' = [kind EXCEPT ![r] = "staged"]
  /\ day' = [day EXCEPT ![r] = d]
  /\ assets' = [assets EXCEPT ![r] = open]
  /\ Step(r, "compute")
  /\ UNCHANGED <<remoteVars, ledger, build, todo, snapVars, file, attempts>>

\* command_compute_day: the bundle is computed without the lock.
ComputeStaged(r, b) ==
  /\ pc[r] = "compute"
  /\ NewBuild(r, b)
  /\ Step(r, "queued")
  /\ UNCHANGED <<remoteVars, ledger, planVars, todo, snapVars, file, attempts>>

\* Mutant of Acquire: the publishers do not share a concurrency group.
AcquireUnlocked(r) ==
  /\ pc[r] = "queued"
  /\ lock' = r
  /\ Goto(r, "inventory")
  /\ UNCHANGED <<remoteVars, ledger, planVars, build, todo, snapVars, file, attempts>>

\* The concurrency group of the release admits one run.
Acquire(r) ==
  /\ pc[r] = "queued"
  /\ lock = None
  /\ lock' = r
  /\ Goto(r, "inventory")
  /\ UNCHANGED <<remoteVars, ledger, planVars, build, todo, snapVars, file, attempts>>

\* The inventory at the head of command_execute_day.
InventoryExecute(r) ==
  LET open == Unfinished(uploaded, incomplete, day[r]) IN
  /\ pc[r] = "inventory" /\ kind[r] = "execute"
  /\ IF FatalAnomaly(uploaded, incomplete)
       THEN End(r, "failed") /\ UNCHANGED assets
       ELSE /\ assets' = [assets EXCEPT ![r] = open]
            /\ IF open = {} THEN End(r, "done") ELSE Step(r, "building")
  /\ UNCHANGED <<remoteVars, ledger, kind, day, build, todo, snapVars, file, attempts>>

\* The child run_backfill of command_execute_day computes the day.
BuildExecute(r, b) ==
  /\ pc[r] = "building"
  /\ NewBuild(r, b)
  /\ todo' = [todo EXCEPT ![r] = assets[r]]
  /\ Step(r, "next")
  /\ UNCHANGED <<remoteVars, ledger, planVars, snapVars, file, attempts>>

\* Mutant of InventoryStaged: the whole bundle is published.
InventoryStagedAll(r) ==
  LET open == Unfinished(uploaded, incomplete, day[r]) IN
  /\ pc[r] = "inventory" /\ kind[r] = "staged"
  /\ IF FatalAnomaly(uploaded, incomplete) \/ ~(open \subseteq assets[r])
       THEN End(r, "failed") /\ UNCHANGED todo
       ELSE Step(r, "next") /\ todo' = [todo EXCEPT ![r] = assets[r]]
  /\ UNCHANGED <<remoteVars, ledger, planVars, build, snapVars, file, attempts>>

\* The inventory at the head of command_publish_staged_day: partitions that
\* became durable since the dispatch are left alone, and the bundle must
\* cover the others.
InventoryStaged(r) ==
  LET open == Unfinished(uploaded, incomplete, day[r]) IN
  /\ pc[r] = "inventory" /\ kind[r] = "staged"
  /\ IF FatalAnomaly(uploaded, incomplete) \/ ~(open \subseteq assets[r])
       THEN End(r, "failed") /\ UNCHANGED todo
       ELSE Step(r, "next") /\ todo' = [todo EXCEPT ![r] = open]
  /\ UNCHANGED <<remoteVars, ledger, planVars, build, snapVars, file, attempts>>

-----------------------------------------------------------------------------
(***************************************************************************)
(* Publisher.publish_partition.                                            *)
(***************************************************************************)

\* The next partition: ensure_draft, then one listing of the release that is
\* used for all of the partition's files.
BeginPartition(r, p) ==
  /\ pc[r] = "next"
  /\ p \in todo[r]
  /\ cur' = [cur EXCEPT ![r] = p]
  /\ file' = [file EXCEPT ![r] = 1]
  /\ seenUp' = [seenUp EXCEPT ![r] = uploaded]
  /\ seenInc' = [seenInc EXCEPT ![r] = incomplete]
  /\ Step(r, "check")
  /\ UNCHANGED <<remoteVars, ledger, planVars, build, todo, attempts>>

\* Mutant of Conflict: only uploaded assets conflict.
ConflictUploaded(r) ==
  \E a \in Listed(seenUp[r], {}, cur[r], file[r]) : a # Mine(r)

\* Another content of this file is in the snapshot.
Conflict(r) ==
  \E a \in Listed(seenUp[r], seenInc[r], cur[r], file[r]) : a # Mine(r)

\* What publish_partition decides for one file from the snapshot.
CheckFile(r) ==
  /\ pc[r] = "check"
  /\ \/ Conflict(r) /\ End(r, "failed")
     \/ /\ ~Conflict(r)
        /\ \/ Mine(r) \in seenInc[r] /\ Step(r, "delete")
           \/ Mine(r) \in seenUp[r] /\ Step(r, "verify")
           \/ Mine(r) \notin seenUp[r] \cup seenInc[r] /\ Step(r, "post")
  /\ attempts' = [attempts EXCEPT ![r] = 0]
  /\ UNCHANGED <<remoteVars, ledger, planVars, build, todo, snapVars, file>>

\* upload's loop takes its next delay, or has no other.
Retry(r) ==
  \/ attempts[r] < MaxAttempts /\ Step(r, "post")
  \/ attempts[r] = MaxAttempts /\ End(r, "failed")

\* delete_incomplete of the leftover in the snapshot ("delete"), of the asset
\* a POST answered with ("discard"), of the one the reconciliation found
\* ("purge").  DELETE addresses the asset by its id, whatever its state is by
\* now; a DELETE that fails may still have been carried out.
DeleteAsset(r) ==
  /\ \/ /\ \/ pc[r] = "delete" /\ Step(r, "post")
           \/ pc[r] = "discard" /\ Step(r, "reconcile")
           \/ pc[r] = "purge" /\ Retry(r)
        /\ uploaded' = uploaded \ {Mine(r)}
        /\ incomplete' = incomplete \ {Mine(r)}
     \/ /\ "delete" \in Faults
        /\ pc[r] \in {"delete", "discard", "purge"}
        /\ End(r, "failed")
        /\ \/ UNCHANGED <<uploaded, incomplete>>
           \/ /\ uploaded' = uploaded \ {Mine(r)}
              /\ incomplete' = incomplete \ {Mine(r)}
  /\ UNCHANGED <<late, ledger, planVars, build, todo, snapVars, file, attempts>>

\* One POST of GitHubReleaseBackend.upload.  GitHub refuses a name the release
\* already has (422).  Otherwise the asset is stored and acknowledged, or
\* acknowledged in a non-durable state, or the answer is transient or lost and
\* the client cannot tell which; any other status ends the run.
Post(r) ==
  LET a == Mine(r) IN
  /\ pc[r] = "post"
  /\ attempts' = [attempts EXCEPT ![r] = @ + 1]
  /\ \/ /\ a \in uploaded \cup incomplete
        /\ Step(r, "reconcile")
        /\ UNCHANGED remoteVars
     \/ /\ a \notin uploaded \cup incomplete
        /\ \/ /\ uploaded' = uploaded \cup {a}
              /\ Step(r, "verify")
              /\ UNCHANGED <<incomplete, late>>
           \/ /\ "lost" \in Faults
              /\ incomplete' = incomplete \cup {a}
              /\ Step(r, "discard")
              /\ UNCHANGED <<uploaded, late>>
           \/ /\ "lost" \in Faults
              /\ Step(r, "reconcile")
              /\ \/ uploaded' = uploaded \cup {a} /\ UNCHANGED <<incomplete, late>>
                 \/ /\ incomplete' \in {incomplete, incomplete \cup {a}}
                    /\ late' \in {late} \cup {late \cup {x} : x \in IF LateCommit THEN {a} ELSE {}}
                    /\ UNCHANGED uploaded
     \/ /\ "refused" \in Faults
        /\ End(r, "failed")
        /\ UNCHANGED remoteVars
  /\ UNCHANGED <<ledger, planVars, build, todo, snapVars, file>>

\* Mutant of Reconcile: it polls until the asset is listed.
ReconcileUntilListed(r) ==
  /\ pc[r] = "reconcile"
  /\ \/ Mine(r) \in uploaded /\ Step(r, "verify")
     \/ Mine(r) \in incomplete /\ Step(r, "purge")
     \/ Mine(r) \notin uploaded \cup incomplete /\ Step(r, "reconcile")
  /\ UNCHANGED <<remoteVars, ledger, planVars, build, todo, snapVars, file, attempts>>

\* _reconcile_upload: what became of the POST, from a new listing.
Reconcile(r) ==
  /\ pc[r] = "reconcile"
  /\ \/ Mine(r) \in uploaded /\ Step(r, "verify")
     \/ Mine(r) \in incomplete /\ Step(r, "purge")
     \/ Mine(r) \notin uploaded \cup incomplete /\ Retry(r)
  /\ UNCHANGED <<remoteVars, ledger, planVars, build, todo, snapVars, file, attempts>>

\* Mutant of VerifyFile: the loop leaves out the last file.
VerifyFileSkipsLast(r) ==
  /\ pc[r] = "verify"
  /\ \/ /\ Mine(r) \in uploaded
        /\ file[r] < NumFiles - 1
        /\ file' = [file EXCEPT ![r] = @ + 1]
        /\ Step(r, "check")
        /\ UNCHANGED todo
     \/ /\ Mine(r) \in uploaded
        /\ file[r] >= NumFiles - 1
        /\ todo' = [todo EXCEPT ![r] = @ \ {cur[r]}]
        /\ Step(r, "next")
        /\ UNCHANGED file
     \/ /\ Mine(r) \notin uploaded \/ "download" \in Faults
        /\ End(r, "failed")
        /\ UNCHANGED <<todo, file>>
  /\ UNCHANGED <<remoteVars, ledger, planVars, build, snapVars, attempts>>

\* _download_verify, and on to the next file or out of publish_partition.
VerifyFile(r) ==
  /\ pc[r] = "verify"
  /\ \/ /\ Mine(r) \in uploaded
        /\ file[r] < NumFiles
        /\ file' = [file EXCEPT ![r] = @ + 1]
        /\ Step(r, "check")
        /\ UNCHANGED todo
     \/ /\ Mine(r) \in uploaded
        /\ file[r] = NumFiles
        /\ todo' = [todo EXCEPT ![r] = @ \ {cur[r]}]
        /\ Step(r, "next")
        /\ UNCHANGED file
     \/ /\ Mine(r) \notin uploaded \/ "download" \in Faults
        /\ End(r, "failed")
        /\ UNCHANGED <<todo, file>>
  /\ UNCHANGED <<remoteVars, ledger, planVars, build, snapVars, attempts>>

-----------------------------------------------------------------------------
(***************************************************************************)
(* The end of a run, and what happens around the runs.                     *)
(***************************************************************************)

\* Every partition is published: take the inventory anew.
FinishPublishing(r) ==
  /\ pc[r] = "next"
  /\ todo[r] = {}
  /\ Step(r, "refresh")
  /\ UNCHANGED <<remoteVars, ledger, planVars, build, todo, snapVars, file, attempts>>

\* verify_remote_partition of every partition of the run, and the anomaly
\* check of reconcile_ledger or command_publish_staged_day.
VerifyRun(r) ==
  /\ pc[r] = "refresh"
  /\ \/ /\ assets[r] \subseteq Verified(uploaded, incomplete)
        /\ ~FatalAnomaly(uploaded, incomplete)
        /\ End(r, "done")
     \/ /\ \/ ~(assets[r] \subseteq Verified(uploaded, incomplete))
           \/ FatalAnomaly(uploaded, incomplete)
           \/ "download" \in Faults
        /\ End(r, "failed")
  /\ UNCHANGED <<remoteVars, ledger, planVars, build, todo, snapVars, file, attempts>>

\* Mutant of Checkpoint: a partition with a manifest is taken for complete.
CheckpointByManifest ==
  /\ ~FatalAnomaly(uploaded, incomplete)
  /\ ledger' = [p \in Partitions |->
                  IF Listed(uploaded, {}, p, Manifest) = {} THEN None
                  ELSE (CHOOSE a \in Listed(uploaded, {}, p, Manifest) : TRUE).digest]
  /\ UNCHANGED <<remoteVars, lock, pc, planVars, build, todo, snapVars, file, attempts>>

\* command_checkpoint: the main workflow's last job, without the lock.
Checkpoint ==
  /\ ~FatalAnomaly(uploaded, incomplete)
  /\ ledger' = [p \in Partitions |-> LedgerEntry(uploaded, incomplete, p)]
  /\ UNCHANGED <<remoteVars, lock, pc, planVars, build, todo, snapVars, file, attempts>>

\* The pipeline refuses to build (a source, a cap, a conflict): the day's
\* lifecycle, or one partition's tables after others were published.
BuildFails(r) ==
  /\ "build" \in Faults
  /\ \/ pc[r] \in {"compute", "building"}
     \/ pc[r] = "next" /\ kind[r] = "execute" /\ todo[r] # {}
  /\ End(r, "failed")
  /\ UNCHANGED <<remoteVars, ledger, planVars, build, todo, snapVars, file, attempts>>

\* The runner is lost, the job is cancelled or reaches its time limit.
Crash(r) ==
  /\ "crash" \in Faults
  /\ pc[r] \notin {"idle"} \cup Ended
  /\ End(r, "failed")
  /\ UNCHANGED <<remoteVars, ledger, planVars, build, todo, snapVars, file, attempts>>

\* GitHub commits a POST its client has given up, or drops it.
SettleLate(a) ==
  /\ a \in late
  /\ late' = late \ {a}
  /\ \/ uploaded' = uploaded \cup {a} /\ incomplete' = incomplete \ {a}
     \/ UNCHANGED <<uploaded, incomplete>>
  /\ UNCHANGED <<lock, ledger, pc, planVars, build, todo, snapVars, file, attempts>>

-----------------------------------------------------------------------------
Dispatch(r) == \E d \in Days : DispatchExecute(r, d) \/ DispatchStaged(r, d)

Publish(r) ==
  \/ \E p \in Partitions : BeginPartition(r, p)
  \/ CheckFile(r) \/ DeleteAsset(r) \/ Post(r) \/ Reconcile(r) \/ VerifyFile(r)

\* What a dispatched run does by itself.
Proceed(r) ==
  \/ \E b \in Builds : ComputeStaged(r, b) \/ BuildExecute(r, b)
  \/ Acquire(r) \/ InventoryExecute(r) \/ InventoryStaged(r)
  \/ Publish(r) \/ FinishPublishing(r) \/ VerifyRun(r)

Next ==
  \/ \E r \in Runs : Dispatch(r) \/ Proceed(r) \/ BuildFails(r) \/ Crash(r)
  \/ \E a \in late : SettleLate(a)
  \/ Checkpoint

Spec == Init /\ [][Next]_vars

\* A job that was dispatched keeps running; nothing obliges anyone to dispatch.
FairSpec == Spec /\ \A r \in Runs : WF_vars(Proceed(r))

-----------------------------------------------------------------------------
(***************************************************************************)
(* Properties.                                                             *)
(***************************************************************************)

TypeOK ==
  /\ uploaded \subseteq Asset /\ incomplete \subseteq Asset /\ late \subseteq Asset
  /\ lock \in Runs \cup {None}
  /\ ledger \in [Partitions -> Digests \cup {None}]
  /\ pc \in [Runs -> PCs]
  /\ kind \in [Runs -> {"execute", "staged"}]
  /\ day \in [Runs -> SUBSET Partitions]
  /\ assets \in [Runs -> SUBSET Partitions]
  /\ build \in [Runs -> Builds \cup {None}]
  /\ todo \in [Runs -> SUBSET Partitions]
  /\ cur \in [Runs -> Partitions \cup {None}]
  /\ file \in [Runs -> Files]
  /\ seenUp \in [Runs -> SUBSET Asset]
  /\ seenInc \in [Runs -> SUBSET Asset]
  /\ attempts \in [Runs -> 0..MaxAttempts]

\* A partition that verified_partitions counts as complete holds the files of
\* one recomputation, although several interrupted runs may have uploaded
\* them: its tables are those its manifest describes.  verified_partitions and
\* verify_remote_partition never compare the tables with the manifest; only
\* publish_partition's order of files and its conflict check see to it.
VerifiedIsOneBuild ==
  \A p \in Verified(uploaded, incomplete) :
    \E b \in Builds : \A f \in Files :
      Listed(uploaded, incomplete, p, f) = {Name(p, f, b)}

\* No interleaving of runs, crashes and lost answers leaves two contents of one
\* file in the release: the anomaly that would stop every later run.
NoFatalAnomaly == ~FatalAnomaly(uploaded, incomplete)

\* Whatever the ledger on main or a successful run has reported durable stays
\* durable, with the manifest digest reported.
ReportedIsDurable ==
  /\ \A p \in Partitions : ledger[p] # None =>
       /\ p \in Verified(uploaded, incomplete)
       /\ \E a \in uploaded : a.part = p /\ a.file = Manifest /\ a.digest = ledger[p]
  /\ \A r \in Runs : pc[r] = "done" => assets[r] \subseteq Verified(uploaded, incomplete)

\* A dispatched run ends: no failure, refusal or crash of any run keeps the
\* release lock from the runs that queue for it.
EveryRunEnds == \A r \in Runs : pc[r] # "idle" ~> pc[r] \in Ended

\* Some run gave up on an upload after the last POST of its loop.
Exhausted == \E r \in Runs : pc[r] = "failed" /\ attempts[r] = MaxAttempts

\* With GitHub losing answers and nothing else going wrong, the first failure
\* is that of an upload whose every POST was lost: racing runs of one day, with
\* an inventory taken long before the lock, never make each other fail.
FailsOnlyWhenExhausted == (\E r \in Runs : pc[r] = "failed") => Exhausted

\* Under the same conditions a queued run makes its whole day durable, or finds
\* that another run did.
DayBecomesDurable ==
  \A r \in Runs :
    pc[r] = "queued" ~> day[r] \subseteq Verified(uploaded, incomplete) \/ Exhausted

\* docs/storage-and-execution-architecture.md:21-23 calls every interruption
\* restart-safe. It is not: publish_partition refuses a partition when the release
\* has another content of one of its files, and every run stamps a manifest of its
\* own. But nothing else makes it refuse one, even if GitHub commits a POST long
\* after its client gave it up: there is a run that was interrupted in that very
\* partition, at this file or a later one, and what it computed differs from what
\* this run did. Runs that finished or race, lost answers, deleted leftovers, and
\* the run's own uploads and staged bundle never conflict.
ConflictMeansInterruption ==
  \A r \in Runs : pc[r] = "check" /\ Conflict(r) =>
    \E o \in Runs \ {r} :
      /\ pc[o] = "failed" /\ cur[o] = cur[r] /\ cur[o] \in todo[o]
      /\ file[o] >= file[r]
      /\ build[o][file[r]] # build[r][file[r]]
      /\ Name(cur[r], file[r], build[o]) \in uploaded \cup incomplete

-----------------------------------------------------------------------------
\* The build with a given manifest digest, if any has it.
BuildOf(d) == IF d = None THEN None ELSE CHOOSE b \in Builds : b[Manifest] = d

\* The durable content of the release, and what the ledger reports of it.
durableBar  == [p \in Partitions |-> BuildOf(LedgerEntry(uploaded, incomplete, p))]
reportedBar == [p \in Partitions |-> BuildOf(ledger[p])]

DP == INSTANCE DurablePartitions WITH durable <- durableBar, reported <- reportedBar

\* Runs, crashes and repeats implement the promise of DurablePartitions: no
\* step replaces or withdraws what was once durable, and the ledger never
\* reports anything else.
DurableOnce == DP!Spec
=============================================================================
