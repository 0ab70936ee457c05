# Canonical-data backfill: TLA+ models, model checking and proofs

Specifications of the backfill of the `polymarket-15m-seven` dataset: GitHub
Actions jobs that acquire hourly PMXT objects, cut them into 15-minute markets,
build one partition per asset and UTC day, and publish it as six
content-addressed assets of a draft GitHub Release.  The release itself is the
only durable authority.  Paths below are relative to the repository;
`canonical_data/` stands for `src/canonical_data/`.

## 1. The system

| part | code | state it keeps | operations |
| --- | --- | --- | --- |
| publisher, GitHub backend | `canonical_data/release.py` | the assets of a draft release (remote), the listing taken at the start of a partition | `publish_partition`, `upload` with retries and reconciliation, `delete_incomplete`, `ensure_draft`, `download` |
| remote inventory, planning | `scripts/actions_backend.py:585-713` | none: a judgement of a listing | `verified_partitions`, `unfinished_plan`, `inventory_anomalies`, `day_plan` |
| day execution, ledger | `scripts/actions_backend.py:986-1177`, the main and recover-day workflows | the release concurrency group, `config/backfill-ledger.json` | `command_execute_day`, `command_checkpoint`, `reconcile_ledger` |
| accelerated day | `scripts/actions_backend.py:1180-1430`, accelerated workflows | the staged bundle (an Actions artifact) | `command_compute_day`, `command_publish_staged_day` |
| staged day lifecycle | `scripts/run_backfill.py:400-973` | per-market pending and current fragments, staged markets, day counters | `prepare_staged_day` |
| shared spool day | `scripts/run_backfill.py:499-673`, `canonical_data/spool.py` | `events.sqlite`, `state.json`, raw downloads | `prepare_shared_day`, `EventSpool` |
| partition pipeline | `canonical_data/pipeline.py`, `state.py`, `manifest.py` | the checkpoint file, the output directory | `Pipeline.build`, `Pipeline.publish`, `StateStore.advance` |
| source acquisition | `canonical_data/acquire.py`, `_acquire_with_retry` | cached object, its identity record | `BoundedAcquirer.acquire` |
| PMXT rows, order books | `canonical_data/pmxt.py` | the book being reconstructed | `order_and_deduplicate`, `BookReconstructor` |
| resampling, quality | `canonical_data/resample.py`, `quality.py` | the current state of a token, an open gap | `resample_200ms`, `transform_market`, `classify` |
| canary qualification | `scripts/actions_backend.py:1433-2010` | rounds, the receipt on main | `command_canary`, `minimum_canary_cover` |

How they interact.  A workflow job takes the release's concurrency group, lists
the release, computes the unfinished assets of its day (staged lifecycle, then
one pipeline per asset) and publishes each partition; the accelerated workflow
computes first and takes the group only to publish.  The checkpoint job lists
the release without the group and commits the ledger.  Jobs of Actions share
nothing but the release: each works in a new temporary directory.  A local
`run_backfill.py` keeps its work root, so its runs also share downloads,
checkpoints, output directories and the ledger.

What is hard, and what makes each part correct:

| part | hard behaviour | correct when |
| --- | --- | --- |
| publisher, inventory, day execution | a job dies between any two requests; an answer to an upload is lost; a listing is stale by the time it is acted on; two jobs hold different recomputations of one partition | a complete partition is one recomputation and stays as it is; the ledger names only durable partitions; no run makes another fail; a queued day gets durable |
| draft of a tag | creations race, answers are lost, listings lag | callers never get different releases; a call gives up |
| staged day | markets span two objects, either may be missing; Gamma knows only some markets | staged with all their events, once; bounded fragments; no alarm |
| partition pipeline | killed between two files that must agree; sources change between runs | checkpoint and ledger never ahead of files and release; a rerun resumes |
| acquisition | an object changes upstream; file and record are two files | the scan reads what was probed |
| order books | rows are lost or repeated; a message is several rows; trades among them | the grid shows the venue's book, or the market is excluded |
| accelerated day | days are validated long before they are published; bundles expire while their publishers queue; runs are run again | a bundle covers what is unfinished when it is published, and is there |
| shared spool day | a run is killed between the transactions of an object and its record; Gamma and the archive change between runs | every source counts once, leftovers never, and the provenance of a partition says what it was built from |
| canary | Gamma, the archive and prior evidence answer anything; frozen budgets; a receipt with many counts and a gate that recomputes them | budgets suffice, the gate takes every receipt, the selected starts are a minimum cover |

## 2. Modules

| module | what it is |
| --- | --- |
| `ReleaseInventory` | assets, content-addressed names, and the judgements of a listing |
| `Publication` | runs that compute and publish days over the release, with crashes, lost answers and late commits |
| `DurablePartitions` | abstract: a partition becomes durable once, with one content, and reports name only durable ones |
| `DraftRelease` | concurrent calls of `ensure_draft` for one tag |
| `StagedDay` | `prepare_staged_day` over the hourly objects of a UTC day |
| `PartitionBuild` | one partition in a work root that survives its runs |
| `Acquisition` | one hourly object in a raw directory that survives its runs |
| `BookReplay` | one market: venue, archive, reconstruction, 200 ms grid and verdict |
| `AcceleratedBatch` | runs of the accelerated workflows: their legs, artifacts, re-runs and the queue of the release group |
| `SharedDay` | `prepare_shared_day`, `EventSpool` and the partitions read from the spool, over a work root that survives its runs |
| `SourceLog` | abstract: every source object is counted once, in one step |
| `Canary` | one run of `command_canary` from the prior evidence to the receipt, and its gate |
| `MC*` | constants of the small instances |
| `*_proofs` | theorems about the module before the underscore; `PartitionBuild_proofs` also has those about `Acquisition`, whose names therefore carry the prefix `Acq` |

`Publication` extends `ReleaseInventory`; it and `PartitionBuild` each
instantiate `DurablePartitions` under a refinement mapping (`DurableOnce`), and
`SharedDay` instantiates `SourceLog` (`SourcesAreCountedOnce`).
The other modules are parts that meet through what they promise: `Publication`
takes a build as one content (`PartitionBuild` says how a build comes about),
`PartitionBuild` takes tables as a function of the sources (`StagedDay` and
`BookReplay`), `StagedDay` takes an acquired object as the object
(`Acquisition`), and all of them take the draft of a tag as one release
(`DraftRelease`).  `AcceleratedBatch` takes what happens inside a publisher as
one step per partition: `Publication` has the inside, with a run that computed
before it took the lock.  `SharedDay` takes acquisition and the building of a
partition as one step each.

### State and actions against the code

* **Publication.**  `uploaded` and `incomplete` are GitHub's assets by state;
  `late` holds POSTs whose client gave up and that GitHub may still commit.
  `lock` is the concurrency group of the release.  A run's `pc` is its place in
  `command_execute_day` or `command_compute_day`/`command_publish_staged_day`,
  and inside `publish_partition`: `BeginPartition` takes the one listing
  (`seenUp`, `seenInc`), `CheckFile` decides for one file, `Post`/`Reconcile`/
  `DeleteAsset` are the requests of `upload`, and `VerifyFile` is the download.
  `assets` are the partitions the run verifies at its end, `todo` those it has
  still to publish.  `NewBuild` gives every run a manifest of its own because
  `build_manifest` embeds `retrieved_at_ns`.  A partition left incomplete is
  recomputed, and meets the assets of its predecessor by name.
* **DraftRelease.**  `remote` is the state GitHub keeps of each identifier;
  `hidden` is a release that a listing does not show yet (GitHub lists it late,
  or commits its creation late).  `List`, `Post`, `Reconcile`, `Poll` and
  `Break` are the branches of `ensure_draft`, its two waits and the failures of
  `_request`.  `serial` and `lag` are settings fixed at the start.
* **StagedDay.**  Time is counted in windows of a market.  `ScanSource` is the
  pass over one object up to the loop over the markets, `StageMarket` and
  `KeepMarket` its body, `CloseSource` what follows it; the breakers are
  `RefuseSource` and `RefuseMarket`.  Events are sets: `order_and_deduplicate`
  makes fragments sets.
* **PartitionBuild.**  One action per durable step of `Pipeline.build` and
  `Pipeline.publish`, in the order of the code; `Advance` has the rules of
  `StateStore.advance`, `AdvanceIfNeeded` those of the pipeline.  `dir` may hold
  the `.verify` copy a killed run leaves.
* **Acquisition.**  `Probe` fixes the identity, `TryCache`, `Drop`, `Fetch` and
  `WriteRecord` are the steps of `BoundedAcquirer.acquire`, `Retry` the loop
  around it.
* **BookReplay.**  The venue changes books (`Message`, `Snapshot`, `TickSize`,
  `Trade`), the archive records rows of one receive time (`batch`) and may lose
  some.  Both loops of the code walk the rows in receive-time order and look
  ahead one row, so the model replays a batch when its time is over
  (`ApplyBook`, `ApplyChange`, `ApplyTick`, `Skip`) and samples it
  (`Sample`) before the next; this gives the same states and samples as the
  two passes of the code, one after the other.  Of a level only its price is
  kept; `claimed`, `synced` and `traded` are history for the properties.  A
  market none of whose tokens has rows gets one gap in the code, one per token
  here.
* **AcceleratedBatch.**  A leg is a day of a batch: its compute and its publish
  job.  `Validate` is `command_validate_accelerated_matrix` (`assigned` is its
  row of the matrix), `Upload` the end of the compute job, `Enqueue` and `Grant`
  the concurrency group, `Retrieve` the download by name and the check that the
  bundle covers what is unfinished, `PublishPartition`, `Verify` and `Delete`
  the rest of the publish job.  A bundle is named by run, attempt and day, so
  `RerunFailed` of a publish job looks for a name that no job has stored
  (`missing`); only `RerunAll` computes again.  `Break` is every other way for a
  job to fail.  `Tick` is time under the lock, in units of a publisher's limit.
* **SharedDay.**  `cache` holds the kept Gamma payloads, `spool` the rows of
  `events.sqlite` with the key of its table and the version they come from,
  `completed`, `bytes` and `gaps` are `state.json`.  `Ask` and `Restore` are the
  start of a run, with `discard_uncommitted_sources` and the counts of the rest;
  `Append` is one transaction, `Complete` the rewriting of `state.json` after
  the last one; `Publish` and `Clean` are `run_partition`.  A killed run leaves
  what is durable and `Begin` starts the next one.
* **Canary.**  `BeginPrior`, `AskPrior` and `EndPrior` revalidate one proof of
  the evidence file; `BeginRound`, `Reject`, `Accept`, `CloseQualification` and
  `Execute` are a round; `MinimumCover` is `minimum_canary_cover`, written as
  its dynamic program over covered sets, and `GateAccepts` is
  `_require_canary_receipt`.  `reuse` is an identity that Gamma repeats, `seen`
  the identities taken so far.

## 3. What is checked

| run | instance | what it shows |
| --- | --- | --- |
| `publication_safety` | 3 runs, 1 partition of 3 files with the manifest in the middle, 2 POSTs, every fault, 3 builds that share some tables; symmetric runs | complete partitions hold one recomputation, no two contents of one file, what was reported stays durable, refines `DurablePartitions` |
| `publication_races` | 2 runs, 2 partitions, overlapping days, lost answers only, fair | racing runs never fail each other; a queued day becomes durable |
| `publication_crashes` | 2 runs, 2 one-partition days, every recomputation with another manifest and some with other payloads, crashes and failures, late commits, fair | a partition is refused only because another run was interrupted in it, even a late commit mixes no recomputations in a complete partition, every run ends |
| `draft_release` | 2 calls, serial or not, listings prompt or late, 2 delays, fair | agreement, one release, every call ends |
| `staged_day` | 2 assets, 5 market slots in 5 hours of two windows, any subset known to Gamma, 5 archives of which one repeats the rows of an event, one missing object, fair | complete staging, bounded fragments, consistent breakers, silent alarms, the end of the day |
| `partition_build` | 3 runs, 2 tables and the manifest, 2 source identities, kills anywhere, fair | files, checkpoints, ledger and release agree; runs are compatible; refines `DurablePartitions`; reruns end |
| `acquisition` | 3 runs, 3 versions, 2 changes upstream, 3 delays, fair | the probed bytes are scanned, conflicts are real changes, runs end |
| `book_replay` | 2 tokens, 2 prices, 3 receive times (one before the market, two grid points), batches of 2 rows, 1 lost row | faithful grid, no false conflict, claimed quotes hold, exact gaps |
| `book_replay_traded` | 1 token | counterexample, see section 5 |
| `accelerated_batch` | 2 runs of two attempts over the same day of 2 partitions, 1 job of another workflow, 2 broken jobs, fair | bundles cover what is unfinished and outlive their queue, a day gets durable as a whole unless its own jobs break |
| `shared_day` | 2 assets, 3 market slots, 5 objects of 2 versions, 1 change upstream, 1 gap, 3 runs killed anywhere, markets that Gamma resolves late, fair | exact provenance, harmless leftovers, counts of the spool; refines `SourceLog`; the last run ends |
| `canary` | 3 assets with prior proofs of 4, 2 and 2 starts, 3 rounds of 2 candidates, 2 missing hours, 4 repeated identities | budgets suffice, the receipt opens the gate, the cover is minimum |

Why the bounds suffice.  In `publication_safety` three runs are the least with
an interrupted, a resuming and a third, disturbed run; a file before, at and
after the manifest is each place an interruption can tell apart (the code's
order has the manifest as fourth of six files); two POSTs are the least with a
retry, and the theorems hold for any number.  Two partitions are only needed
where days overlap.  In `staged_day` the slots are chosen for markets whose
hour and warm-up hour lie in different objects, for a market alone in its hour
and for an hour without markets (windows per hour: two instead of four; a
window has one market per asset either way).  In `partition_build` two tables
make "some but not all" possible, and the third run meets what the second did
with the leftovers of the first.  In `book_replay` two prices are enough to
cross a book and to leave a side empty between the rows of a move, two rows a
batch are the least with a row that is not its end, and only one token gets
rows other than snapshots (`Busy`) because tokens meet only in the verdict.
In `publication_crashes` the days are apart or the same, so a late POST, or a
leftover of a killed run, meets a run of its own partition and one of another;
three runs of one day were checked as well, which takes too long to keep (1.5
million states).  In `staged_day` the row cap is two: one archive exceeds it
with three events of a market, another with three rows of one event, which the
lifecycle counts as one.
In `accelerated_batch` a day in both batches makes them race for its
partitions, two partitions let a publisher that breaks, or a job of another
workflow, publish part of it, a third job keeps both waiting, and two publishers
of one unit each fit into a retention of three, as 16 publishers of one hour fit
into a day.  That legs of several days queue and that `max-parallel` holds some
of them back is only in the theorems, which are about any number of them.
In `shared_day` the third run meets what the second did with the leftovers of
the first, the middle objects concern markets of two slots, and `Late` holds a
market of each asset.  In `canary` one prior proof is longer than the round that
replaces it, the others have the same starts (they count once among the
qualified ones), and the rounds have a missing object inside, outside and
between their candidates.
`MaxRuns`, `MaxStarts`, `MaxChanges`, `MaxBatch`, `MaxLost`, `MaxForeign` and
`MaxBroken` bound what the code or GitHub leaves open, `MaxAttempts` of
`AcceleratedBatch` how often a run is run again; `Delays` and the other
`MaxAttempts` are the code's own retry limits.

Fairness. `Publication` is weakly fair in what a dispatched run does by itself
(a job that is not killed runs on); nothing obliges anyone to dispatch, to
crash, or GitHub to lose or settle anything. Acquiring the lock is weakly fair
only: that suffices because each run takes it once. `DraftRelease` is weakly
fair in the steps of each call, not in GitHub's listings. `StagedDay`,
`PartitionBuild`, `Acquisition` and `SharedDay` are sequential programs and
weakly fair in their next step; in the last three a run may be killed at any
time, and `MaxRuns` (`MaxStarts`) only says that the last one is not.
`AcceleratedBatch` is weakly fair in the steps of jobs that exist and in giving
the group away, not in time, dispatches or breakdowns. `Canary` states no
liveness: it is a bounded program all of whose steps count something down, and
it may stop anywhere.

Every property has a mutant of a definition the code determines (a dropped
guard, a swapped order, an off-by-one) under which its run fails; they are the
`... Mutant of ...` definitions.  Type correctness (the `TypeOK` of each module)
is a theorem of every module in section 4, each checked before it was proved,
and no run repeats it.

`CHECK_DEADLOCK FALSE` stands where the system may stop: at the end of a day, of
a market or of the last run, or (`PublicationCrashes.cfg`) when a late commit
has left an anomaly that all later runs refuse.

## 4. What is proved

All theorems are for every value of the constants allowed by the named
assumptions, and are checked by TLAPS.

* `Publication_proofs!TypeCorrect`, `CompleteIsOneBuild`.  The second holds even
  when GitHub commits POSTs late.  `VerifiedIsOneBuild` is not inductive: one
  must know why a run cannot complete a partition another one began.  The
  invariant `OneBuildInv` says that only the holder of the lock writes and it
  holds one build (`LockInv`, `HasBuild`), that an asset is stored in one state
  (`OneState`), that assets of a file come with those of all earlier files of
  the same build (`PrefixInv`), and how far the current run has come in its
  partition (`PassedInv`, `AheadInv`, `FrontierInv`).  Since the manifest is
  one of the files and its digest determines the build (`InventoryAssumption`:
  SHA-256 does not collide), a complete partition is one build.
* `Publication_proofs!OnlyInterruptionsConflict` allows every fault, late commits
  and any recomputations.  A conflict is seen in a listing that may be old, so
  `InterruptInv` adds to `OneBuildInv` whose an asset can be: every asset that is
  stored, or that GitHub may yet commit, is of the run that has the partition in
  hand, of a run that was interrupted in it at that file or a later one, or of a
  partition that no run will publish again (`OwnerInv`); what a run
  listed and has still ahead of it is still stored (`SeenInv`); and the partition
  a run has in hand it has still to publish (`ClaimInv`).
* `Publication_proofs!NoAnomaly`, `ReportsHold` and
  `PublicationImplementsDurable` (the refinement of `DurablePartitions`) assume
  `~LateCommit`: GitHub settles a POST before its client gives it up.  With late
  commits they fail, since a POST of a run that was killed may be committed
  beside the asset of its successor.  `SettledInv` adds to `OneBuildInv` that
  the listing a run took at the start of a partition still tells what lies
  ahead of it (`SnapshotInv`), that an asset under the file it works on is its
  own (`OwnInv`), and that what it deletes is still incomplete
  (`LeftoverInv`).
* `Publication_proofs!RacesDoNotFail` assumes `~LateCommit` and that answers get
  lost and nothing else goes wrong (`Faults \subseteq {"lost"}`, the setting of
  `publication_races`).  Every state is `Calm` or `Exhausted`: as long as no
  upload has used up its POSTs, no run has failed, every asset is of a durable
  partition or of the one being published (`ClaimedInv`), that one holds files
  of its publisher only, and no run still has to publish what is durable.
* `DraftRelease_proofs!CallersAgree`, `TagHasOneRelease`.  `DraftInv`: a call
  returns only what is the single match of a listing, and matches only grow.
  `SerialInv` adds that with prompt listings and one call at a time a call that
  is about to create has seen no release.
* `StagedDay_proofs!StagingIsComplete`, `FragmentsAreBounded`,
  `AlarmsAreSilent`.  `StageInv` relates the fragments of each market to the
  objects handled so far (`Handled`, `Current`, `Waiting`); its arithmetic, on
  which objects concern a market, rests on the lemmas at the start of the module.
  `StagedDayTypes` needs a second invariant, `CountInv`: the breakers keep the
  row counts bounded.  `BreakersAreConsistent` needs a third, `RowInv`: as long
  as every object respects the row cap, each count is at most the cap times the
  pairs of market and object handled so far (`Tally`), and there are never more
  of those than the factor by which the code derives the breaker.  The reader's
  cap is about rows and not events (`RawRows`), for which the markets of an object
  are counted directly.
* `PartitionBuild_proofs!BuildTypes`, `LedgerTellsTheTruth`,
  `CheckpointsAreBacked`, `RunsAreCompatible`, `LifecycleIsDurable` (the
  refinement).  `BuildInv` has a part per phase (`Stage`): what the directory,
  the checkpoint and the release hold whenever a run is there, and the same for
  a run that was killed.
* `PartitionBuild_proofs!AcquisitionTypes`, `ScanIsGenuine`, `ConflictsAreReal`
  about `Acquisition`, from `AcqInv`: the file is always one whole version of
  the object, a record is that of one whole version (not always the file's),
  and as long as the object has not changed since the probe the run expects
  what is upstream.
* `BookReplay_proofs!BookReplayTypes`, `GapsExact`, `UntradedAgrees`,
  `GridFaithful`, `ConflictsMeanDamage`, whatever the venue sends and the
  archive loses.  `PlaceInv` says where the replay is and `FirstInv` what the
  first snapshot means for it; then `GapInv` relates the gaps to the grid points
  sampled so far.  `ClaimInv` finds the row that makes the claim of a batch,
  `AgreeInv` says that a book agrees with it once the rows but trades are
  replayed.  For the other two, `SyncInv` says that from some row of its batch
  on the rows trace the venue's books: there is a sequence of books, one per
  row, in which each follows from the one before by its row and the last is the
  venue's own (`Traces`, `Known`), and the replay is on that sequence.  A
  message may touch a price twice, so that its book is the fold of its rows is a
  lemma (`LevelStep`, `AfterStep`: the last change to a price decides).
  `WholeInv` adds that without damage there is no conflict, every token with a
  snapshot is traced and the rows tell the tick sizes too (`Paces`, `Paced`).
* `AcceleratedBatch_proofs!BatchTypes`, `BundlesAreComplete`,
  `BundlesLastLongEnough`.  `NeverRefused` follows from `BatchInv`: partitions
  only become durable, so a row of the matrix never lacks an unfinished one; the
  bundle of the current attempt is the row; a leg that computes has no bundle of
  that attempt; and who publishes has been computed, in this attempt or an
  earlier one, of which only the latter leaves the bundle `missing` (`AttemptInv`).  `BundleInTime` needs a measure of the queue (`TimeInv`): the
  age of a bundle, what the job that has the group may still take and what the
  jobs ahead may take are together at most what all other legs may take.  It is
  proved for any number of legs that fit into the retention
  (`AcceleratedBatchAssumption`), as those of a half month do.
* `SharedDay_proofs!SharedDayTypes`, `PartitionsMatchProvenance`,
  `RestartsAreClean`, `CountsAreTrue`, and `SpoolIsASourceLog` (the refinement
  of `SourceLog`).  None of these is inductive: `SharedInv` adds that kept
  payloads and the spool agree on the markets (`CacheInv`, `FoundInv`), which
  objects are behind the current one (`PlaceInv`), that a recorded object has all
  its rows of one version and an unrecorded one those of the assets done so far
  (`SpoolInv`, `RecordInv`), and that the bounds hold of what the next start
  counts (`CapInv`).

* `Canary_proofs!CanaryTypes`, `BudgetsHold`, `GateOpens`, `CoverMinimal`, from
  `CanaryInv`.  Its parts relate the counters of `command_canary` to what they
  count: `PriorPhase` the Gamma requests to the markets of the prior proofs that
  are answered (`Answered`, a set of pairs: each is requested once at most);
  `SearchPhase` the requests of the closed rounds to their number and the
  candidates they yielded; `RoundPhase` those of the open round to the starts it
  has left and its HEAD requests to the hourly objects between its first and
  last start; `Covered` the usable starts to the proofs behind them; and
  `Identities` says that a Gamma identity taken before is noticed.  The budgets
  then follow from arithmetic over `Rounds` of any length (`Unexceeded`).  The
  gate recomputes every count of the receipt; that they agree is `ReceiptCounts`
  and `ReceiptCoverage`.  `CoverMinimal` is about `minimum_canary_cover` for any
  set of usable starts.  Its table is one recursive function over the starts;
  `BestFunction` shows that the recursion has a solution and `BestIsOptimal`
  that each entry is the best of its mask, both by a least counterexample
  (`Least`, from the well-foundedness of the naturals) in place of an induction.
  What makes the dynamic program right is that the preference between covers is
  total, transitive (`BetterTotal`, `BetterTransitive`) and kept when a start is
  appended to both (`OptimalExtend`); `BetterIsLater` says what it prefers.

Only model-checked: the liveness properties of the modules, as liveness and
ENABLED are out of the prover's reach.  Every safety property of a passing run
is stated by a theorem.

## 5. Where code and documents differ

1. **Batches that end in a trade** (`book_replay_traded`).  `_token_states`
   continues past a trade before it looks for the end of the batch, and the row
   before it sees the trade as a successor with the same receive time.  Then no
   row of the batch removes stale levels, is compared with the claimed quotes
   or checked for a crossed book.  `UntradedBatchAgrees` is what does hold.

Five more showed while modelling; a property that does hold is the weaker for
each, and says so:

2. **Interrupted publication** (`ConflictMeansInterruption`).
   `docs/storage-and-execution-architecture.md:20-23` calls every interruption
   restart-safe.  A run recomputes the partition with a new `retrieved_at_ns`,
   hence a new manifest digest, and `publish_partition` refuses a partition with
   a manifest asset of another digest.  A run that stops after the manifest
   asset and before the last one (two of six files follow it) leaves a
   partition that no later run completes, and so does one that stops earlier if
   a payload has changed upstream by then.  What holds is that nothing else
   makes a run refuse a partition.
3. **Orphan manifest** (`EndsOrIsStuck`, the reason "manifest").  Killed between
   `manifest.json` and the checkpoint VERIFIED, a local partition cannot be
   rebuilt in its work root: the new manifest has other bytes.
4. **Verification litter** (`EndsOrIsStuck`, the reason "copy").  A `.verify`
   copy left by a killed run is published as a further asset.
5. **A receipt the gate refuses** (`ReceiptOpensGate`, its two exceptions).
   `docs/pipeline-operations.md:7-9` has production follow a canary that
   passed. `_require_canary_receipt` wants at least as many Gamma requests as
   the prior evidence has starts, but an invalidated proof stops at its first
   unresolved market: if the proofs with many starts are invalidated early and
   the rounds are short, a canary that passed has made fewer
   (`EnoughRequests`). It also wants one check of exclusions per asset, while
   `command_canary` counts a reused proof only if its remote partition has
   exclusions, and makes the check itself only for the assets of executed
   rounds: reusing one without exclusions gives a receipt that the gate refuses
   (`PriorExcluded`). The instance has exclusions everywhere; the proof of
   `GateOpens` showed that it needs to.
6. **Rows counted twice** (`OnlyRowCapBinds`, its second part).  The comment at
   `scripts/run_backfill.py:55-58` derives all row breakers from the rows of one
   market in one object.  The lifecycle enforces them on deduplicated events, but
   the reader applies the breaker of an asset's object before it deduplicates
   (`canonical_data/pmxt.py:179-185`): an archive that repeats rows can stop a day
   of which no market exceeds the row cap in events.

## 6. Assumptions and what is not modelled

* GitHub refuses a second asset of one name with 422, which makes the branch of
  `_reconcile_upload` for more than one match unreachable; the model has one
  asset per name.
* A body of the announced length with a readable footer is genuine (TLS).
* Source timestamps of PMXT rows keep pace with receive timestamps, and claimed
  quotes are those of the venue after the message.
* The concurrency group serves its queue in order (`queue: max`) and is given
  away at once; an artifact lives for its retention from its upload on.  A
  publisher that is run again without its compute job finds no bundle
  (`missing`): that is how the workflow is written, and only re-running all jobs
  helps.  The authority, canary and receipt checks of the jobs of
  `AcceleratedBatch` and the digests of the staged receipt are left out.
* In `StagedDay` the reader's cap on the row groups it reads is part of `Starve`:
  it depends on how an object is laid out.  Its cap on all assets together is the
  sum of theirs.  In `SharedDay` the cap of the reader, on rows before they are
  deduplicated, is left out: it ends a run as the caps on events do (`cap`).
* `prepare_shared_day` and `run_partition` have no caller: the runs of
  `SharedDay` are those of the loop their parameters call for, with the same
  assets in every run.  Gamma resolves markets and does not take that back.  An
  object without a relevant market ends a run, and every later one
  (`irrelevant`); publishing a partition is one step, as is its acquisition.
* In `Canary` every proof of the instance has exclusions, a round's publication
  and remote verification are one step that accepts any markets, and bytes, wall
  time, disk and digests can only abort it.
* Not modelled: `rangeio.py`, the content of Gamma payloads and the official
  sources (payload validation without state), calendar helpers, Parquet layout
  and digests, the command line.  `PROJECT.json` lists each part with its reason.
* A killed child of `prepare_staged_day` leaves fragments under the work root;
  production uses a new temporary directory for every day, so the leftovers are
  not in `StagedDay`.

## 7. Plan

In this order:

1. `Planning`: `day_plan`, `command_plan` and the ledger over several releases
   and months, with the gates of the canary receipt and the authority between
   the commands.
2. `StagedDay` with the leftovers of a killed run, as far as a local work root
   can meet them.
3. `Publication` with the listing of pages, so that an asset may be listed twice
   or not at all while others are added.
