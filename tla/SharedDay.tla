----------------------------- MODULE SharedDay -----------------------------
(***************************************************************************)
(* prepare_shared_day of scripts/run_backfill.py and the partitions built  *)
(* from its spool by run_partition, over a work root that survives runs.   *)
(*                                                                         *)
(* A run asks Gamma for the markets of each asset, keeping the payloads,   *)
(* then scans one hourly object after the other and appends what it holds  *)
(* of each asset to an SQLite spool, one transaction per asset.  state.json*)
(* records an object after its last transaction.  A run that finds events  *)
(* of unrecorded objects discards them and counts the rest.  The spool is  *)
(* read to build the partitions; a published partition leaves the ledger   *)
(* entry behind and takes the payloads of its asset along.                 *)
(*                                                                         *)
(* Time is counted in 15-minute windows.  A market is an asset and the     *)
(* window in which it starts and ends; an object is named by the window at *)
(* which its hour starts.  Acquisition models how an object is acquired:   *)
(* here the scan reads the version that was probed.  PartitionBuild models *)
(* how a partition is built and published: here that is one step.          *)
(*                                                                         *)
(* No command of the repository calls the two functions any more: the runs *)
(* are those of the loop their parameters call for.                        *)
(***************************************************************************)
EXTENDS Integers, FiniteSets, FiniteSetsExt

CONSTANTS
  Assets,       \* numbered in the order of the enumeration
  Slots,        \* the windows of the day that can hold a market
  Windows,      \* the windows of an hour, and of a market's warm-up (4)
  Horizon,      \* no object starts after this window
  Gaps,         \* PMXT_HTTP_404_GAPS: objects the archive does not have
  Versions,     \* versions of an object
  Size,         \* version -> byte_length
  Pinned,       \* the version of expected_source_identities
  RowCount,     \* version -> the rows it has of each relevant market, without
                \*   duplicates (the reader bounds them with duplicates, and
                \*   fails as the bounds below do)
  Late,         \* the markets that Gamma may not know, or only after a while
  MarketCap,    \* PMXT_ROWS_PER_MARKET_WITH_MARGIN
  AssetCap,     \* PMXT_FILTERED_ROWS_PER_ASSET_DAY
  ObjectMarketCap,  \* PMXT_ROWS_PER_MARKET_OBJECT_WITH_MARGIN
  ObjectAssetCap,   \* PMXT_FILTERED_ROWS_PER_ASSET_OBJECT
  MaxChanges,   \* bound: changes of objects upstream
  MaxRuns       \* bound: runs over the work root

None == "none"

Market == Assets \X Slots

Hour(x) == x - (x % Windows)
Hours == {x \in 0..Horizon : Hour(x) = x}

ASSUME SharedDayAssumption ==
  /\ Windows \in Nat \ {0} /\ Horizon \in Nat
  /\ IsFiniteSet(Assets) /\ Assets \subseteq Nat /\ IsFiniteSet(Slots) /\ Slots \subseteq Nat
  /\ \A s \in Slots : Windows <= s /\ Hour(s) <= Horizon
  /\ IsFiniteSet(Versions) /\ Pinned \in Versions
  /\ Size \in [Versions -> Nat] /\ RowCount \in [Versions -> Nat]
  /\ Gaps \subseteq Hours /\ Late \subseteq Market
  /\ MarketCap \in Nat /\ AssetCap \in Nat
  /\ ObjectMarketCap \in Nat /\ ObjectAssetCap \in Nat
  /\ MaxChanges \in Nat /\ MaxRuns \in Nat \ {0}

VARIABLES
  upstream,    \* object -> its current version
  gamma,       \* the markets Gamma knows
  changes,
  \* the work root
  cache,       \* the asked markets whose payload is kept: <<market, known>>
  spool,       \* the rows of events.sqlite: <<market, object, number, version>>
  completed,   \* completed_urls of state.json: <<object, version>>
  bytes,       \* source_bytes of state.json
  gaps,        \* source_gaps of state.json
  ledger,      \* the entries: asset, and what its partition was built from
  \* the run
  pc, reason,
  runs,
  found,       \* the markets of discoveries
  object,      \* the object that is, or is next, handled
  version,     \* the version of it that was acquired
  todo,        \* the assets it is still to be scanned for
  counts,      \* day_market_counts
  \* the parameters of the runs
  qualified,   \* are expected identities given?
  expected     \* expected_market_identities

worldVars  == <<upstream, gamma, changes, qualified, expected>>
stateVars  == <<completed, bytes, gaps>>
durable    == <<cache, spool, stateVars, ledger>>
memoryVars == <<found, object, version, todo, counts>>
vars == <<worldVars, durable, pc, reason, runs, memoryVars>>

Init ==
  /\ upstream = [o \in Hours |-> Pinned]
  /\ gamma \in {Market \ unknown : unknown \in SUBSET Late} /\ changes = 0
  /\ qualified \in BOOLEAN /\ expected = IF qualified THEN gamma ELSE {}
  /\ cache = {} /\ spool = {} /\ completed = {} /\ bytes = 0 /\ gaps = {}
  /\ ledger = {}
  /\ pc = "idle" /\ reason = None /\ runs = 0
  /\ found = {} /\ object = 0 /\ version = Pinned /\ todo = {}
  /\ counts = [m \in Market |-> 0]

-----------------------------------------------------------------------------
Fail(why) == pc' = "failed" /\ reason' = why

\* _markets_relevant_to_source: the last object of a market is that of its hour,
\* the first one that of its warm-up.
Relevant(m, o) == m[2] + 1 > o /\ m[2] - Windows < o + Windows

Concerned(a, o) == {m \in found : m[1] = a /\ Relevant(m, o)}

\* The rows the scan of version v of object o keeps of some markets.
Rows(o, v, markets) ==
  UNION {{<<m, o, k, v>> : k \in 1..RowCount[v]} : m \in {m \in markets : Relevant(m, o)}}

RowsOf(m, rows) == {r \in rows : r[1] = m}

\* pmxt_hourly_objects(first start - 1 hour, last end)
FirstObject(markets) == Hour(Min({m[2] : m \in markets}) - Windows)
LastObject(markets)  == Hour(Max({m[2] : m \in markets}))

\* _validate_expected_market_identities
Disagrees(markets) == qualified /\ markets # expected

\* The sum of the totals of some markets, as the number of pairs <<market, row>>.
Sum(total, markets) == Cardinality(UNION {{m} \X (1..total[m]) : m \in markets})

\* Do these totals of some markets exceed the bounds of a day?
Exceeds(total, markets) ==
  \/ \E m \in markets : total[m] > MarketCap
  \/ \E a \in Assets : Sum(total, {m \in markets : m[1] = a}) > AssetCap

Recorded == {c[1] : c \in completed}

\* discard_uncommitted_sources leaves the rows of the recorded objects.
Kept == {r \in spool : r[2] \in Recorded}

\* _restore_shared_pmxt_counts refuses rows of another market, and too many.
Refusal(markets) ==
  LET total == [m \in markets |-> Cardinality(RowsOf(m, Kept))] IN
  IF \E r \in Kept : r[1] \notin markets THEN "inventory"
  ELSE IF Exceeds(total, markets) THEN "resumed" ELSE None

AskedFor == {c[1] : c \in cache}

Published == {e.asset : e \in ledger}

-----------------------------------------------------------------------------
(***************************************************************************)
(* The world.                                                              *)
(***************************************************************************)

Change(o, v) ==
  /\ changes < MaxChanges /\ v # upstream[o]
  /\ upstream' = [upstream EXCEPT ![o] = v]
  /\ changes' = changes + 1
  /\ UNCHANGED <<gamma, qualified, expected, durable, pc, reason, runs, memoryVars>>

\* A market is resolved that was not when Gamma was first asked.
Resolve(m) ==
  /\ m \in Late \ gamma /\ runs > 0
  /\ gamma' = gamma \cup {m}
  /\ UNCHANGED <<upstream, changes, qualified, expected, durable, pc, reason, runs, memoryVars>>

-----------------------------------------------------------------------------
(***************************************************************************)
(* prepare_shared_day.                                                     *)
(***************************************************************************)

Begin ==
  /\ pc \in {"idle", "failed"} /\ runs < MaxRuns
  /\ runs' = runs + 1
  /\ pc' = "discover" /\ reason' = None
  /\ UNCHANGED <<worldVars, durable, memoryVars>>

\* The payload of the next market, kept whatever it says.
Ask(m) ==
  /\ pc = "discover" /\ m \notin AskedFor
  /\ \A n \in Market \ AskedFor : m[1] < n[1] \/ (m[1] = n[1] /\ m[2] <= n[2])
  /\ cache' = cache \cup {<<m, m \in gamma>>}
  /\ UNCHANGED <<worldVars, spool, stateVars, ledger, pc, reason, runs, memoryVars>>

\* Mutant: the rows of unrecorded objects stay.
RestoreEverything ==
  LET markets == {m \in Market : <<m, TRUE>> \in cache} IN
  /\ pc = "discover" /\ AskedFor = Market
  /\ found' = markets
  /\ IF markets = {}
     THEN pc' = "build" /\ UNCHANGED <<object, counts>>
     ELSE /\ counts' = [m \in Market |-> Cardinality(RowsOf(m, spool))]
          /\ object' = FirstObject(markets)
          /\ pc' = "source"
  /\ UNCHANGED <<worldVars, cache, spool, stateVars, ledger, reason, runs, version, todo>>

\* Mutant: the rows are counted before some are discarded.
CountThenDiscard ==
  LET markets == {m \in Market : <<m, TRUE>> \in cache} IN
  /\ pc = "discover" /\ AskedFor = Market
  /\ found' = markets
  /\ IF markets = {}
     THEN pc' = "build" /\ UNCHANGED <<spool, object, counts>>
     ELSE /\ counts' = [m \in Market |-> Cardinality(RowsOf(m, spool))]
          /\ spool' = {r \in spool : r[2] \in Recorded}
          /\ object' = FirstObject(markets)
          /\ pc' = "source"
  /\ UNCHANGED <<worldVars, cache, stateVars, ledger, reason, runs, version, todo>>

\* Everything is asked for, and must be what is expected.  Without any market the
\* spool stays empty; otherwise the rows of unrecorded objects are discarded and
\* the others counted, and compared with the bounds again.
Restore ==
  LET markets == {m \in Market : <<m, TRUE>> \in cache} IN
  /\ pc = "discover" /\ AskedFor = Market
  /\ found' = markets
  /\ IF Disagrees(markets)
     THEN Fail("authority") /\ UNCHANGED <<spool, object, counts>>
     ELSE IF markets = {}
     THEN pc' = "build" /\ UNCHANGED <<spool, object, counts, reason>>
     ELSE /\ spool' = Kept
          /\ counts' = [m \in Market |-> Cardinality(RowsOf(m, Kept))]
          /\ object' = FirstObject(markets)
          /\ IF Refusal(markets) = None
             THEN pc' = "source" /\ UNCHANGED reason
             ELSE Fail(Refusal(markets))
  /\ UNCHANGED <<worldVars, cache, stateVars, ledger, runs, version, todo>>

Skip ==
  /\ pc = "source" /\ object <= LastObject(found)
  /\ object \in Recorded
  /\ object' = object + Windows
  /\ UNCHANGED <<worldVars, durable, pc, reason, runs, found, version, todo, counts>>

\* Mutant: the gap is recorded again and again.
RecordGapInPlace ==
  /\ pc = "source" /\ object <= LastObject(found)
  /\ object \notin Recorded /\ object \in Gaps
  /\ gaps' = gaps \cup {object}
  /\ UNCHANGED <<worldVars, cache, spool, completed, bytes, ledger, pc, reason, runs, memoryVars>>

RecordGap ==
  /\ pc = "source" /\ object <= LastObject(found)
  /\ object \notin Recorded /\ object \in Gaps
  /\ gaps' = gaps \cup {object}
  /\ object' = object + Windows
  /\ UNCHANGED <<worldVars, cache, spool, completed, bytes, ledger, pc, reason, runs,
                 found, version, todo, counts>>

\* Mutant: the bytes are added to state.json when they arrive.
AcquireAndAddBytes ==
  /\ pc = "source" /\ object <= LastObject(found)
  /\ object \notin Recorded /\ object \notin Gaps
  /\ version' = upstream[object]
  /\ todo' = Assets
  /\ bytes' = bytes + Size[upstream[object]]
  /\ pc' = "scan"
  /\ UNCHANGED <<worldVars, cache, spool, completed, gaps, ledger, reason, runs, found, object,
                 counts>>

\* _validate_expected_source_identity
Unqualified(v) == qualified /\ v # Pinned

\* _acquire_with_retry
Acquire ==
  /\ pc = "source" /\ object <= LastObject(found)
  /\ object \notin Recorded /\ object \notin Gaps
  /\ version' = upstream[object]
  /\ todo' = Assets
  /\ IF Unqualified(upstream[object])
     THEN Fail("source")
     ELSE pc' = "scan" /\ UNCHANGED reason
  /\ UNCHANGED <<worldVars, durable, runs, found, object, counts>>

\* enforce_shared_pmxt_asset_caps, with the rows of asset a: the bounds of an
\* object, then those of the day.
OverCap(a, rows) ==
  LET mine == {m \in found : m[1] = a}
      new == [m \in mine |-> Cardinality(RowsOf(m, rows))]
      after == [m \in mine |-> counts[m] + Cardinality(RowsOf(m, rows))]
  IN \/ Sum(new, mine) > ObjectAssetCap
     \/ \E m \in mine : new[m] > ObjectMarketCap
     \/ Exceeds(after, mine)

\* EventSpool.append raises when a key is there already.
Clashes(rows) == \E r \in rows, q \in spool : r[1] = q[1] /\ r[2] = q[2] /\ r[3] = q[3]

\* EventSpool.append: all rows of the transaction, or none.
Commit(a, rows) ==
  IF Clashes(rows)
  THEN Fail("conflict") /\ UNCHANGED <<spool, todo>>
  ELSE /\ spool' = spool \cup rows
       /\ todo' = todo \ {a}
       /\ UNCHANGED <<pc, reason>>

\* The object is scanned for asset a, and the transaction committed.
Append(a) ==
  LET rows == Rows(object, version, Concerned(a, object)) IN
  /\ pc = "scan" /\ a \in todo /\ \A b \in todo : a <= b
  /\ IF OverCap(a, rows)
     THEN Fail("cap") /\ UNCHANGED <<spool, todo, counts>>
     ELSE /\ counts' = [m \in Market |-> counts[m] + Cardinality(RowsOf(m, rows))]
          /\ Commit(a, rows)
  /\ UNCHANGED <<worldVars, cache, stateVars, ledger, runs, found, object, version>>

\* The object is recorded.
Complete ==
  /\ pc = "scan" /\ todo = {}
  /\ IF \E a \in Assets : Concerned(a, object) # {}
     THEN /\ completed' = completed \cup {<<object, version>>}
          /\ bytes' = bytes + Size[version]
          /\ object' = object + Windows
          /\ pc' = "source"
          /\ UNCHANGED reason
     ELSE /\ Fail("irrelevant")
          /\ UNCHANGED <<completed, bytes, object>>
  /\ UNCHANGED <<worldVars, cache, spool, gaps, ledger, runs, found, version, todo, counts>>

Prepared ==
  /\ pc = "source" /\ object > LastObject(found)
  /\ pc' = "build"
  /\ UNCHANGED <<worldVars, durable, reason, runs, memoryVars>>

-----------------------------------------------------------------------------
(***************************************************************************)
(* run_partition.                                                          *)
(***************************************************************************)

\* EventSpool.load of each of some markets.
Loaded(markets) == UNION {RowsOf(m, spool) : m \in markets}

\* The partition of asset a is built from the spool and published, its ledger
\* entry written.
Publish(a) ==
  /\ pc = "build" /\ a \in Assets \ Published
  /\ \A b \in Assets \ Published : a <= b
  /\ ledger' = ledger \cup
       {[asset   |-> a,
         markets |-> {m \in found : m[1] = a},
         rows    |-> Loaded({m \in found : m[1] = a}),
         sources |-> IF found = {} THEN {} ELSE completed,
         gaps    |-> IF found = {} THEN {} ELSE gaps]}
  /\ pc' = "clean" /\ todo' = {a}
  /\ UNCHANGED <<worldVars, cache, spool, stateVars, reason, runs, found, object, version, counts>>

\* Mutant: the payloads of the other assets go as well.
CleanEverything ==
  /\ pc = "clean"
  /\ cache' = {} /\ pc' = "build" /\ todo' = {}
  /\ UNCHANGED <<worldVars, spool, stateVars, ledger, reason, runs, found, object, version, counts>>

\* The directory of the asset is removed, one kept payload after the other.
Clean ==
  LET mine == {c \in cache : c[1][1] \in todo} IN
  /\ pc = "clean"
  /\ IF mine = {}
     THEN pc' = "build" /\ todo' = {} /\ UNCHANGED cache
     ELSE (\E c \in mine : cache' = cache \ {c}) /\ UNCHANGED <<pc, todo>>
  /\ UNCHANGED <<worldVars, spool, stateVars, ledger, reason, runs, found, object, version, counts>>

End ==
  /\ pc = "build" /\ Published = Assets
  /\ pc' = "done"
  /\ UNCHANGED <<worldVars, durable, reason, runs, memoryVars>>

\* The run is killed, or fails in a way that the next run may not meet (a
\* download, the disk margin); the last run is not.
Kill ==
  /\ pc \notin {"idle", "failed", "done"} /\ runs < MaxRuns
  /\ pc' = "idle"
  /\ UNCHANGED <<worldVars, durable, reason, runs, memoryVars>>

-----------------------------------------------------------------------------
Step ==
  \/ Begin \/ (\E m \in Market : Ask(m)) \/ Restore
  \/ Skip \/ RecordGap \/ Acquire \/ (\E a \in Assets : Append(a)) \/ Complete \/ Prepared
  \/ (\E a \in Assets : Publish(a)) \/ Clean \/ End

World ==
  \/ \E o \in Hours, v \in Versions : Change(o, v)
  \/ \E m \in Market : Resolve(m)

Next == Step \/ World \/ Kill

Spec == Init /\ [][Next]_vars

FairSpec == Spec /\ WF_vars(Step)

-----------------------------------------------------------------------------
Row == Market \X Hours \X Nat \X Versions

TypeOK ==
  /\ upstream \in [Hours -> Versions] /\ gamma \subseteq Market /\ changes \in 0..MaxChanges
  /\ qualified \in BOOLEAN /\ expected \subseteq Market
  /\ cache \subseteq Market \X BOOLEAN
  /\ spool \subseteq Row
  /\ ledger \subseteq [asset : Assets, markets : SUBSET Market, rows : SUBSET Row,
                       sources : SUBSET (Hours \X Versions), gaps : SUBSET Gaps]
  /\ completed \subseteq Hours \X Versions /\ bytes \in Nat /\ gaps \subseteq Gaps
  /\ pc \in {"idle", "discover", "source", "scan", "build", "clean", "done", "failed"}
  /\ reason \in {None, "authority", "inventory", "resumed", "source", "cap", "conflict",
                 "irrelevant"}
  /\ runs \in 0..MaxRuns
  /\ found \subseteq Market /\ object \in Nat /\ version \in Versions
  /\ todo \subseteq Assets /\ counts \in [Market -> Nat]

\* The objects that concern market m.
Needed(m) == {o \in Hours : Relevant(m, o)}

\* What a partition was published from: of each object its markets need, all the
\* rows of one version, which its provenance names, unless the object is a gap.
ProvenanceIsExact ==
  \A e \in ledger : \A m \in e.markets : \A o \in Needed(m) :
    LET rows == {r \in e.rows : r[1] = m /\ r[2] = o} IN
    \/ o \in e.gaps /\ rows = {}
    \/ \E v \in Versions : <<o, v>> \in e.sources /\ rows = Rows(o, v, {m})

\* Whatever earlier runs left behind, no run meets a row that is there already,
\* one of a market it does not know, or more than the bounds allow.
LeftoversAreHarmless == reason \notin {"conflict", "inventory", "resumed"}

\* The counts that the capacity bounds are compared with are those of the spool:
\* no row is counted twice after a resume and none is forgotten.
CountsAreOfTheSpool ==
  pc \in {"source", "scan"} =>
    \A m \in Market : counts[m] = Cardinality(RowsOf(m, spool))

Log == INSTANCE SourceLog WITH
         Objects <- Hours, Inventories <- SUBSET Market,
         counted <- completed,
         rows <- {r \in spool : r[2] \in Recorded}

\* Every object is counted once, although it takes several transactions and a
\* file, any of which may be the last of a run.
SourcesAreCountedOnce == Log!Spec

\* The partitions get published, unless a bound is exceeded, the markets or the
\* sources are not the qualified ones, or an object concerns no market.
DayEnds ==
  <>(\/ pc = "done"
     \/ /\ pc = "failed"
        /\ reason \in {"cap", "authority", "source", "irrelevant"})
=============================================================================
