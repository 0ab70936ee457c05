----------------------------- MODULE StagedDay -----------------------------
(***************************************************************************)
(* prepare_staged_day of scripts/run_backfill.py: the hourly objects of    *)
(* the PMXT archive are acquired one after the other, each is scanned once *)
(* for the markets it may concern, and a market is staged as soon as the   *)
(* object in which it ends has been scanned.  Until then its events wait   *)
(* in compressed "pending" fragments; those of the object being handled    *)
(* are in "current" fragments.                                             *)
(*                                                                         *)
(* Time is counted in 15-minute windows.  A market is an asset and the     *)
(* window in which it starts and ends; an object is named by the window at *)
(* which its hour starts.  An event is what order_and_deduplicate tells    *)
(* apart, so a set of events is the deduplicated content of a fragment.    *)
(* An object may hold several rows of one event: the reader counts rows,   *)
(* the lifecycle counts events.                                            *)
(***************************************************************************)
EXTENDS Integers, FiniteSets

CONSTANTS
  Assets,
  Slots,        \* the windows of the UTC day that can hold a market (96)
  Windows,      \* the windows of an hour, and of a market's warm-up (4)
  Horizon,      \* no object starts after this window
  Gaps,         \* PMXT_HTTP_404_GAPS: objects the archive does not have
  Events,
  Copies,       \* tells apart the rows an object repeats of one event
  Archives,     \* the contents the archive may have
  RowCap,       \* PMXT_ROWS_PER_MARKET_OBJECT_WITH_MARGIN
  Starving      \* can disk, memory or an acquisition fail?

Market == [asset : Assets, start : Slots]

\* The window at which the hour of window x starts.
Hour(x) == x - (x % Windows)

Hours == {x \in 0..Horizon : Hour(x) = x}

End(m) == m.start + 1

\* pmxt_hourly_objects and the causal interval of a market: one hour of warm-up
\* before it starts, to its end.

\* Mutant of Relevant: no warm-up.
RelevantNoWarmUp(m, t) == End(m) > t /\ m.start < t + Windows

\* _markets_relevant_to_source
Relevant(m, t) == End(m) > t /\ m.start - Windows < t + Windows

ASSUME StagedDayAssumption ==
  /\ Windows \in Nat \ {0} /\ Horizon \in Nat /\ RowCap \in Nat
  /\ IsFiniteSet(Events) /\ IsFiniteSet(Copies)
  /\ Slots \subseteq Nat
  /\ \A s \in Slots : Hour(s) + Windows <= Horizon
  /\ Archives \subseteq [Hours \X Market -> SUBSET (Events \X Copies)]
  /\ Starving \in BOOLEAN

\* The other capacity breakers are derived from RowCap: two objects per market,
\* the markets of two hours per object, and all the windows of the day.

\* Mutant of MarketDayCap: the margin of one object.
MarketDayCapOneObject == RowCap

MarketDayCap   == 2 * RowCap
AssetObjectCap == 2 * Windows * RowCap
AssetDayCap    == MarketDayCap * Cardinality(Slots)

VARIABLES
  markets,      \* the markets Gamma knows; the other windows become exclusions
  archive,      \* what the objects hold
  pc,           \* "source", "market", "done" or "failed"
  reason,       \* why the day failed
  source,       \* the object that is, or is next, handled
  todo,         \* its relevant markets that are still to handle
  current,      \* market -> events of its current fragments
  pending,      \* market -> events of its pending fragments
  staged,       \* market -> events given to stage_market
  finalized,    \* staged_conditions
  objectRows,   \* object_asset_counts: rows of the current object, by asset
  marketRows,   \* day_market_counts
  assetRows     \* day_asset_counts

inputs == <<markets, archive>>
counts == <<objectRows, marketRows, assetRows>>
vars == <<inputs, pc, reason, source, todo, current, pending, staged,
          finalized, counts>>

-----------------------------------------------------------------------------
FirstStart == CHOOSE s \in {m.start : m \in markets} : \A m \in markets : s <= m.start
LastEnd    == CHOOSE e \in {End(m) : m \in markets} : \A m \in markets : End(m) <= e

\* pmxt_hourly_objects(first start - 1 hour, last end)
FirstSource == Hour(IF FirstStart >= Windows THEN FirstStart - Windows ELSE 0)

\* Mutant of LastSource: the loop over the hours stops one short.
LastSourceExclusive == Hour(LastEnd - 1) - Windows

LastSource == Hour(LastEnd - 1)

NextSource == source + Windows

\* The rows of object t that pass the filters of market m: its condition, its
\* tokens and its causal interval.
RawRows(m, t) == IF t \in Gaps THEN {} ELSE archive[<<t, m>>]

\* The events the scan of object t leaves of market m.
Rows(m, t) == {r[1] : r \in RawRows(m, t)}

\* The markets of asset a that object t concerns.
Concerned(a, t) == {m \in markets : m.asset = a /\ Relevant(m, t)}

Empty == [m \in Market |-> {}]

Fail(why) == pc' = "failed" /\ reason' = why

Init ==
  /\ markets \in SUBSET Market
  /\ archive \in Archives
  /\ pc = IF markets = {} THEN "done" ELSE "source"
  /\ source = IF markets = {} THEN 0 ELSE FirstSource
  /\ reason = "none"
  /\ todo = {} /\ finalized = {}
  /\ current = Empty /\ pending = Empty /\ staged = Empty
  /\ objectRows = [a \in Assets |-> 0]
  /\ assetRows = [a \in Assets |-> 0]
  /\ marketRows = [m \in Market |-> 0]

\* partition_output_rows: the rows of asset a in the current object, counted
\* before order_and_deduplicate.
ScannedRows(a) ==
  Cardinality(UNION {{m} \X RawRows(m, source) : m \in Concerned(a, source)})

Overcrowded == \E a \in Assets : Cardinality(Concerned(a, source)) > 2 * Windows
Unconcerned == \A a \in Assets : Concerned(a, source) = {}
Overfull    == \E a \in Assets : ScannedRows(a) > AssetObjectCap

\* The object is refused: too many markets, none at all, or more rows of an
\* asset than the reader admits.  Its cap on all assets together is the sum of
\* theirs, so it is not exceeded alone; its cap on the row groups it reads is a
\* matter of how the object is laid out and part of Starve.
RefuseSource ==
  /\ pc = "source" /\ source <= LastSource
  /\ \/ Overcrowded /\ Fail("inventory")
     \/ ~Overcrowded /\ Unconcerned /\ Fail("irrelevant")
     \/ ~Overcrowded /\ ~Unconcerned /\ Overfull /\ Fail("scan")
  /\ UNCHANGED <<inputs, source, todo, current, pending, staged, finalized, counts>>

\* The object is acquired and scanned into current fragments, or skipped when
\* the archive is known not to have it.
ScanSource ==
  /\ pc = "source" /\ source <= LastSource
  /\ ~Overcrowded /\ ~Unconcerned /\ ~Overfull
  /\ todo' = {m \in markets : Relevant(m, source)}
  /\ current' = [m \in Market |-> IF m \in todo' THEN Rows(m, source) ELSE {}]
  /\ objectRows' = [a \in Assets |-> 0]
  /\ pc' = "market"
  /\ UNCHANGED <<inputs, reason, source, pending, staged, finalized, marketRows, assetRows>>

-----------------------------------------------------------------------------
(***************************************************************************)
(* The markets of the object, in the order of their condition ids, which   *)
(* has nothing to do with their windows.                                   *)
(***************************************************************************)

\* enforce_shared_pmxt_asset_caps and the object's own count of the asset.
OverCap(m) ==
  LET n == Cardinality(current[m]) IN
  \/ objectRows[m.asset] + n > AssetObjectCap
  \/ n > RowCap
  \/ marketRows[m] + n > MarketDayCap
  \/ assetRows[m.asset] + n > AssetDayCap

RefuseMarket(m) ==
  /\ pc = "market" /\ m \in todo
  /\ OverCap(m) /\ Fail("cap")
  /\ UNCHANGED <<inputs, source, todo, current, pending, staged, finalized, counts>>

\* The market's rows are counted and its current fragments removed.
Count(m) ==
  LET n == Cardinality(current[m]) IN
  /\ pc = "market" /\ m \in todo
  /\ ~OverCap(m)
  /\ todo' = todo \ {m}
  /\ current' = [current EXCEPT ![m] = {}]
  /\ objectRows' = [objectRows EXCEPT ![m.asset] = @ + n]
  /\ marketRows' = [marketRows EXCEPT ![m] = @ + n]
  /\ assetRows' = [assetRows EXCEPT ![m.asset] = @ + n]
  /\ UNCHANGED <<inputs, pc, reason, source>>

\* The market ends in the hour of the current object.
Ends(m) == End(m) <= source + Windows

\* Mutant of StageMarket: what was pending is forgotten.
StageMarketCurrent(m) ==
  /\ Count(m) /\ Ends(m)
  /\ staged' = [staged EXCEPT ![m] = current[m]]
  /\ finalized' = finalized \cup {m}
  /\ pending' = [pending EXCEPT ![m] = {}]

\* Mutant of StageMarket: the pending fragments are left behind.
StageMarketLeaves(m) ==
  /\ Count(m) /\ Ends(m)
  /\ staged' = [staged EXCEPT ![m] = pending[m] \cup current[m]]
  /\ finalized' = finalized \cup {m}
  /\ UNCHANGED pending

\* The market is complete: it is staged with all its events.
StageMarket(m) ==
  /\ Count(m) /\ Ends(m)
  /\ staged' = [staged EXCEPT ![m] = pending[m] \cup current[m]]
  /\ finalized' = finalized \cup {m}
  /\ pending' = [pending EXCEPT ![m] = {}]

\* The market needs a later object: its events wait.
KeepMarket(m) ==
  /\ Count(m) /\ ~Ends(m)
  /\ pending' = [pending EXCEPT ![m] = @ \cup current[m]]
  /\ UNCHANGED <<staged, finalized>>

-----------------------------------------------------------------------------
\* The checks after the last market of the object, and the next object.
CloseSource ==
  /\ pc = "market" /\ todo = {}
  /\ \/ /\ current # Empty /\ Fail("escaped") /\ UNCHANGED source
     \/ /\ current = Empty
        /\ ~({m \in markets : Ends(m)} \subseteq finalized)
        /\ Fail("unfinalized") /\ UNCHANGED source
     \/ /\ current = Empty
        /\ {m \in markets : Ends(m)} \subseteq finalized
        /\ source' = NextSource
        /\ pc' = "source"
        /\ UNCHANGED reason
  /\ UNCHANGED <<inputs, todo, current, pending, staged, finalized, counts>>

\* The checks after the last object.
Finish ==
  /\ pc = "source" /\ source > LastSource
  /\ \/ finalized # markets /\ Fail("incomplete")
     \/ finalized = markets /\ pending # Empty /\ Fail("retained")
     \/ finalized = markets /\ pending = Empty /\ pc' = "done" /\ UNCHANGED reason
  /\ UNCHANGED <<inputs, source, todo, current, pending, staged, finalized, counts>>

\* Free disk or memory below the reserve, an object that cannot be acquired or is
\* not the qualified one, or row groups beyond the reader's cap.
Starve ==
  /\ Starving /\ pc \in {"source", "market"}
  /\ Fail("resource")
  /\ UNCHANGED <<inputs, source, todo, current, pending, staged, finalized, counts>>

Handle(m) == RefuseMarket(m) \/ StageMarket(m) \/ KeepMarket(m)

Next ==
  \/ RefuseSource \/ ScanSource \/ CloseSource \/ Finish \/ Starve
  \/ \E m \in Market : Handle(m)

Spec == Init /\ [][Next]_vars

\* The child process runs until it returns or raises.
FairSpec == Spec /\ WF_vars(Next)

-----------------------------------------------------------------------------
(***************************************************************************)
(* Properties.                                                             *)
(***************************************************************************)

TypeOK ==
  /\ markets \subseteq Market /\ archive \in Archives
  /\ pc \in {"source", "market", "done", "failed"}
  /\ source \in Hours
  /\ todo \subseteq markets /\ finalized \subseteq markets
  /\ current \in [Market -> SUBSET Events]
  /\ pending \in [Market -> SUBSET Events]
  /\ staged \in [Market -> SUBSET Events]
  /\ objectRows \in [Assets -> 0..AssetObjectCap]
  /\ assetRows \in [Assets -> 0..AssetDayCap]
  /\ marketRows \in [Market -> 0..MarketDayCap]

\* What the reading of the whole archive at once would give a market.
Content(m) == UNION {Rows(m, t) : t \in {u \in Hours : Relevant(m, u)}}

\* docs/storage-and-execution-architecture.md: staging as the hours close
\* preserves the result of the full-spool path.  A staged market has every
\* event of every object it concerns, and the market handed to the pipeline is
\* never staged before its last object or without its pending fragments.
StagedIsComplete == \A m \in finalized : staged[m] = Content(m)

\* "Only the four future 15-minute windows per asset can remain in the pending
\* fragment set after an hourly source pass", and no fragment of a staged
\* market is left at any time: this is what bounds the disk.
PendingIsFuture ==
  /\ pc = "source" =>
       \A m \in Market : pending[m] # {} => m.start \in source..(source + Windows - 1)
  /\ \A m \in finalized : pending[m] = {} /\ current[m] = {}

\* The asset and day breakers are derived from the breaker of one market and one
\* object: those of the lifecycle stop a day only if some object holds too many
\* events of one market.  The reader counts what it has not yet deduplicated: it
\* stops a day only if some object holds too many rows of one market, be they
\* repetitions of a few events.
OnlyRowCapBinds ==
  /\ reason = "cap" => \E m \in markets, t \in Hours :
                         Relevant(m, t) /\ Cardinality(Rows(m, t)) > RowCap
  /\ reason = "scan" => \E m \in markets, t \in Hours :
                          Relevant(m, t) /\ Cardinality(RawRows(m, t)) > RowCap

\* The lifecycle's own alarms cannot go off, whatever markets Gamma knows, in
\* whatever order they are handled.
NoAlarm ==
  reason \notin {"inventory", "escaped", "unfinalized", "incomplete", "retained"}

\* The discovered markets leave two hours in a row without any market.
Sparse ==
  \E t \in Hours :
    /\ FirstStart < t /\ t + 2 * Windows < LastEnd
    /\ \A m \in markets : m.start \notin t..(t + 2 * Windows - 1)

\* A day is staged unless a resource or a breaker of rows stops it, or Gamma knows
\* no market of any asset in two successive hours inside the day: there the
\* exclusions that discovery allows for missing markets do not help.
DayIsStaged ==
  (pc = "source" /\ ~Sparse) ~> (pc = "done" \/ reason \in {"resource", "cap", "scan"})
=============================================================================
