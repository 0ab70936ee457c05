---------------------------- MODULE Acquisition -----------------------------
(***************************************************************************)
(* One hourly object in the raw directory of a work root: BoundedAcquirer, *)
(* the retries of _acquire_with_retry around it, the scan that consumes    *)
(* the file, and the runs that are killed and repeated over the directory. *)
(*                                                                         *)
(* A version stands for the identity of the object upstream, its length    *)
(* and ETag, and for its bytes.  A body of the announced length with a     *)
(* readable footer is taken for the object: TLS vouches for the rest.      *)
(*                                                                         *)
(* The prefix Acq keeps the names apart from those of PartitionBuild, the  *)
(* next component over the same work root, where both are spoken of.       *)
(***************************************************************************)
EXTENDS Naturals

CONSTANTS
  Versions,
  Qualified,       \* the identity a receipt prescribes, or Nothing
  Short, Damaged,  \* a body that ends early, or one without a footer
  Delays,          \* Len(RETRY_DELAYS)
  MaxStarts,       \* bound: runs over the directory; the last is not killed
  MaxChanges,      \* bound: changes of the object upstream
  Nothing

Bodies  == Versions \cup {Short, Damaged}
Records == [identity : Versions, body : Bodies]

ASSUME AcquisitionAssumption ==
  /\ Qualified \in Versions \cup {Nothing}
  /\ {Short, Damaged} \cap Versions = {}
  /\ Nothing \notin Bodies \cup Records
  /\ Delays \in Nat /\ MaxStarts \in Nat /\ MaxChanges \in Nat

VARIABLES
  upstream,     \* the object as its server has it
  changes,      \* how often it changed
  final,        \* the acquired file, or Nothing
  record,       \* its identity record, or Nothing
  stage, cause, \* where the run is, and why it failed
  starts, attempt,
  expected,     \* the identity the run works with, or Nothing
  since         \* the changes when the run fixed it

files   == <<final, record>>
acqVars == <<upstream, changes, files, stage, cause, starts, attempt, expected, since>>

AcqWorking == {"probe", "attempt", "drop", "fetch", "record", "acquired"}

AcqInit ==
  /\ upstream \in Versions /\ changes = 0
  /\ final = Nothing /\ record = Nothing
  /\ stage = "off" /\ cause = "none"
  /\ starts = 0 /\ attempt = 0 /\ expected = Nothing /\ since = 0

-----------------------------------------------------------------------------
Enter(l)    == stage' = l /\ UNCHANGED cause
GiveUp(why) == stage' = "failed" /\ cause' = why

Begin ==
  /\ stage \in {"off", "failed"} /\ starts < MaxStarts
  /\ starts' = starts + 1 /\ attempt' = 0 /\ cause' = "none"
  /\ expected' = Qualified /\ since' = changes
  /\ stage' = IF Qualified = Nothing THEN "probe" ELSE "attempt"
  /\ UNCHANGED <<upstream, changes, files>>

\* _probe_source_identity
Probe ==
  /\ stage = "probe"
  /\ \/ expected' = upstream /\ since' = changes /\ Enter("attempt")
     \/ GiveUp("probe") /\ UNCHANGED <<expected, since>>
  /\ UNCHANGED <<upstream, changes, files, starts, attempt>>

\* Mutant of CacheMatches: the identity of the record is not compared.
CacheMatchesUnidentified == record # Nothing /\ final = record.body /\ final # Damaged

\* The cached file is what its record says, and the record what is expected.
CacheMatches ==
  record # Nothing /\ record.identity = expected /\ final = record.body /\ final # Damaged

\* Mutant of TryCache: another identity in the cache stops the run.
TryCacheStrictly ==
  /\ stage = "attempt"
  /\ \/ GiveUp("disk")
     \/ final = Nothing /\ Enter("fetch")
     \/ final # Nothing /\ CacheMatches /\ Enter("acquired")
     \/ /\ final # Nothing /\ ~CacheMatches
        /\ IF record # Nothing /\ record.identity # expected THEN GiveUp("identity") ELSE Enter("drop")
  /\ UNCHANGED <<upstream, changes, files, starts, attempt, expected, since>>

\* _verify_headroom and _verify_existing
TryCache ==
  /\ stage = "attempt"
  /\ \/ GiveUp("disk")
     \/ final = Nothing /\ Enter("fetch")
     \/ final # Nothing /\ CacheMatches /\ Enter("acquired")
     \/ final # Nothing /\ ~CacheMatches /\ Enter("drop")
  /\ UNCHANGED <<upstream, changes, files, starts, attempt, expected, since>>

\* The file and its record are unlinked, in this order.
Drop ==
  /\ stage = "drop"
  /\ \/ final # Nothing /\ final' = Nothing /\ UNCHANGED <<record, stage>>
     \/ final = Nothing /\ record' = Nothing /\ stage' = "fetch" /\ UNCHANGED final
  /\ UNCHANGED <<upstream, changes, cause, starts, attempt, expected, since>>

\* Mutant of Retry: attempts are not counted.
RetryForever == Enter("attempt") /\ UNCHANGED attempt

\* _acquire_with_retry: a transient error or a SourceError is retried.
Retry ==
  \/ attempt = Delays /\ GiveUp("exhausted") /\ UNCHANGED attempt
  \/ attempt < Delays /\ attempt' = attempt + 1 /\ Enter("attempt")

\* The download: refused, broken, of another object, or a body that is checked
\* before it replaces the file.
Fetch ==
  /\ stage = "fetch"
  /\ \/ GiveUp("refused") /\ UNCHANGED <<final, attempt>>
     \/ Retry /\ UNCHANGED final
     \/ upstream # expected /\ GiveUp("identity") /\ UNCHANGED <<final, attempt>>
     \/ /\ upstream = expected
        /\ \E b \in {upstream, Short, Damaged} :
             \/ b \in {Short, Damaged} /\ Retry /\ UNCHANGED final
             \/ b = upstream /\ final' = b /\ Enter("record") /\ UNCHANGED attempt
  /\ UNCHANGED <<upstream, changes, record, starts, expected, since>>

WriteRecord ==
  /\ stage = "record"
  /\ record' = [identity |-> expected, body |-> final]
  /\ Enter("acquired")
  /\ UNCHANGED <<upstream, changes, final, starts, attempt, expected, since>>

\* The scan is over: the file goes, its record stays.
Consume ==
  /\ stage = "acquired"
  /\ final' = Nothing /\ Enter("done")
  /\ UNCHANGED <<upstream, changes, record, starts, attempt, expected, since>>

\* The process is killed.
Kill ==
  /\ stage \in AcqWorking /\ starts < MaxStarts
  /\ Enter("off")
  /\ UNCHANGED <<upstream, changes, files, starts, attempt, expected, since>>

Change ==
  /\ changes < MaxChanges
  /\ changes' = changes + 1
  /\ upstream' \in Versions \ {upstream}
  /\ UNCHANGED <<files, stage, cause, starts, attempt, expected, since>>

AcqWork == Begin \/ Probe \/ TryCache \/ Drop \/ Fetch \/ WriteRecord \/ Consume

AcqNext == AcqWork \/ Kill \/ Change

AcqSpec == AcqInit /\ [][AcqNext]_acqVars

\* The operator runs the command again until it succeeds or MaxStarts is reached.
AcqFairSpec == AcqSpec /\ WF_acqVars(AcqWork)

-----------------------------------------------------------------------------
(***************************************************************************)
(* Properties.                                                             *)
(***************************************************************************)
AcqTypeOK ==
  /\ upstream \in Versions /\ changes \in 0..MaxChanges
  /\ final \in Bodies \cup {Nothing} /\ record \in Records \cup {Nothing}
  /\ stage \in AcqWorking \cup {"off", "failed", "done"}
  /\ cause \in {"none", "probe", "disk", "identity", "refused", "exhausted"}
  /\ starts \in 0..MaxStarts /\ attempt \in 0..Delays
  /\ expected \in Versions \cup {Nothing} /\ since \in 0..MaxChanges

\* BoundedAcquirer: what the scan reads is, byte for byte, the object whose
\* identity the run fixed before, whichever runs left which files behind.
ScansTheExpected == stage = "acquired" => final = expected

\* _verify_existing: a file another run left behind never stops this one.  An
\* identity conflict means that the object changed after the run probed it, or
\* is not the one the receipt prescribes.
IdentityMeansChange ==
  cause = "identity" => changes > since \/ Qualified \notin {Nothing, upstream}

\* "Bounded": an attempt leads to the object, or to the end of the run.
EveryRunEnds == stage = "attempt" ~> stage \in {"acquired", "failed", "off"}
=============================================================================
