------------------------- MODULE Publication_proofs -------------------------
(***************************************************************************)
(* Proofs about Publication, for any number of runs, partitions, files and *)
(* builds.  With every fault and late commits by GitHub: the types, that a *)
(* complete partition is the work of one recomputation, and that only an   *)
(* interrupted run makes a later one meet a conflict.  With every POST     *)
(* settled before its client gives it up: that no file ever has two        *)
(* contents, that what was reported stays durable, that the runs implement *)
(* DurablePartitions, and that racing runs do not make each other fail.    *)
(***************************************************************************)
EXTENDS Publication, TLAPS

-----------------------------------------------------------------------------
(***************************************************************************)
(* The inductive invariant.  Held is everything GitHub has or may still    *)
(* commit.                                                                 *)
(***************************************************************************)
Held == uploaded \cup incomplete \cup late

\* The release lock is held by the run that is past Acquire.
LockInv == \A r \in Runs : pc[r] \in Locked <=> lock = r

\* A publishing run has a build and a partition.
HasBuild ==
  \A r \in Runs :
    /\ (pc[r] \in InFile \cup {"next", "refresh"} \/ (pc[r] \in {"queued", "inventory"} /\ kind[r] = "staged"))
         => build[r] \in Builds
    /\ pc[r] \in InFile => cur[r] \in Partitions

\* A run that is about to POST has a POST left.
TriesInv ==
  \A r \in Runs :
    /\ pc[r] = "post" => attempts[r] < MaxAttempts
    /\ pc[r] = "delete" => attempts[r] = 0

\* An asset is either uploaded or not, in GitHub and in a snapshot of it.
OneState ==
  /\ uploaded \cap incomplete = {}
  /\ \A r \in Runs : seenUp[r] \cap seenInc[r] = {}

\* A set of assets that holds file g's predecessors in build c.
Prefix(p, g, c, up) == \A f \in Files : f < g => Name(p, f, c) \in up

\* Whoever posted an asset had seen every earlier file of its build uploaded.
PrefixInv ==
  \A a \in Held : \E c \in Builds :
    c[a.file] = a.digest /\ Prefix(a.part, a.file, c, uploaded)

\* So had the run that is publishing now.
PassedInv ==
  \A r \in Runs : pc[r] \in InFile => Prefix(cur[r], file[r], build[r], uploaded)

\* What lies ahead of the publishing run was there, with its predecessors,
\* when the run took its snapshot.
AheadInv ==
  \A r \in Runs : pc[r] \in InFile =>
    \A a \in Held : a.part = cur[r] /\ a.file > file[r] =>
      \E c \in Builds : c[a.file] = a.digest /\ Prefix(cur[r], a.file, c, seenUp[r])

\* A run that deletes or posts is at the last file the partition has.
FrontierInv ==
  \A r \in Runs : pc[r] \in {"delete", "post", "reconcile", "discard", "purge"} =>
    \A a \in Held : a.part = cur[r] => a.file <= file[r]

OneBuildInv ==
  /\ TypeOK /\ LockInv /\ HasBuild /\ TriesInv /\ OneState
  /\ PrefixInv /\ PassedInv /\ AheadInv /\ FrontierInv

-----------------------------------------------------------------------------
(***************************************************************************)
(* Types.                                                                  *)
(***************************************************************************)

\* There is a last file.
LEMMA FilesType == NumFiles \in Nat /\ NumFiles \in Files /\ 1 \in Files
BY InventoryAssumption DEF Files

\* The name of a file of a build is an asset.
LEMMA NameType ==
  ASSUME NEW p \in Partitions, NEW f \in Files, NEW b \in Builds
  PROVE  Name(p, f, b) \in Asset
BY InventoryAssumption DEF Name, Asset

\* A ledger entry is a digest or None.
LEMMA LedgerEntryType ==
  ASSUME NEW up \in SUBSET Asset, NEW inc \in SUBSET Asset, NEW p \in Partitions
  PROVE  LedgerEntry(up, inc, p) \in Digests \cup {None}
<1>1. CASE p \in Verified(up, inc)
  <2>1. Listed(up, inc, p, Manifest) # {}
    BY <1>1, InventoryAssumption DEF Verified
  <2>2. (CHOOSE a \in Listed(up, inc, p, Manifest) : TRUE) \in Asset
    BY <2>1 DEF Listed
  <2>. QED  BY <1>1, <2>2 DEF LedgerEntry, Asset
<1>2. CASE p \notin Verified(up, inc)
  BY <1>2 DEF LedgerEntry
<1>. QED  BY <1>1, <1>2

\* A lock step keeps the lock's type.
LEMMA EndType ==
  ASSUME NEW r \in Runs, NEW l \in PCs, TypeOK, End(r, l) \/ Step(r, l)
  PROVE  pc' \in [Runs -> PCs] /\ lock' \in Runs \cup {None}
BY DEF TypeOK, End, Step, Goto

\* What a POST, a reconciliation or a deletion addresses is an asset.
LEMMA MineType ==
  ASSUME NEW r \in Runs, TypeOK, HasBuild, pc[r] \in InFile
  PROVE  Mine(r) \in Asset
<1>1. cur[r] \in Partitions /\ build[r] \in Builds /\ file[r] \in Files
  BY DEF HasBuild, TypeOK, InFile
<1>. QED  BY <1>1, NameType DEF Mine

\* The type invariant is inductive together with HasBuild, which makes the
\* names that a publishing run forms names of assets.
LEMMA TypeStep ==
  ASSUME TypeOK, HasBuild, TriesInv, [Next]_vars
  PROVE  TypeOK'
<1>. USE DEF remoteVars, planVars, snapVars
<1>1. CASE UNCHANGED vars
  BY <1>1 DEF TypeOK, vars
<1>2. ASSUME NEW r \in Runs, NEW d \in Days, DispatchExecute(r, d)
      PROVE  TypeOK'
  BY <1>2, PublicationAssumption, EndType DEF DispatchExecute, TypeOK, PCs
<1>3. ASSUME NEW r \in Runs, NEW d \in Days, DispatchStaged(r, d)
      PROVE  TypeOK'
  BY <1>3, PublicationAssumption, EndType DEF DispatchStaged, TypeOK, PCs, Unfinished
<1>4. ASSUME NEW r \in Runs, NEW b \in Builds, ComputeStaged(r, b)
      PROVE  TypeOK'
  BY <1>4, EndType DEF ComputeStaged, NewBuild, TypeOK, PCs
<1>5. ASSUME NEW r \in Runs, Acquire(r)
      PROVE  TypeOK'
  BY <1>5 DEF Acquire, Goto, TypeOK, PCs, Locked
<1>6. ASSUME NEW r \in Runs, InventoryExecute(r)
      PROVE  TypeOK'
  <2>. Unfinished(uploaded, incomplete, day[r]) \in SUBSET Partitions
    BY DEF TypeOK, Unfinished
  <2>1. pc' \in [Runs -> PCs] /\ lock' \in Runs \cup {None}
    BY <1>6, EndType DEF InventoryExecute, PCs, Ended, Locked
  <2>2. assets' \in [Runs -> SUBSET Partitions]
    BY <1>6 DEF InventoryExecute, TypeOK
  <2>. QED  BY <1>6, <2>1, <2>2 DEF InventoryExecute, TypeOK
<1>7. ASSUME NEW r \in Runs, NEW b \in Builds, BuildExecute(r, b)
      PROVE  TypeOK'
  BY <1>7, EndType DEF BuildExecute, NewBuild, TypeOK, PCs, Locked
<1>8. ASSUME NEW r \in Runs, InventoryStaged(r)
      PROVE  TypeOK'
  <2>. Unfinished(uploaded, incomplete, day[r]) \in SUBSET Partitions
    BY DEF TypeOK, Unfinished
  <2>1. pc' \in [Runs -> PCs] /\ lock' \in Runs \cup {None}
    BY <1>8, EndType DEF InventoryStaged, PCs, Ended, Locked
  <2>2. todo' \in [Runs -> SUBSET Partitions]
    BY <1>8 DEF InventoryStaged, TypeOK
  <2>. QED  BY <1>8, <2>1, <2>2 DEF InventoryStaged, TypeOK
<1>9. ASSUME NEW r \in Runs, NEW p \in Partitions, BeginPartition(r, p)
      PROVE  TypeOK'
  <2>1. pc' \in [Runs -> PCs] /\ lock' \in Runs \cup {None}
    BY <1>9, EndType DEF BeginPartition, PCs, Locked, InFile
  <2>2. 1 \in Files
    BY InventoryAssumption DEF Files
  <2>. QED  BY <1>9, <2>1, <2>2 DEF BeginPartition, TypeOK
<1>10. ASSUME NEW r \in Runs, CheckFile(r)
       PROVE  TypeOK'
  <2>1. pc' \in [Runs -> PCs] /\ lock' \in Runs \cup {None}
    BY <1>10, EndType DEF CheckFile, PCs, Ended, Locked, InFile
  <2>2. attempts' \in [Runs -> 0..MaxAttempts]
    BY <1>10, PublicationAssumption DEF CheckFile, TypeOK
  <2>. QED  BY <1>10, <2>1, <2>2 DEF CheckFile, TypeOK
<1>11. ASSUME NEW r \in Runs, DeleteAsset(r)
       PROVE  TypeOK'
  <2>1. pc' \in [Runs -> PCs] /\ lock' \in Runs \cup {None}
    BY <1>11, EndType DEF DeleteAsset, Retry, PCs, Ended, Locked, InFile
  <2>2. uploaded' \subseteq Asset /\ incomplete' \subseteq Asset
    BY <1>11 DEF DeleteAsset, TypeOK
  <2>. QED  BY <1>11, <2>1, <2>2 DEF DeleteAsset, TypeOK
<1>12. ASSUME NEW r \in Runs, Post(r)
       PROVE  TypeOK'
  <2>1. pc' \in [Runs -> PCs] /\ lock' \in Runs \cup {None}
    BY <1>12, EndType DEF Post, PCs, Ended, Locked, InFile
  <2>2. Mine(r) \in Asset
    BY <1>12, MineType DEF Post, InFile
  <2>3. uploaded' \subseteq Asset /\ incomplete' \subseteq Asset /\ late' \subseteq Asset
    BY <1>12, <2>2 DEF Post, TypeOK
  <2>4. attempts' \in [Runs -> 0..MaxAttempts]
    BY <1>12, PublicationAssumption DEF Post, TypeOK, TriesInv
  <2>. QED  BY <1>12, <2>1, <2>3, <2>4 DEF Post, TypeOK
<1>13. ASSUME NEW r \in Runs, Reconcile(r)
       PROVE  TypeOK'
  BY <1>13, EndType DEF Reconcile, Retry, TypeOK, PCs, Ended, Locked, InFile
<1>14. ASSUME NEW r \in Runs, VerifyFile(r)
       PROVE  TypeOK'
  <2>1. pc' \in [Runs -> PCs] /\ lock' \in Runs \cup {None}
    BY <1>14, EndType DEF VerifyFile, PCs, Ended, Locked, InFile
  <2>2. file' \in [Runs -> Files]
    <3>1. CASE file[r] < NumFiles /\ file' = [file EXCEPT ![r] = @ + 1]
      <4>1. file[r] + 1 \in Files
        BY <3>1, FilesType DEF TypeOK, Files
      <4>. QED  BY <3>1, <4>1 DEF TypeOK
    <3>2. CASE UNCHANGED file
      BY <3>2 DEF TypeOK
    <3>. QED  BY <1>14, <3>1, <3>2 DEF VerifyFile
  <2>3. todo' \in [Runs -> SUBSET Partitions]
    BY <1>14 DEF VerifyFile, TypeOK
  <2>. QED  BY <1>14, <2>1, <2>2, <2>3 DEF VerifyFile, TypeOK
<1>15. ASSUME NEW r \in Runs, FinishPublishing(r) \/ VerifyRun(r) \/ BuildFails(r) \/ Crash(r)
       PROVE  TypeOK'
  <2>1. pc' \in [Runs -> PCs] /\ lock' \in Runs \cup {None}
    BY <1>15, EndType DEF FinishPublishing, VerifyRun, BuildFails, Crash, PCs, Ended, Locked
  <2>. QED  BY <1>15, <2>1 DEF FinishPublishing, VerifyRun, BuildFails, Crash, TypeOK
<1>16. ASSUME NEW a \in late, SettleLate(a)
       PROVE  TypeOK'
  BY <1>16 DEF SettleLate, TypeOK
<1>17. CASE Checkpoint
  <2>1. ledger' \in [Partitions -> Digests \cup {None}]
    BY <1>17, LedgerEntryType DEF Checkpoint, TypeOK
  <2>. QED  BY <1>17, <2>1 DEF Checkpoint, TypeOK
<1>. QED
  BY <1>1, <1>2, <1>3, <1>4, <1>5, <1>6, <1>7, <1>8, <1>9, <1>10, <1>11, <1>12,
     <1>13, <1>14, <1>15, <1>16, <1>17
     DEF Next, Dispatch, Proceed, Publish

-----------------------------------------------------------------------------
(***************************************************************************)
(* The lock, the build of a publishing run and its tries.                  *)
(***************************************************************************)

\* Only the run that holds the lock is past Acquire.
LEMMA OneWriter ==
  ASSUME LockInv, NEW r \in Runs, NEW o \in Runs, pc[r] \in Locked, pc[o] \in Locked
  PROVE  o = r
BY DEF LockInv

LEMMA LockStep ==
  ASSUME TypeOK, LockInv, [Next]_vars
  PROVE  LockInv'
<1>. USE DEF LockInv, Locked, InFile, Ended
<1>1. ASSUME NEW r \in Runs, NEW l \in PCs, Step(r, l), pc[r] \in Locked <=> l \in Locked
      PROVE  LockInv'
  BY <1>1 DEF Step, Goto, TypeOK
<1>2. ASSUME NEW r \in Runs, NEW l \in Ended, End(r, l)
      PROVE  LockInv'
  BY <1>2, PublicationAssumption DEF End, Goto, TypeOK
<1>3. CASE UNCHANGED <<pc, lock>>
  BY <1>3
<1>4. ASSUME NEW r \in Runs, Acquire(r)
      PROVE  LockInv'
  BY <1>4, PublicationAssumption DEF Acquire, Goto, TypeOK
<1>5. ASSUME NEW r \in Runs, Dispatch(r)
      PROVE  LockInv'
  BY <1>5, <1>1 DEF Dispatch, DispatchExecute, DispatchStaged, PCs
<1>6. ASSUME NEW r \in Runs, NEW b \in Builds, ComputeStaged(r, b) \/ BuildExecute(r, b)
      PROVE  LockInv'
  BY <1>6, <1>1 DEF ComputeStaged, BuildExecute, PCs
<1>7. ASSUME NEW r \in Runs, InventoryExecute(r) \/ InventoryStaged(r)
      PROVE  LockInv'
  BY <1>7, <1>1, <1>2 DEF InventoryExecute, InventoryStaged, PCs
<1>8. ASSUME NEW r \in Runs, Publish(r)
      PROVE  LockInv'
  <2>1. CASE \E p \in Partitions : BeginPartition(r, p)
    BY <2>1, <1>1 DEF BeginPartition, PCs
  <2>2. CASE CheckFile(r) \/ Reconcile(r) \/ VerifyFile(r)
    BY <2>2, <1>1, <1>2 DEF CheckFile, Reconcile, Retry, VerifyFile, PCs
  <2>3. CASE DeleteAsset(r)
    BY <2>3, <1>1, <1>2 DEF DeleteAsset, Retry, PCs
  <2>4. CASE Post(r)
    BY <2>4, <1>1, <1>2 DEF Post, PCs
  <2>. QED  BY <1>8, <2>1, <2>2, <2>3, <2>4 DEF Publish
<1>9. ASSUME NEW r \in Runs, FinishPublishing(r) \/ VerifyRun(r) \/ BuildFails(r) \/ Crash(r)
      PROVE  LockInv'
  BY <1>9, <1>1, <1>2 DEF FinishPublishing, VerifyRun, BuildFails, Crash, PCs
<1>10. CASE UNCHANGED vars \/ Checkpoint \/ \E a \in late : SettleLate(a)
  BY <1>10, <1>3 DEF vars, Checkpoint, SettleLate
<1>. QED
  BY <1>4, <1>5, <1>6, <1>7, <1>8, <1>9, <1>10 DEF Next, Proceed

LEMMA BuildStep ==
  ASSUME TypeOK, HasBuild, [Next]_vars
  PROVE  HasBuild'
<1>. USE DEF remoteVars, planVars, snapVars, InFile, Ended
<1>1. ASSUME NEW r \in Runs, UNCHANGED <<kind, build, cur>>,
             \A o \in Runs : o # r => pc'[o] = pc[o],
             pc'[r] \in InFile => pc[r] \in InFile,
             pc'[r] \in InFile \cup {"next", "refresh"} => build[r] \in Builds,
             pc'[r] \in {"queued", "inventory"} /\ kind[r] = "staged" => build[r] \in Builds
      PROVE  HasBuild'
  <2>. SUFFICES ASSUME NEW o \in Runs
                PROVE  /\ (pc'[o] \in InFile \cup {"next", "refresh"}
                            \/ (pc'[o] \in {"queued", "inventory"} /\ kind'[o] = "staged"))
                             => build'[o] \in Builds
                       /\ pc'[o] \in InFile => cur'[o] \in Partitions
    BY Zenon DEF HasBuild
  <2>1. CASE o = r
    BY <1>1, <2>1 DEF HasBuild
  <2>2. CASE o # r
    BY <1>1, <2>2 DEF HasBuild
  <2>. QED  BY <2>1, <2>2
<1>2. CASE UNCHANGED vars \/ Checkpoint \/ \E a \in late : SettleLate(a)
  BY <1>2 DEF vars, Checkpoint, SettleLate, HasBuild
<1>3. ASSUME NEW r \in Runs, Dispatch(r)
      PROVE  HasBuild'
  BY <1>3 DEF Dispatch, DispatchExecute, DispatchStaged, Step, Goto, TypeOK, HasBuild
<1>4. ASSUME NEW r \in Runs, NEW b \in Builds, ComputeStaged(r, b) \/ BuildExecute(r, b)
      PROVE  HasBuild'
  BY <1>4 DEF ComputeStaged, BuildExecute, NewBuild, Step, Goto, TypeOK, HasBuild
<1>5. ASSUME NEW r \in Runs, Acquire(r) \/ InventoryExecute(r) \/ InventoryStaged(r)
      PROVE  HasBuild'
  BY <1>5, <1>1
     DEF Acquire, InventoryExecute, InventoryStaged, Step, End, Goto, TypeOK, HasBuild
<1>6. ASSUME NEW r \in Runs, NEW p \in Partitions, BeginPartition(r, p)
      PROVE  HasBuild'
  BY <1>6 DEF BeginPartition, Step, Goto, TypeOK, HasBuild
<1>7. ASSUME NEW r \in Runs, CheckFile(r) \/ Reconcile(r) \/ VerifyFile(r)
      PROVE  HasBuild'
  BY <1>7, <1>1 DEF CheckFile, Reconcile, Retry, VerifyFile, Step, End, Goto, TypeOK, HasBuild
<1>8. ASSUME NEW r \in Runs, DeleteAsset(r)
      PROVE  HasBuild'
  BY <1>8, <1>1 DEF DeleteAsset, Retry, Step, End, Goto, TypeOK, HasBuild
<1>9. ASSUME NEW r \in Runs, Post(r)
      PROVE  HasBuild'
  BY <1>9, <1>1 DEF Post, Step, End, Goto, TypeOK, HasBuild
<1>10. ASSUME NEW r \in Runs, FinishPublishing(r) \/ VerifyRun(r) \/ BuildFails(r) \/ Crash(r)
      PROVE  HasBuild'
  BY <1>10, <1>1
     DEF FinishPublishing, VerifyRun, BuildFails, Crash, Step, End, Goto, TypeOK, HasBuild
<1>. QED
  BY <1>2, <1>3, <1>4, <1>5, <1>6, <1>7, <1>8, <1>9, <1>10 DEF Next, Proceed, Publish

LEMMA TriesStep ==
  ASSUME TypeOK, TriesInv, [Next]_vars
  PROVE  TriesInv'
<1>. USE PublicationAssumption DEF TriesInv, Step, End, Goto, TypeOK
<1>1. ASSUME NEW r \in Runs, CheckFile(r)
      PROVE  TriesInv'
  BY <1>1 DEF CheckFile
<1>2. ASSUME NEW r \in Runs, DeleteAsset(r)
      PROVE  TriesInv'
  BY <1>2 DEF DeleteAsset, Retry
<1>3. ASSUME NEW r \in Runs, Post(r)
      PROVE  TriesInv'
  BY <1>3 DEF Post
<1>4. ASSUME NEW r \in Runs, Reconcile(r) \/ VerifyFile(r)
      PROVE  TriesInv'
  BY <1>4 DEF Reconcile, Retry, VerifyFile
<1>5. ASSUME NEW r \in Runs, \E p \in Partitions : BeginPartition(r, p)
      PROVE  TriesInv'
  BY <1>5 DEF BeginPartition
<1>6. ASSUME NEW r \in Runs, Dispatch(r)
      PROVE  TriesInv'
  BY <1>6 DEF Dispatch, DispatchExecute, DispatchStaged
<1>7. ASSUME NEW r \in Runs, \E b \in Builds : ComputeStaged(r, b) \/ BuildExecute(r, b)
      PROVE  TriesInv'
  BY <1>7 DEF ComputeStaged, BuildExecute
<1>8. ASSUME NEW r \in Runs, Acquire(r) \/ InventoryExecute(r) \/ InventoryStaged(r)
      PROVE  TriesInv'
  BY <1>8 DEF Acquire, InventoryExecute, InventoryStaged
<1>9. ASSUME NEW r \in Runs, FinishPublishing(r) \/ VerifyRun(r) \/ BuildFails(r) \/ Crash(r)
      PROVE  TriesInv'
  BY <1>9 DEF FinishPublishing, VerifyRun, BuildFails, Crash
<1>10. CASE UNCHANGED vars \/ Checkpoint \/ \E a \in late : SettleLate(a)
  BY <1>10 DEF vars, Checkpoint, SettleLate
<1>. QED
  BY <1>1, <1>2, <1>3, <1>4, <1>5, <1>6, <1>7, <1>8, <1>9, <1>10
     DEF Next, Proceed, Publish

-----------------------------------------------------------------------------
(***************************************************************************)
(* A complete partition is one build.                                      *)
(***************************************************************************)
PublishInv == OneState /\ PrefixInv /\ PassedInv /\ AheadInv /\ FrontierInv

\* Steps that leave the release and every publication where they are.
Quiet ==
  /\ UNCHANGED <<uploaded, incomplete, late, cur, file, seenUp, seenInc>>
  /\ \A r \in Runs : pc'[r] \in InFile => pc'[r] = pc[r] /\ build'[r] = build[r]

LEMMA QuietStep == PublishInv /\ Quiet => PublishInv'
<1>. SUFFICES ASSUME PublishInv, Quiet PROVE PublishInv'
  OBVIOUS
<1>. USE DEF PublishInv, Quiet
<1>1. OneState' /\ PrefixInv'
  BY DEF OneState, PrefixInv, Held, Prefix
<1>2. PassedInv'
  BY DEF PassedInv, Prefix, Name
<1>3. AheadInv'
  BY DEF AheadInv, Held, Prefix
<1>4. FrontierInv'
  BY DEF FrontierInv, Held, InFile
<1>. QED  BY <1>1, <1>2, <1>3, <1>4

\* Everything but the requests of publish_partition is quiet.
LEMMA QuietActions ==
  ASSUME TypeOK, NEW r \in Runs,
         \/ Dispatch(r)
         \/ \E b \in Builds : ComputeStaged(r, b) \/ BuildExecute(r, b)
         \/ Acquire(r) \/ InventoryExecute(r) \/ InventoryStaged(r)
         \/ FinishPublishing(r) \/ VerifyRun(r) \/ BuildFails(r) \/ Crash(r)
  PROVE  Quiet
<1>. USE DEF Quiet, remoteVars, planVars, snapVars, Step, End, Goto, InFile, Ended, TypeOK
<1>1. CASE Dispatch(r)
  BY <1>1 DEF Dispatch, DispatchExecute, DispatchStaged
<1>2. CASE \E b \in Builds : ComputeStaged(r, b) \/ BuildExecute(r, b)
  BY <1>2 DEF ComputeStaged, BuildExecute, NewBuild
<1>3. CASE Acquire(r) \/ InventoryExecute(r) \/ InventoryStaged(r)
  BY <1>3 DEF Acquire, InventoryExecute, InventoryStaged
<1>4. CASE FinishPublishing(r) \/ VerifyRun(r) \/ BuildFails(r) \/ Crash(r)
  BY <1>4 DEF FinishPublishing, VerifyRun, BuildFails, Crash
<1>. QED  BY <1>1, <1>2, <1>3, <1>4

\* BeginPartition: the snapshot shows every predecessor of whatever there is.
LEMMA BeginStep ==
  ASSUME TypeOK, PublishInv, NEW r \in Runs, NEW p \in Partitions, BeginPartition(r, p)
  PROVE  PublishInv'
<1>. USE DEF BeginPartition, PublishInv, remoteVars, planVars, Step, Goto
<1>1. OneState' /\ PrefixInv'
  BY DEF OneState, PrefixInv, Held, Prefix, TypeOK
<1>2. PassedInv'
  <2>. SUFFICES ASSUME NEW o \in Runs, pc'[o] \in InFile
                PROVE  Prefix(cur'[o], file'[o], build'[o], uploaded')
    BY DEF PassedInv, Prefix, Name
  <2>1. CASE o = r
    BY <2>1 DEF Prefix, Files, TypeOK
  <2>2. CASE o # r
    BY <2>2 DEF PassedInv, TypeOK
  <2>. QED  BY <2>1, <2>2
<1>3. AheadInv'
  <2>. SUFFICES ASSUME NEW o \in Runs, pc'[o] \in InFile,
                       NEW a \in Held, a.part = cur'[o], a.file > file'[o]
                PROVE  \E c \in Builds :
                         c[a.file] = a.digest /\ Prefix(cur'[o], a.file, c, seenUp'[o])
    BY DEF AheadInv, Prefix, Held
  <2>1. CASE o = r
    <3>1. PICK c \in Builds : c[a.file] = a.digest /\ Prefix(a.part, a.file, c, uploaded)
      BY DEF PrefixInv
    <3>. QED  BY <2>1, <3>1 DEF TypeOK
  <2>2. CASE o # r
    BY <2>2 DEF AheadInv, TypeOK
  <2>. QED  BY <2>1, <2>2
<1>4. FrontierInv'
  BY DEF FrontierInv, Held, TypeOK
<1>. QED  BY <1>1, <1>2, <1>3, <1>4

\* CheckFile: if the run's own name is not uploaded in the snapshot and no
\* other content of the file is, then nothing lies ahead, because whatever lay
\* ahead would have a predecessor here.
LEMMA CheckStep ==
  ASSUME TypeOK, HasBuild, PublishInv, NEW r \in Runs, CheckFile(r)
  PROVE  PublishInv'
<1>. USE DEF CheckFile, PublishInv, remoteVars, planVars, snapVars
<1>1. /\ UNCHANGED <<uploaded, incomplete, late, build, cur, file, seenUp, seenInc>>
      /\ pc[r] = "check"
      /\ \A o \in Runs : o # r => pc'[o] = pc[o]
      /\ pc'[r] \in {"failed", "delete", "verify", "post"}
  BY DEF Step, End, Goto, TypeOK
<1>2. OneState' /\ PrefixInv'
  BY <1>1 DEF OneState, PrefixInv, Held, Prefix
<1>3. PassedInv' /\ AheadInv'
  <2>1. \A o \in Runs : pc'[o] \in InFile => pc[o] \in InFile
    BY <1>1 DEF InFile
  <2>2. PassedInv'
    BY <1>1, <2>1 DEF PassedInv, Prefix, Name
  <2>3. AheadInv'
    BY <1>1, <2>1 DEF AheadInv, Prefix, Held
  <2>. QED  BY <2>2, <2>3
<1>4. FrontierInv'
  <2>. SUFFICES ASSUME NEW o \in Runs,
                       pc'[o] \in {"delete", "post", "reconcile", "discard", "purge"},
                       NEW a \in Held, a.part = cur[o]
                PROVE  a.file <= file[o]
    BY <1>1 DEF FrontierInv, Held
  <2>1. CASE o # r
    BY <1>1, <2>1 DEF FrontierInv
  <2>2. CASE o = r
    <3>. DEFINE f == file[r]
    <3>1. f \in Files /\ cur[r] \in Partitions /\ build[r] \in Builds /\ a \in Asset
      BY <1>1 DEF TypeOK, HasBuild, InFile, Held
    <3>2. ~Conflict(r) /\ Mine(r) \notin seenUp[r]
      BY <2>2 DEF Step, End, Goto, TypeOK, OneState
    <3>3. SUFFICES ASSUME a.file > f PROVE FALSE
      BY <2>2, <3>1 DEF Files, Asset
    <3>4. PICK c \in Builds : c[a.file] = a.digest /\ Prefix(cur[r], a.file, c, seenUp[r])
      BY <1>1, <2>2, <3>3 DEF AheadInv, InFile
    <3>5. Name(cur[r], f, c) \in seenUp[r]
      BY <3>1, <3>3, <3>4 DEF Prefix
    <3>6. Name(cur[r], f, c) \in Listed(seenUp[r], seenInc[r], cur[r], f)
      BY <3>5 DEF Listed, Name
    <3>7. Name(cur[r], f, c) = Mine(r)
      BY <3>2, <3>6 DEF Conflict
    <3>. QED  BY <3>2, <3>5, <3>7
  <2>. QED  BY <2>1, <2>2
<1>. QED  BY <1>2, <1>3, <1>4

\* DeleteAsset may remove an asset that turned uploaded after it was listed;
\* being the last file of the partition, it is nobody's predecessor.
LEMMA DeleteStep ==
  ASSUME TypeOK, HasBuild, LockInv, PublishInv, NEW r \in Runs, DeleteAsset(r)
  PROVE  PublishInv'
<1>. USE DEF PublishInv, remoteVars, planVars, snapVars
<1>1. /\ UNCHANGED <<late, build, cur, file, seenUp, seenInc>>
      /\ pc[r] \in {"delete", "discard", "purge"}
      /\ \A o \in Runs : o # r => pc'[o] = pc[o]
      /\ pc'[r] \in {"failed", "post", "reconcile"}
      /\ uploaded' \in {uploaded, uploaded \ {Mine(r)}}
      /\ incomplete' \subseteq incomplete
  BY DEF DeleteAsset, Retry, Step, End, Goto, TypeOK
<1>2. Held' \subseteq Held
  BY <1>1 DEF Held
<1>3. \A a \in Held : a.part = cur[r] => a.file <= file[r]
  BY <1>1 DEF FrontierInv
<1>4. \A a \in Held : a \in Asset
  BY DEF Held, TypeOK
<1>5. OneState'
  BY <1>1 DEF OneState
<1>6. ASSUME NEW a \in Held, NEW c \in Builds, Prefix(a.part, a.file, c, uploaded)
      PROVE  Prefix(a.part, a.file, c, uploaded')
  <2>. SUFFICES ASSUME NEW f \in Files, f < a.file
                PROVE  Name(a.part, f, c) \in uploaded'
    BY DEF Prefix
  <2>1. Name(a.part, f, c) \in uploaded
    BY <1>6 DEF Prefix
  <2>2. Name(a.part, f, c) # Mine(r)
    <3>1. a.file \in Files /\ file[r] \in Files
      BY <1>4 DEF Asset, TypeOK
    <3>2. a.part = cur[r] => f < file[r]
      BY <1>3, <3>1 DEF Files
    <3>. QED  BY <3>2 DEF Name, Mine, Files
  <2>. QED  BY <1>1, <2>1, <2>2
<1>7. PrefixInv'
  BY <1>2, <1>6 DEF PrefixInv
<1>8. PassedInv'
  <2>. SUFFICES ASSUME NEW o \in Runs, pc'[o] \in InFile
                PROVE  Prefix(cur[o], file[o], build[o], uploaded')
    BY <1>1 DEF PassedInv, Prefix, Name
  <2>1. pc[o] \in InFile
    BY <1>1 DEF InFile
  <2>2. o = r
    BY <1>1, <2>1, OneWriter DEF InFile, Locked
  <2>3. Prefix(cur[r], file[r], build[r], uploaded)
    BY <2>1, <2>2 DEF PassedInv
  <2>4. \A f \in Files : f < file[r] => Name(cur[r], f, build[r]) # Mine(r)
    BY DEF Name, Mine, Files, TypeOK
  <2>. QED  BY <1>1, <2>2, <2>3, <2>4 DEF Prefix
<1>9. AheadInv'
  BY <1>1, <1>2 DEF AheadInv, Prefix, InFile
<1>10. FrontierInv'
  BY <1>1, <1>2 DEF FrontierInv
<1>. QED  BY <1>5, <1>7, <1>8, <1>9, <1>10

\* Post adds the run's own file, whose predecessors the run has passed.
LEMMA PostStep ==
  ASSUME TypeOK, HasBuild, LockInv, PublishInv, NEW r \in Runs, Post(r)
  PROVE  PublishInv'
<1>. USE DEF PublishInv, remoteVars, planVars, snapVars
<1>1. /\ UNCHANGED <<build, cur, file, seenUp, seenInc>>
      /\ pc[r] = "post"
      /\ \A o \in Runs : o # r => pc'[o] = pc[o]
      /\ pc'[r] \in {"failed", "verify", "reconcile", "discard"}
  BY DEF Post, Step, End, Goto, TypeOK
<1>2. /\ uploaded \subseteq uploaded'
      /\ Held' \subseteq Held \cup {Mine(r)}
  BY DEF Post, Held
<1>3. OneState'
  BY <1>1 DEF OneState, Post
<1>4. cur[r] \in Partitions /\ file[r] \in Files /\ build[r] \in Builds
  BY <1>1 DEF HasBuild, TypeOK, InFile
<1>5. PrefixInv'
  <2>. SUFFICES ASSUME NEW a \in Held'
                PROVE  \E c \in Builds : c[a.file] = a.digest /\ Prefix(a.part, a.file, c, uploaded')
    BY DEF PrefixInv, Prefix
  <2>1. CASE a \in Held
    BY <1>2, <2>1 DEF PrefixInv, Prefix
  <2>2. CASE a = Mine(r)
    <3>1. a.part = cur[r] /\ a.file = file[r] /\ a.digest = build[r][file[r]]
      BY <2>2 DEF Mine, Name
    <3>2. Prefix(cur[r], file[r], build[r], uploaded)
      BY <1>1 DEF PassedInv, InFile
    <3>. QED  BY <1>2, <1>4, <3>1, <3>2 DEF Prefix
  <2>. QED  BY <1>2, <2>1, <2>2
<1>6. PassedInv'
  BY <1>1, <1>2 DEF PassedInv, Prefix, InFile, Name
<1>7. ASSUME NEW o \in Runs, pc'[o] \in InFile
      PROVE  o = r
  BY <1>1, <1>7, OneWriter DEF InFile, Locked
<1>8. ASSUME NEW a \in Held', a.part = cur[r], a.file > file[r]
      PROVE  a \in Held
  BY <1>2, <1>4, <1>8 DEF Mine, Name, Files
<1>9. AheadInv'
  BY <1>1, <1>7, <1>8 DEF AheadInv, Prefix, InFile
<1>10. FrontierInv'
  <2>1. \A a \in Held' : a.part = cur[r] => a.file <= file[r]
    BY <1>1, <1>2, <1>4 DEF FrontierInv, Mine, Name, Files
  <2>. QED  BY <1>1, <1>7, <2>1 DEF FrontierInv, InFile
<1>. QED  BY <1>3, <1>5, <1>6, <1>9, <1>10

LEMMA ReconcileStep ==
  ASSUME TypeOK, PublishInv, NEW r \in Runs, Reconcile(r)
  PROVE  PublishInv'
<1>. USE DEF PublishInv, remoteVars, planVars, snapVars
<1>1. /\ UNCHANGED <<uploaded, incomplete, late, build, cur, file, seenUp, seenInc>>
      /\ pc[r] = "reconcile"
      /\ \A o \in Runs : o # r => pc'[o] = pc[o]
      /\ pc'[r] \in {"failed", "verify", "purge", "post"}
  BY DEF Reconcile, Retry, Step, End, Goto, TypeOK
<1>2. OneState' /\ PrefixInv'
  BY <1>1 DEF OneState, PrefixInv, Held, Prefix
<1>3. \A o \in Runs : pc'[o] \in InFile => pc[o] \in InFile
  BY <1>1 DEF InFile
<1>4. PassedInv'
  BY <1>1, <1>3 DEF PassedInv, Prefix, Name
<1>5. AheadInv'
  BY <1>1, <1>3 DEF AheadInv, Prefix, Held
<1>6. FrontierInv'
  BY <1>1 DEF FrontierInv, Held
<1>. QED  BY <1>2, <1>4, <1>5, <1>6

\* VerifyFile moves on only past an uploaded file.
LEMMA VerifyStep ==
  ASSUME TypeOK, PublishInv, NEW r \in Runs, VerifyFile(r)
  PROVE  PublishInv'
<1>. USE DEF PublishInv, remoteVars, planVars, snapVars
<1>1. /\ UNCHANGED <<uploaded, incomplete, late, build, cur, seenUp, seenInc>>
      /\ pc[r] = "verify"
      /\ \A o \in Runs : o # r => pc'[o] = pc[o] /\ file'[o] = file[o]
      /\ \/ pc'[r] \in {"failed", "next"}
         \/ pc'[r] = "check" /\ file'[r] = file[r] + 1 /\ Mine(r) \in uploaded
  BY DEF VerifyFile, Step, End, Goto, TypeOK
<1>2. OneState' /\ PrefixInv'
  BY <1>1 DEF OneState, PrefixInv, Held, Prefix
<1>3. file[r] \in Files
  BY DEF TypeOK
<1>4. PassedInv'
  <2>. SUFFICES ASSUME NEW o \in Runs, pc'[o] \in InFile
                PROVE  Prefix(cur[o], file'[o], build[o], uploaded)
    BY <1>1 DEF PassedInv, Prefix, Name
  <2>1. CASE o # r
    BY <1>1, <2>1 DEF PassedInv
  <2>2. CASE o = r
    <3>1. Prefix(cur[r], file[r], build[r], uploaded)
      BY <1>1 DEF PassedInv, InFile
    <3>2. file'[r] = file[r] + 1 /\ Name(cur[r], file[r], build[r]) \in uploaded
      BY <1>1, <2>2 DEF InFile, Mine
    <3>. QED  BY <1>3, <2>2, <3>1, <3>2 DEF Prefix, Files
  <2>. QED  BY <2>1, <2>2
<1>5. AheadInv'
  <2>. SUFFICES ASSUME NEW o \in Runs, pc'[o] \in InFile,
                       NEW a \in Held, a.part = cur[o], a.file > file'[o]
                PROVE  \E c \in Builds :
                         c[a.file] = a.digest /\ Prefix(cur[o], a.file, c, seenUp[o])
    BY <1>1 DEF AheadInv, Prefix, Held
  <2>1. pc[o] \in InFile
    BY <1>1 DEF InFile
  <2>2. a.file \in Files
    BY DEF Held, TypeOK, Asset
  <2>3. a.file > file[o]
    BY <1>1, <1>3, <2>2 DEF InFile, Files
  <2>. QED  BY <2>1, <2>3 DEF AheadInv
<1>6. FrontierInv'
  BY <1>1 DEF FrontierInv, Held
<1>. QED  BY <1>2, <1>4, <1>5, <1>6

\* GitHub's late decisions only turn held assets into uploaded ones.
LEMMA SettleStep ==
  ASSUME TypeOK, PublishInv, NEW a \in late, SettleLate(a)
  PROVE  PublishInv'
<1>. USE DEF PublishInv, planVars, snapVars
<1>1. /\ UNCHANGED <<pc, build, cur, file, seenUp, seenInc>>
      /\ uploaded \subseteq uploaded'
      /\ Held' \subseteq Held
  BY DEF SettleLate, Held
<1>2. OneState'
  BY <1>1 DEF OneState, SettleLate
<1>3. PrefixInv'
  BY <1>1 DEF PrefixInv, Prefix
<1>4. PassedInv'
  BY <1>1 DEF PassedInv, Prefix, Name
<1>5. AheadInv'
  BY <1>1 DEF AheadInv, Prefix
<1>6. FrontierInv'
  BY <1>1 DEF FrontierInv
<1>. QED  BY <1>2, <1>3, <1>4, <1>5, <1>6

\* The inductive invariant: it holds at the start, every step keeps it, and so
\* it holds always.
LEMMA OneBuildInductive ==
  /\ Init => OneBuildInv
  /\ OneBuildInv /\ [Next]_vars => OneBuildInv'
<1>1. Init => OneBuildInv
  <2>. SUFFICES ASSUME Init PROVE OneBuildInv
    OBVIOUS
  <2>. USE DEF Init
  <2>1. TypeOK
    BY FilesType, PublicationAssumption DEF TypeOK, PCs
  <2>2. LockInv
    BY PublicationAssumption DEF LockInv, Locked, InFile
  <2>3. HasBuild /\ TriesInv
    BY DEF HasBuild, TriesInv, InFile
  <2>4. OneState /\ PrefixInv
    BY DEF OneState, PrefixInv, Held
  <2>5. PassedInv /\ AheadInv /\ FrontierInv
    BY DEF PassedInv, AheadInv, FrontierInv, InFile
  <2>. QED  BY <2>1, <2>2, <2>3, <2>4, <2>5 DEF OneBuildInv
<1>2. ASSUME OneBuildInv, [Next]_vars
      PROVE  OneBuildInv'
  <2>. USE <1>2 DEF OneBuildInv
  <2>1. TypeOK' /\ LockInv' /\ HasBuild' /\ TriesInv'
    BY TypeStep, LockStep, BuildStep, TriesStep
  <2>2. PublishInv
    BY DEF PublishInv
  <2>3. UNCHANGED vars \/ Checkpoint => PublishInv'
    BY <2>2, QuietStep DEF Quiet, vars, Checkpoint, remoteVars, planVars, snapVars
  <2>4. ASSUME NEW a \in late, SettleLate(a)
        PROVE  PublishInv'
    BY <2>2, <2>4, SettleStep
  <2>5. ASSUME NEW r \in Runs, Publish(r)
        PROVE  PublishInv'
    BY <2>2, <2>5, BeginStep, CheckStep, DeleteStep, PostStep, ReconcileStep, VerifyStep
       DEF Publish
  <2>6. ASSUME NEW r \in Runs, Dispatch(r) \/ (Proceed(r) /\ ~Publish(r)) \/ BuildFails(r) \/ Crash(r)
        PROVE  PublishInv'
    BY <2>2, <2>6, QuietActions, QuietStep DEF Proceed
  <2>7. PublishInv'
    BY <2>3, <2>4, <2>5, <2>6 DEF Next, Proceed
  <2>. QED  BY <2>1, <2>7 DEF PublishInv
<1>. QED  BY <1>1, <1>2

LEMMA OneBuildAlways == Spec => []OneBuildInv
BY OneBuildInductive, PTL DEF Spec

\* Every variable of the publication keeps its type, for any number of runs and
\* partitions: in particular the upload loop never exceeds MaxAttempts POSTs.
THEOREM TypeCorrect == Spec => []TypeOK
<1>1. OneBuildInv => TypeOK
  BY DEF OneBuildInv
<1>. QED  BY <1>1, OneBuildAlways, PTL

\* Whatever runs, crashes and lost or late answers produce it, a partition that
\* verified_partitions counts as complete is the output of one recomputation.
THEOREM CompleteIsOneBuild == Spec => []VerifiedIsOneBuild
<1>1. ASSUME OneBuildInv PROVE VerifiedIsOneBuild
  <2>. SUFFICES ASSUME NEW p \in Verified(uploaded, incomplete)
                PROVE  \E b \in Builds : \A f \in Files :
                         Listed(uploaded, incomplete, p, f) = {Name(p, f, b)}
    BY DEF VerifiedIsOneBuild
  <2>1. PICK a \in uploaded : Listed(uploaded, incomplete, p, NumFiles) = {a}
    BY FilesType DEF Verified
  <2>2. a.part = p /\ a.file = NumFiles /\ a \in Asset
    BY <1>1, <2>1 DEF Listed, OneBuildInv, TypeOK
  <2>3. PICK b \in Builds : b[NumFiles] = a.digest /\ Prefix(p, NumFiles, b, uploaded)
    BY <1>1, <2>2 DEF OneBuildInv, PrefixInv, Held
  <2>4. a = Name(p, NumFiles, b)
    BY <2>2, <2>3 DEF Asset, Name
  <2>5. ASSUME NEW f \in Files
        PROVE  Listed(uploaded, incomplete, p, f) = {Name(p, f, b)}
    <3>1. CASE f = NumFiles
      BY <2>1, <2>4, <3>1
    <3>2. CASE f < NumFiles
      <4>1. Name(p, f, b) \in Listed(uploaded, incomplete, p, f)
        BY <2>3, <3>2 DEF Prefix, Listed, Name
      <4>2. PICK x \in uploaded : Listed(uploaded, incomplete, p, f) = {x}
        BY DEF Verified
      <4>. QED  BY <4>1, <4>2
    <3>. QED  BY <3>1, <3>2, FilesType DEF Files
  <2>. QED  BY <2>5
<1>. QED  BY <1>1, OneBuildAlways, PTL

-----------------------------------------------------------------------------
(***************************************************************************)
(* Restarting: whose files a run meets in the release.  Every asset there  *)
(* belongs to the run that posts it, to one that failed in its partition,  *)
(* or to a partition that is complete.                                     *)
(***************************************************************************)

\* A step leaves run o alone.
Same(o) ==
  /\ pc'[o] = pc[o] /\ kind'[o] = kind[o] /\ day'[o] = day[o] /\ assets'[o] = assets[o]
  /\ build'[o] = build[o] /\ todo'[o] = todo[o] /\ cur'[o] = cur[o] /\ file'[o] = file[o]
  /\ attempts'[o] = attempts[o]

\* What run r does leaves every other run alone.
Acts(r) == Dispatch(r) \/ Proceed(r) \/ BuildFails(r) \/ Crash(r)

LEMMA ActsAlone ==
  ASSUME TypeOK, NEW r \in Runs, Acts(r), NEW o \in Runs \ {r}
  PROVE  Same(o)
<1>. USE DEF Same, TypeOK, remoteVars, planVars, snapVars, Step, End, Goto
<1>1. CASE Dispatch(r) \/ BuildFails(r) \/ Crash(r)
  BY <1>1 DEF Dispatch, DispatchExecute, DispatchStaged, BuildFails, Crash
<1>2. CASE \E b \in Builds : ComputeStaged(r, b) \/ BuildExecute(r, b)
  BY <1>2 DEF ComputeStaged, BuildExecute, NewBuild
<1>3. CASE Acquire(r) \/ InventoryExecute(r) \/ InventoryStaged(r)
  BY <1>3 DEF Acquire, InventoryExecute, InventoryStaged
<1>4. CASE FinishPublishing(r) \/ VerifyRun(r)
  BY <1>4 DEF FinishPublishing, VerifyRun
<1>5. CASE (\E p \in Partitions : BeginPartition(r, p)) \/ CheckFile(r)
  BY <1>5 DEF BeginPartition, CheckFile
<1>6. CASE DeleteAsset(r)
  BY <1>6 DEF DeleteAsset, Retry
<1>7. CASE Post(r)
  BY <1>7 DEF Post
<1>8. CASE Reconcile(r) \/ VerifyFile(r)
  BY <1>8 DEF Reconcile, Retry, VerifyFile
<1>. QED
  BY <1>1, <1>2, <1>3, <1>4, <1>5, <1>6, <1>7, <1>8 DEF Acts, Proceed, Publish

\* Run r has still to publish partition p.
Busy(r, p) ==
  \/ pc[r] = "building" /\ p \in assets[r]
  \/ pc[r] \in InFile \cup {"next"} /\ p \in todo[r]

\* Partition p has every file of a build, and nobody has it before him.
Closed(p) ==
  /\ \E b \in Builds : \A f \in Files : Name(p, f, b) \in uploaded
  /\ \A r \in Runs : ~Busy(r, p)

\* Run o came as far as asset a, and is still there or failed there.
OwnedBy(o, a) ==
  /\ build[o] \in Builds /\ a = Name(a.part, a.file, build[o])
  /\ cur[o] = a.part /\ a.part \in todo[o] /\ a.file <= file[o]
  /\ pc[o] \in InFile \cup {"failed"}

Owned(a) == \E o \in Runs : OwnedBy(o, a)

\* An asset of the current partition that the run has not dealt with yet.
Ahead(r, a) ==
  /\ a.part = cur[r]
  /\ a.file > file[r] \/ (pc[r] = "check" /\ a.file = file[r])

ClaimInv == \A r \in Runs : pc[r] \in InFile => cur[r] \in todo[r]

\* What lay ahead in the snapshot is still there, late commits or not.
SeenInv ==
  \A r \in Runs : pc[r] \in InFile =>
    \A a \in seenUp[r] \cup seenInc[r] : Ahead(r, a) => a \in uploaded \cup incomplete

OwnerInv == \A a \in Held : Owned(a) \/ Closed(a.part)

InterruptInv == ClaimInv /\ SeenInv /\ OwnerInv

\* What no run does: GitHub settles a POST, a checkpoint, or nothing happens.
Around == UNCHANGED vars \/ Checkpoint \/ \E a \in late : SettleLate(a)

LEMMA AroundFacts ==
  ASSUME Around
  PROVE  /\ UNCHANGED <<pc, assets, build, todo, cur, file, seenUp, seenInc>>
         /\ uploaded \subseteq uploaded' /\ Held' \subseteq Held
         /\ uploaded \cup incomplete \subseteq uploaded' \cup incomplete'
BY DEF Around, vars, Checkpoint, SettleLate, Held, planVars, snapVars, remoteVars

LEMMA NextActs == ASSUME [Next]_vars PROVE Around \/ \E r \in Runs : Acts(r)
BY DEF Next, Acts, Around

\* The steps of a run inside publish_partition, and after it failed.
LEMMA InFileActs ==
  ASSUME TypeOK, NEW r \in Runs, Acts(r), pc[r] \in InFile \cup {"failed"}
  PROVE  /\ pc[r] # "failed"
         /\ UNCHANGED <<assets, build, cur, seenUp, seenInc>>
         /\ (uploaded \cup incomplete) \ {Mine(r)} \subseteq uploaded' \cup incomplete'
         /\ \/ /\ pc'[r] \in InFile \cup {"failed"} /\ UNCHANGED todo
               /\ \/ UNCHANGED file /\ pc'[r] # "check"
                  \/ file'[r] = file[r] + 1 /\ pc'[r] = "check"
            \/ /\ pc[r] = "verify" /\ pc'[r] = "next" /\ UNCHANGED <<uploaded, incomplete, late, file>>
               /\ Mine(r) \in uploaded /\ file[r] = NumFiles
               /\ todo' = [todo EXCEPT ![r] = @ \ {cur[r]}]
<1>. USE DEF remoteVars, planVars, snapVars, Step, End, Goto, InFile, Ended, TypeOK
<1>1. CASE Dispatch(r) \/ BuildFails(r) \/ Crash(r)
  BY <1>1 DEF Dispatch, DispatchExecute, DispatchStaged, BuildFails, Crash
<1>2. CASE CheckFile(r)
  BY <1>2 DEF CheckFile
<1>3. CASE DeleteAsset(r)
  BY <1>3 DEF DeleteAsset, Retry
<1>4. CASE Post(r)
  BY <1>4 DEF Post
<1>5. CASE Reconcile(r)
  BY <1>5 DEF Reconcile, Retry
<1>6. CASE VerifyFile(r)
  BY <1>6 DEF VerifyFile
<1>7. CASE \/ \E b \in Builds : ComputeStaged(r, b) \/ BuildExecute(r, b)
           \/ Acquire(r) \/ InventoryExecute(r) \/ InventoryStaged(r)
           \/ FinishPublishing(r) \/ VerifyRun(r) \/ \E p \in Partitions : BeginPartition(r, p)
  BY <1>7 DEF ComputeStaged, BuildExecute, Acquire, InventoryExecute, InventoryStaged,
              FinishPublishing, VerifyRun, BeginPartition
<1>. QED
  BY <1>1, <1>2, <1>3, <1>4, <1>5, <1>6, <1>7 DEF Acts, Proceed, Publish

\* The steps of any other run leave the release alone.
LEMMA OutsideActs ==
  ASSUME TypeOK, NEW r \in Runs, Acts(r), pc[r] \notin InFile
  PROVE  UNCHANGED <<uploaded, incomplete, late>>
BY DEF Acts, Proceed, Publish, Dispatch, DispatchExecute, DispatchStaged, BuildFails, Crash,
       ComputeStaged, BuildExecute, Acquire, InventoryExecute, InventoryStaged,
       FinishPublishing, VerifyRun, BeginPartition, CheckFile, DeleteAsset, Post, Reconcile,
       VerifyFile, remoteVars, InFile

\* A closed partition is verified, or the release has an anomaly that stops the
\* inventory: no run takes it on.
LEMMA ClosedIsVerified ==
  ASSUME TypeOK, NEW p, Closed(p), ~FatalAnomaly(uploaded, incomplete), NEW d \in SUBSET Partitions
  PROVE  p \notin Unfinished(uploaded, incomplete, d)
<1>. SUFFICES ASSUME p \in d PROVE p \in Verified(uploaded, incomplete)
  BY DEF Unfinished
<1>1. PICK b \in Builds : \A f \in Files : Name(p, f, b) \in uploaded
  BY DEF Closed
<1>2. ASSUME NEW f \in Files
      PROVE  Listed(uploaded, incomplete, p, f) = {Name(p, f, b)}
  <2>1. Name(p, f, b) \in Listed(uploaded, incomplete, p, f)
    BY <1>1 DEF Listed, Name
  <2>2. \A x \in Listed(uploaded, incomplete, p, f) : x = Name(p, f, b)
    BY <2>1 DEF Listed, FatalAnomaly
  <2>. QED  BY <2>1, <2>2
<1>. QED  BY <1>1, <1>2 DEF Verified

LEMMA NotBusier ==
  ASSUME TypeOK, NEW p, Closed(p), NEW r \in Runs, Acts(r)
  PROVE  ~Busy(r, p)'
<1>. USE DEF Busy, InFile, Ended, Step, End, Goto, TypeOK
<1>0. ~Busy(r, p)
  BY DEF Closed
<1>1. CASE pc[r] \in InFile \cup {"failed"}
  BY <1>0, <1>1, InFileActs
<1>2. CASE Dispatch(r) \/ BuildFails(r) \/ Crash(r)
  BY <1>0, <1>2 DEF Dispatch, DispatchExecute, DispatchStaged, BuildFails, Crash
<1>3. CASE \E b \in Builds : ComputeStaged(r, b) \/ BuildExecute(r, b)
  BY <1>0, <1>3 DEF ComputeStaged, BuildExecute
<1>4. CASE Acquire(r) \/ FinishPublishing(r) \/ VerifyRun(r)
  BY <1>0, <1>4 DEF Acquire, FinishPublishing, VerifyRun
<1>5. CASE \E q \in Partitions : BeginPartition(r, q)
  BY <1>0, <1>5 DEF BeginPartition
<1>6. CASE InventoryExecute(r) \/ InventoryStaged(r)
  <2>1. ~FatalAnomaly(uploaded, incomplete) => p \notin Unfinished(uploaded, incomplete, day[r])
    BY ClosedIsVerified
  <2>. QED  BY <1>0, <1>6, <2>1 DEF InventoryExecute, InventoryStaged
<1>7. CASE pc[r] \notin InFile /\ (CheckFile(r) \/ DeleteAsset(r) \/ Post(r) \/ Reconcile(r) \/ VerifyFile(r))
  BY <1>7 DEF CheckFile, DeleteAsset, Post, Reconcile, VerifyFile
<1>. QED
  BY <1>1, <1>2, <1>3, <1>4, <1>5, <1>6, <1>7 DEF Acts, Proceed, Publish

\* Nothing is deleted from a closed partition: the run that deletes has its own
\* partition before it.
LEMMA ClosedStays ==
  ASSUME TypeOK, ClaimInv, [Next]_vars, NEW p, Closed(p)
  PROVE  Closed(p)'
<1>1. CASE Around
  BY <1>1, AroundFacts DEF Closed, Busy, Name
<1>2. ASSUME NEW r \in Runs, Acts(r)
      PROVE  Closed(p)'
  <2>1. \A o \in Runs : ~Busy(o, p)'
    <3>. SUFFICES ASSUME NEW o \in Runs, o # r PROVE ~Busy(o, p)'
      BY <1>2, NotBusier
    <3>1. Same(o) /\ ~Busy(o, p)
      BY <1>2, ActsAlone DEF Closed
    <3>. QED  BY <3>1 DEF Same, Busy
  <2>2. ASSUME NEW x \in uploaded, x.part = p
        PROVE  x \in uploaded'
    <3>1. CASE DeleteAsset(r)
      <4>1. pc[r] \in InFile /\ uploaded \ {Mine(r)} \subseteq uploaded'
        BY <3>1 DEF DeleteAsset, InFile
      <4>2. Mine(r).part # p
        BY <4>1 DEF ClaimInv, Closed, Busy, Mine, Name
      <4>. QED  BY <2>2, <4>1, <4>2
    <3>2. CASE ~DeleteAsset(r)
      BY <1>2, <3>2 DEF Acts, Proceed, Publish, Dispatch, DispatchExecute, DispatchStaged,
         BuildFails, Crash, ComputeStaged, BuildExecute, Acquire, InventoryExecute,
         InventoryStaged, FinishPublishing, VerifyRun, BeginPartition, CheckFile, Post,
         Reconcile, VerifyFile, remoteVars
    <3>. QED  BY <3>1, <3>2
  <2>3. PICK b \in Builds : \A f \in Files : Name(p, f, b) \in uploaded
    BY DEF Closed
  <2>4. \A f \in Files : Name(p, f, b) \in uploaded'
    BY <2>2, <2>3 DEF Name
  <2>. QED  BY <2>1, <2>4 DEF Closed, Name
<1>. QED  BY <1>1, <1>2, NextActs

\* An owner stays one, unless it completes the partition.
LEMMA OwnedStays ==
  ASSUME TypeOK, LockInv, HasBuild, PassedInv, [Next]_vars, NEW a, Owned(a), a.file \in Files
  PROVE  Owned(a)' \/ Closed(a.part)'
<1>0. PICK o \in Runs : OwnedBy(o, a)
  BY DEF Owned
<1>. SUFFICES OwnedBy(o, a)' \/ Closed(a.part)'
  BY DEF Owned
<1>1. CASE Around
  BY <1>0, <1>1, AroundFacts DEF OwnedBy, Name
<1>2. ASSUME NEW r \in Runs \ {o}, Acts(r)
      PROVE  OwnedBy(o, a)'
  <2>1. Same(o)
    BY <1>2, ActsAlone
  <2>. QED  BY <1>0, <2>1 DEF Same, OwnedBy, Name
<1>3. CASE Acts(o)
  <2>1. pc[o] \in InFile \cup {"failed"}
    BY <1>0 DEF OwnedBy
  <2>2. CASE pc'[o] \in InFile \cup {"failed"} /\ UNCHANGED todo
    <3>1. build' = build /\ cur' = cur /\ file'[o] \in {file[o], file[o] + 1}
      BY <1>3, <2>1, <2>2, InFileActs DEF InFile
    <3>2. file[o] \in Nat /\ a.file \in Nat
      BY DEF TypeOK, Files
    <3>3. a.file <= file'[o]
      BY <1>0, <3>1, <3>2 DEF OwnedBy
    <3>. QED  BY <1>0, <2>2, <3>1, <3>3 DEF OwnedBy, Name
  <2>3. CASE ~(pc'[o] \in InFile \cup {"failed"} /\ UNCHANGED todo)
    <3>1. /\ pc[o] = "verify" /\ pc'[o] = "next" /\ UNCHANGED <<uploaded, build, cur, file>>
          /\ Mine(o) \in uploaded /\ file[o] = NumFiles
          /\ todo' = [todo EXCEPT ![o] = @ \ {cur[o]}]
      BY <1>3, <2>1, <2>3, InFileActs
    <3>2. cur[o] = a.part /\ build[o] \in Builds
      BY <1>0 DEF OwnedBy
    <3>3. \A f \in Files : Name(a.part, f, build[o]) \in uploaded'
      <4>1. Prefix(cur[o], NumFiles, build[o], uploaded)
        BY <3>1 DEF PassedInv, InFile
      <4>2. \A f \in Files : f < NumFiles \/ f = NumFiles
        BY FilesType DEF Files
      <4>. QED  BY <3>1, <3>2, <4>1, <4>2 DEF Prefix, Mine
    <3>4. ASSUME NEW q \in Runs PROVE ~Busy(q, a.part)'
      <4>1. CASE q = o
        BY <3>1, <3>2, <4>1 DEF Busy, TypeOK
      <4>2. CASE q # o
        <5>1. Same(q)
          BY <1>3, <4>2, ActsAlone
        <5>2. pc[q] \notin Locked
          BY <3>1, <4>2, OneWriter DEF Locked, InFile
        <5>. QED  BY <5>1, <5>2 DEF Same, Busy, Locked
      <4>. QED  BY <4>1, <4>2
    <3>. QED  BY <3>2, <3>3, <3>4 DEF Closed, Name
  <2>. QED  BY <2>2, <2>3
<1>. QED  BY <1>1, <1>2, <1>3, NextActs

\* What is new in the release belongs to the run that posts.
LEMMA NewIsOwned ==
  ASSUME TypeOK, HasBuild, ClaimInv, [Next]_vars, NEW a \in Held', a \notin Held
  PROVE  Owned(a)'
<1>1. ~Around
  BY AroundFacts
<1>2. PICK r \in Runs : Acts(r)
  BY <1>1, NextActs
<1>3. pc[r] \in InFile
  BY <1>2, OutsideActs DEF Held
<1>4. Post(r) /\ a = Mine(r)
  <2>1. CASE Post(r)
    BY <2>1 DEF Post, Held, remoteVars
  <2>2. CASE ~Post(r)
    BY <1>2, <2>2 DEF Acts, Proceed, Publish, Dispatch, DispatchExecute, DispatchStaged,
       BuildFails, Crash, ComputeStaged, BuildExecute, Acquire, InventoryExecute,
       InventoryStaged, FinishPublishing, VerifyRun, BeginPartition, CheckFile, DeleteAsset,
       Reconcile, VerifyFile, remoteVars, Held
  <2>. QED  BY <2>1, <2>2
<1>5. /\ UNCHANGED <<build, todo, cur, file>> /\ pc'[r] \in InFile \cup {"failed"}
  BY <1>4 DEF Post, Step, End, Goto, InFile, TypeOK, planVars, snapVars
<1>6. build[r] \in Builds /\ cur[r] \in todo[r] /\ file[r] \in Nat
  BY <1>3 DEF HasBuild, ClaimInv, TypeOK, Files
<1>7. a.part = cur[r] /\ a.file = file[r] /\ a = Name(a.part, a.file, build[r])
  BY <1>4 DEF Mine, Name
<1>8. OwnedBy(r, a)'
  BY <1>5, <1>6, <1>7 DEF OwnedBy, Name
<1>. QED  BY <1>8 DEF Owned

LEMMA ClaimStep ==
  ASSUME TypeOK, ClaimInv, [Next]_vars
  PROVE  ClaimInv'
<1>1. CASE Around
  BY <1>1, AroundFacts DEF ClaimInv
<1>2. ASSUME NEW r \in Runs, Acts(r)
      PROVE  ClaimInv'
  <2>1. \A o \in Runs \ {r} : Same(o)
    BY <1>2, ActsAlone
  <2>2. pc'[r] \in InFile => cur'[r] \in todo'[r]
    <3>1. CASE pc[r] \in InFile
      BY <1>2, <3>1, InFileActs DEF ClaimInv, InFile
    <3>2. CASE \E p \in Partitions : BeginPartition(r, p)
      BY <3>2 DEF BeginPartition, TypeOK
    <3>3. CASE pc[r] \notin InFile /\ ~(\E p \in Partitions : BeginPartition(r, p))
      <4>1. pc'[r] \notin InFile
        BY <1>2, <3>3 DEF Acts, Proceed, Publish, Dispatch, DispatchExecute, DispatchStaged,
           BuildFails, Crash, ComputeStaged, BuildExecute, Acquire, InventoryExecute,
           InventoryStaged, FinishPublishing, VerifyRun, CheckFile, DeleteAsset, Post,
           Reconcile, VerifyFile, Step, End, Goto, InFile, Ended, TypeOK
      <4>. QED  BY <4>1
    <3>. QED  BY <3>1, <3>2, <3>3
  <2>. QED  BY <2>1, <2>2 DEF ClaimInv, Same
<1>. QED  BY <1>1, <1>2, NextActs

LEMMA SeenStep ==
  ASSUME TypeOK, LockInv, LockInv', SeenInv, [Next]_vars
  PROVE  SeenInv'
<1>1. CASE Around
  BY <1>1, AroundFacts DEF SeenInv, Ahead
<1>2. ASSUME NEW r \in Runs, Acts(r)
      PROVE  SeenInv'
  <2>. SUFFICES ASSUME NEW o \in Runs, pc'[o] \in InFile,
                       NEW a \in seenUp'[o] \cup seenInc'[o], Ahead(o, a)'
                PROVE  a \in uploaded' \cup incomplete'
    BY DEF SeenInv, Ahead
  <2>1. CASE o # r
    <3>1. Same(o) /\ seenUp'[o] = seenUp[o] /\ seenInc'[o] = seenInc[o]
      <4>1. Same(o)
        BY <1>2, <2>1, ActsAlone
      <4>2. UNCHANGED <<seenUp, seenInc>> \/ \E p \in Partitions : BeginPartition(r, p)
        BY <1>2 DEF Acts, Proceed, Publish, Dispatch, DispatchExecute, DispatchStaged,
           BuildFails, Crash, ComputeStaged, BuildExecute, Acquire, InventoryExecute,
           InventoryStaged, FinishPublishing, VerifyRun, CheckFile, DeleteAsset, Post,
           Reconcile, VerifyFile, snapVars
      <4>. QED  BY <2>1, <4>1, <4>2 DEF BeginPartition, TypeOK
    <3>2. pc[o] \in InFile /\ a \in uploaded \cup incomplete
      BY <3>1 DEF Same, SeenInv, Ahead
    <3>3. pc[r] \notin InFile
      BY <2>1, <3>2, OneWriter DEF Locked
    <3>. QED  BY <1>2, <3>2, <3>3, OutsideActs
  <2>2. CASE o = r /\ pc[r] \in InFile
    <3>1. UNCHANGED <<cur, seenUp, seenInc>> /\ file[r] \in Nat
      BY <1>2, <2>2, InFileActs DEF TypeOK, Files
    <3>2. a \in Asset /\ a.file \in Nat
      BY <2>2, <3>1 DEF TypeOK, Asset, Files
    <3>3. \/ file'[r] = file[r] /\ pc'[r] # "check"
          \/ file'[r] = file[r] + 1
      BY <1>2, <2>2, InFileActs DEF InFile
    <3>4. a.part = cur[r] /\ a.file > file[r]
      BY <2>2, <3>1, <3>2, <3>3 DEF Ahead
    <3>5. a \in uploaded \cup incomplete
      BY <2>2, <3>1, <3>4 DEF SeenInv, Ahead
    <3>6. a # Mine(r)
      BY <3>1, <3>2, <3>4 DEF Mine, Name
    <3>. QED  BY <1>2, <2>2, <3>5, <3>6, InFileActs
  <2>3. CASE o = r /\ pc[r] \notin InFile
    <3>1. \E p \in Partitions : BeginPartition(r, p)
      BY <1>2, <2>3 DEF Acts, Proceed, Publish, Dispatch, DispatchExecute, DispatchStaged,
         BuildFails, Crash, ComputeStaged, BuildExecute, Acquire, InventoryExecute,
         InventoryStaged, FinishPublishing, VerifyRun, CheckFile, DeleteAsset, Post,
         Reconcile, VerifyFile, Step, End, Goto, InFile, Ended, TypeOK
    <3>. QED  BY <2>3, <3>1 DEF BeginPartition, remoteVars, TypeOK
  <2>. QED  BY <2>1, <2>2, <2>3
<1>. QED  BY <1>1, <1>2, NextActs

\* The inductive invariant, on top of OneBuildInv.
LEMMA InterruptInductive ==
  /\ Init => InterruptInv
  /\ OneBuildInv /\ InterruptInv /\ OneBuildInv' /\ [Next]_vars => InterruptInv'
<1>1. Init => InterruptInv
  BY DEF Init, InterruptInv, ClaimInv, SeenInv, OwnerInv, Held, InFile
<1>2. ASSUME OneBuildInv, InterruptInv, OneBuildInv', [Next]_vars
      PROVE  InterruptInv'
  <2>. USE <1>2 DEF OneBuildInv, InterruptInv
  <2>1. ClaimInv'
    BY ClaimStep
  <2>2. SeenInv'
    BY SeenStep
  <2>3. ASSUME NEW a \in Held'
        PROVE  Owned(a)' \/ Closed(a.part)'
    <3>1. CASE a \notin Held
      BY <3>1, NewIsOwned
    <3>2. CASE a \in Held
      <4>1. a.file \in Files
        BY <3>2 DEF Held, TypeOK, Asset
      <4>2. CASE Owned(a)
        BY <4>1, <4>2, OwnedStays
      <4>3. CASE Closed(a.part)
        BY <4>3, ClosedStays
      <4>. QED  BY <3>2, <4>2, <4>3 DEF OwnerInv
    <3>. QED  BY <3>1, <3>2
  <2>4. OwnerInv'
    BY <2>3 DEF OwnerInv, Owned, OwnedBy, Closed, Busy, Name
  <2>. QED  BY <2>1, <2>2, <2>4
<1>. QED  BY <1>1, <1>2

\* publish_partition refuses a partition only because a run was interrupted in it,
\* at that file or a later one, and had computed another content: whatever crashes,
\* answers are lost, POSTs are committed late and other runs do meanwhile.
THEOREM OnlyInterruptionsConflict == Spec => []ConflictMeansInterruption
<1>1. ASSUME OneBuildInv, InterruptInv PROVE ConflictMeansInterruption
  <2>. USE <1>1 DEF OneBuildInv, InterruptInv
  <2>. SUFFICES ASSUME NEW r \in Runs, pc[r] = "check", Conflict(r)
                PROVE  \E o \in Runs \ {r} :
                         /\ pc[o] = "failed" /\ cur[o] = cur[r] /\ cur[o] \in todo[o]
                         /\ file[o] >= file[r]
                         /\ build[o][file[r]] # build[r][file[r]]
                         /\ Name(cur[r], file[r], build[o]) \in uploaded \cup incomplete
    BY DEF ConflictMeansInterruption
  <2>1. PICK a \in seenUp[r] \cup seenInc[r] :
          a.part = cur[r] /\ a.file = file[r] /\ a # Mine(r)
    BY DEF Conflict, Listed
  <2>2. a \in uploaded \cup incomplete
    BY <2>1 DEF SeenInv, Ahead, InFile
  <2>3. ~Closed(a.part)
    BY <2>1 DEF ClaimInv, Closed, Busy, InFile
  <2>4. PICK o \in Runs : OwnedBy(o, a)
    BY <2>2, <2>3 DEF OwnerInv, Held, Owned
  <2>5. a = Name(cur[r], file[r], build[o])
    BY <2>1, <2>4 DEF OwnedBy
  <2>6. o # r
    BY <2>1, <2>5 DEF Mine
  <2>7. pc[o] = "failed"
    <3>1. pc[o] \notin InFile
      BY <2>6, OneWriter DEF Locked, InFile
    <3>. QED  BY <2>4, <3>1 DEF OwnedBy
  <2>8. build[o][file[r]] # build[r][file[r]]
    BY <2>1, <2>5 DEF Mine, Name
  <2>9. cur[o] = cur[r] /\ cur[o] \in todo[o] /\ file[o] >= file[r]
    <3>1. file[o] \in Nat /\ file[r] \in Nat
      BY DEF TypeOK, Files
    <3>. QED  BY <2>1, <2>4, <3>1 DEF OwnedBy
  <2>. QED  BY <2>2, <2>5, <2>6, <2>7, <2>8, <2>9
<1>. QED  BY <1>1, OneBuildInductive, InterruptInductive, PTL DEF Spec

-----------------------------------------------------------------------------
(***************************************************************************)
(* From here on GitHub settles a POST before its client gives it up: a     *)
(* release then changes only under the lock.  The invariant below relates  *)
(* the release to the publishing run's snapshot of it.                     *)
(***************************************************************************)

\* Of what lies ahead, the snapshot still tells the truth.
SnapshotInv ==
  \A r \in Runs : pc[r] \in InFile =>
    \A a \in Asset : Ahead(r, a) =>
      /\ a \in uploaded <=> a \in seenUp[r]
      /\ a \in incomplete <=> a \in seenInc[r]

\* Past the conflict check, nobody else's content of the file is there.
OwnInv ==
  \A r \in Runs : pc[r] \in InFile \ {"check"} =>
    \A a \in Held : a.part = cur[r] /\ a.file = file[r] => a = Mine(r)

\* What a run is about to delete is still incomplete.
LeftoverInv ==
  \A r \in Runs : pc[r] \in {"delete", "discard", "purge"} => Mine(r) \in incomplete

SettledInv == late = {} /\ SnapshotInv /\ OwnInv /\ LeftoverInv /\ NoFatalAnomaly

LEMMA SettledQuiet == SettledInv /\ Quiet => SettledInv'
<1>. SUFFICES ASSUME SettledInv, Quiet PROVE SettledInv'
  OBVIOUS
<1>. USE DEF SettledInv, Quiet
<1>1. late' = {} /\ NoFatalAnomaly'
  BY DEF NoFatalAnomaly, FatalAnomaly
<1>2. SnapshotInv'
  BY DEF SnapshotInv, Ahead
<1>3. OwnInv'
  BY DEF OwnInv, Mine, Name, Held
<1>4. LeftoverInv'
  BY DEF LeftoverInv, Mine, Name, InFile
<1>. QED  BY <1>1, <1>2, <1>3, <1>4

LEMMA SettledBegin ==
  ASSUME TypeOK, LockInv, SettledInv, NEW r \in Runs, NEW p \in Partitions, BeginPartition(r, p)
  PROVE  SettledInv'
<1>. USE DEF SettledInv, remoteVars, planVars
<1>1. /\ UNCHANGED <<uploaded, incomplete, late, build>>
      /\ pc[r] = "next" /\ pc'[r] = "check"
      /\ \A o \in Runs : o # r => pc'[o] = pc[o]
      /\ seenUp'[r] = uploaded /\ seenInc'[r] = incomplete
  BY DEF BeginPartition, Step, Goto, TypeOK
<1>2. ASSUME NEW o \in Runs, pc'[o] \in InFile
      PROVE  o = r
  BY <1>1, <1>2, OneWriter DEF Locked
<1>3. late' = {} /\ NoFatalAnomaly'
  BY <1>1 DEF NoFatalAnomaly, FatalAnomaly
<1>4. SnapshotInv'
  BY <1>1, <1>2 DEF SnapshotInv
<1>5. OwnInv' /\ LeftoverInv'
  BY <1>1, <1>2 DEF OwnInv, LeftoverInv, InFile
<1>. QED  BY <1>3, <1>4, <1>5

\* CheckFile: the snapshot shows every content of the file there is, so that
\* the conflict check leaves the run's own, and an incomplete leftover only if
\* it still is one.
LEMMA SettledCheck ==
  ASSUME TypeOK, HasBuild, LockInv, SettledInv, NEW r \in Runs, CheckFile(r)
  PROVE  SettledInv'
<1>. USE DEF SettledInv, remoteVars, planVars, snapVars
<1>1. /\ UNCHANGED <<uploaded, incomplete, late, build, cur, file, seenUp, seenInc>>
      /\ pc[r] = "check"
      /\ pc'[r] \in {"failed", "delete", "verify", "post"}
      /\ \A o \in Runs : o # r => pc'[o] = pc[o]
      /\ pc'[r] # "failed" => ~Conflict(r)
      /\ pc'[r] = "delete" => Mine(r) \in seenInc[r]
  BY DEF CheckFile, Step, End, Goto, TypeOK
<1>2. ASSUME NEW o \in Runs, pc'[o] \in InFile
      PROVE  o = r
  BY <1>1, <1>2, OneWriter DEF Locked, InFile
<1>3. late' = {} /\ NoFatalAnomaly'
  BY <1>1 DEF NoFatalAnomaly, FatalAnomaly
<1>4. SnapshotInv'
  BY <1>1, <1>2 DEF SnapshotInv, Ahead, InFile
<1>5. ASSUME NEW a \in Held, a.part = cur[r], a.file = file[r]
      PROVE  a \in seenUp[r] \cup seenInc[r]
  <2>1. a \in Asset /\ Ahead(r, a) /\ pc[r] \in InFile
    BY <1>1, <1>5 DEF Held, TypeOK, Ahead, InFile
  <2>. QED  BY <2>1, <1>5 DEF SnapshotInv, Held
<1>6. OwnInv'
  <2>. SUFFICES ASSUME pc'[r] # "failed", NEW a \in Held, a.part = cur[r], a.file = file[r]
                PROVE  a = Mine(r)
    BY <1>1, <1>2 DEF OwnInv, Mine, Name, Held, InFile
  <2>1. a \in Listed(seenUp[r], seenInc[r], cur[r], file[r])
    BY <1>5 DEF Listed
  <2>. QED  BY <1>1, <2>1 DEF Conflict
<1>7. LeftoverInv'
  <2>. SUFFICES ASSUME pc'[r] = "delete"
                PROVE  Mine(r) \in incomplete
    BY <1>1, <1>2 DEF LeftoverInv, Mine, Name, InFile
  <2>1. Mine(r) \in Asset /\ Ahead(r, Mine(r))
    BY <1>1, MineType DEF InFile, Ahead, Mine, Name
  <2>. QED  BY <1>1, <2>1 DEF SnapshotInv, InFile
<1>. QED  BY <1>3, <1>4, <1>6, <1>7

LEMMA SettledDelete ==
  ASSUME TypeOK, HasBuild, LockInv, SettledInv, NEW r \in Runs, DeleteAsset(r)
  PROVE  SettledInv'
<1>. USE DEF SettledInv, remoteVars, planVars, snapVars
<1>1. /\ UNCHANGED <<late, build, cur, file, seenUp, seenInc>>
      /\ pc[r] \in {"delete", "discard", "purge"}
      /\ pc'[r] \in {"failed", "post", "reconcile"}
      /\ \A o \in Runs : o # r => pc'[o] = pc[o]
      /\ uploaded' \in {uploaded, uploaded \ {Mine(r)}}
      /\ incomplete' \in {incomplete, incomplete \ {Mine(r)}}
  BY DEF DeleteAsset, Retry, Step, End, Goto, TypeOK
<1>2. ASSUME NEW o \in Runs, pc'[o] \in InFile
      PROVE  o = r
  BY <1>1, <1>2, OneWriter DEF Locked, InFile
<1>3. late' = {} /\ NoFatalAnomaly'
  BY <1>1 DEF NoFatalAnomaly, FatalAnomaly
<1>4. SnapshotInv'
  <2>. SUFFICES ASSUME NEW a \in Asset, a.part = cur[r], a.file > file[r]
                PROVE  /\ a \in uploaded' <=> a \in seenUp[r]
                       /\ a \in incomplete' <=> a \in seenInc[r]
    BY <1>1, <1>2 DEF SnapshotInv, Ahead
  <2>1. a # Mine(r)
    BY DEF Mine, Name, TypeOK, Files
  <2>2. (a \in uploaded <=> a \in seenUp[r]) /\ (a \in incomplete <=> a \in seenInc[r])
    BY <1>1 DEF SnapshotInv, Ahead, InFile
  <2>. QED  BY <1>1, <2>1, <2>2
<1>5. OwnInv'
  BY <1>1, <1>2 DEF OwnInv, Mine, Name, Held, InFile
<1>6. LeftoverInv'
  BY <1>1, <1>2 DEF LeftoverInv, InFile
<1>. QED  BY <1>3, <1>4, <1>5, <1>6

LEMMA SettledPost ==
  ASSUME ~LateCommit, TypeOK, HasBuild, LockInv, SettledInv, NEW r \in Runs, Post(r)
  PROVE  SettledInv'
<1>. USE DEF SettledInv, remoteVars, planVars, snapVars
<1>1. /\ UNCHANGED <<build, cur, file, seenUp, seenInc>>
      /\ pc[r] = "post"
      /\ pc'[r] \in {"failed", "verify", "reconcile", "discard"}
      /\ \A o \in Runs : o # r => pc'[o] = pc[o]
  BY DEF Post, Step, End, Goto, TypeOK
<1>2. /\ uploaded' \in {uploaded, uploaded \cup {Mine(r)}}
      /\ incomplete' \in {incomplete, incomplete \cup {Mine(r)}}
      /\ late' = {}
  BY DEF Post
<1>3. pc'[r] = "discard" => Mine(r) \in incomplete'
  BY <1>1 DEF Post, Step, End, Goto, TypeOK
<1>4. ASSUME NEW o \in Runs, pc'[o] \in InFile
      PROVE  o = r
  BY <1>1, <1>4, OneWriter DEF Locked, InFile
<1>5. ASSUME NEW a \in Held, a.part = cur[r], a.file = file[r]
      PROVE  a = Mine(r)
  BY <1>1, <1>5 DEF OwnInv, InFile
<1>6. NoFatalAnomaly'
  <2>. SUFFICES ASSUME NEW a \in uploaded' \cup incomplete', NEW b \in uploaded' \cup incomplete',
                       a.part = b.part, a.file = b.file
                PROVE  a = b
    BY DEF NoFatalAnomaly, FatalAnomaly
  <2>1. a \in Held \cup {Mine(r)} /\ b \in Held \cup {Mine(r)}
    BY <1>2 DEF Held
  <2>2. Mine(r).part = cur[r] /\ Mine(r).file = file[r]
    BY DEF Mine, Name
  <2>3. CASE a \in Held /\ b \in Held
    BY <2>3 DEF NoFatalAnomaly, FatalAnomaly, Held
  <2>4. CASE a = Mine(r) \/ b = Mine(r)
    BY <1>5, <2>1, <2>2, <2>4
  <2>. QED  BY <2>1, <2>3, <2>4
<1>7. SnapshotInv'
  <2>. SUFFICES ASSUME NEW a \in Asset, a.part = cur[r], a.file > file[r]
                PROVE  /\ a \in uploaded' <=> a \in seenUp[r]
                       /\ a \in incomplete' <=> a \in seenInc[r]
    BY <1>1, <1>4 DEF SnapshotInv, Ahead
  <2>1. a # Mine(r)
    BY DEF Mine, Name, TypeOK, Files
  <2>2. (a \in uploaded <=> a \in seenUp[r]) /\ (a \in incomplete <=> a \in seenInc[r])
    BY <1>1 DEF SnapshotInv, Ahead, InFile
  <2>. QED  BY <1>2, <2>1, <2>2
<1>8. OwnInv'
  <2>. SUFFICES ASSUME NEW a \in Held', a.part = cur[r], a.file = file[r]
                PROVE  a = Mine(r)
    BY <1>1, <1>4 DEF OwnInv, Mine, Name
  <2>. QED  BY <1>2, <1>5 DEF Held
<1>9. LeftoverInv'
  BY <1>1, <1>3, <1>4 DEF LeftoverInv, Mine, Name, InFile
<1>. QED  BY <1>2, <1>6, <1>7, <1>8, <1>9

LEMMA SettledVerify ==
  ASSUME TypeOK, LockInv, SettledInv, NEW r \in Runs, Reconcile(r) \/ VerifyFile(r)
  PROVE  SettledInv'
<1>. USE DEF SettledInv, remoteVars, planVars, snapVars
<1>1. /\ UNCHANGED <<uploaded, incomplete, late, build, cur, seenUp, seenInc>>
      /\ pc[r] \in {"reconcile", "verify"}
      /\ pc'[r] \in {"failed", "verify", "purge", "post", "check", "next"}
      /\ \A o \in Runs : o # r => pc'[o] = pc[o]
      /\ pc'[r] = "check" => file'[r] = file[r] + 1
      /\ pc'[r] # "check" => file'[r] = file[r]
      /\ pc'[r] = "purge" => Mine(r) \in incomplete
  BY DEF Reconcile, Retry, VerifyFile, Step, End, Goto, TypeOK
<1>2. ASSUME NEW o \in Runs, pc'[o] \in InFile
      PROVE  o = r
  BY <1>1, <1>2, OneWriter DEF Locked, InFile
<1>3. late' = {} /\ NoFatalAnomaly'
  BY <1>1 DEF NoFatalAnomaly, FatalAnomaly
<1>4. SnapshotInv'
  <2>. SUFFICES ASSUME NEW a \in Asset, a.part = cur[r],
                       a.file > file'[r] \/ (pc'[r] = "check" /\ a.file = file'[r])
                PROVE  /\ a \in uploaded <=> a \in seenUp[r]
                       /\ a \in incomplete <=> a \in seenInc[r]
    BY <1>1, <1>2 DEF SnapshotInv, Ahead
  <2>1. a.file \in Files /\ file[r] \in Files
    BY DEF Asset, TypeOK
  <2>2. a.file > file[r]
    BY <1>1, <2>1 DEF Files
  <2>. QED  BY <1>1, <2>2 DEF SnapshotInv, Ahead, InFile
<1>5. OwnInv'
  BY <1>1, <1>2 DEF OwnInv, Mine, Name, Held, InFile
<1>6. LeftoverInv'
  BY <1>1, <1>2 DEF LeftoverInv, Mine, Name, InFile
<1>. QED  BY <1>3, <1>4, <1>5, <1>6

LEMMA SettledStep ==
  ASSUME ~LateCommit, OneBuildInv, SettledInv, [Next]_vars
  PROVE  SettledInv'
<1>. USE DEF OneBuildInv
<1>1. CASE UNCHANGED vars \/ Checkpoint
  BY <1>1, SettledQuiet DEF Quiet, vars, Checkpoint, remoteVars, planVars, snapVars
<1>2. ASSUME NEW r \in Runs, Publish(r)
      PROVE  SettledInv'
  BY <1>2, SettledBegin, SettledCheck, SettledDelete, SettledPost, SettledVerify DEF Publish
<1>3. ASSUME NEW r \in Runs, Dispatch(r) \/ (Proceed(r) /\ ~Publish(r)) \/ BuildFails(r) \/ Crash(r)
      PROVE  SettledInv'
  BY <1>3, QuietActions, SettledQuiet DEF Proceed
<1>. QED
  BY <1>1, <1>2, <1>3 DEF Next, Proceed, SettledInv

LEMMA SettledAlways ==
  ASSUME ~LateCommit
  PROVE  Spec => []SettledInv
<1>1. Init => SettledInv
  BY DEF Init, SettledInv, SnapshotInv, OwnInv, LeftoverInv, NoFatalAnomaly, FatalAnomaly, InFile
<1>2. SettledInv /\ OneBuildInv /\ [Next]_vars => SettledInv'
  BY SettledStep
<1>. QED  BY <1>1, <1>2, OneBuildAlways, PTL DEF Spec

\* Whatever runs race, crash and lose answers, the release never holds two
\* contents of one file, as long as GitHub commits no POST after its client has
\* given it up.
THEOREM NoAnomaly ==
  ASSUME ~LateCommit
  PROVE  Spec => []NoFatalAnomaly
<1>1. SettledInv => NoFatalAnomaly
  BY DEF SettledInv
<1>. QED  BY <1>1, SettledAlways, PTL

-----------------------------------------------------------------------------
(***************************************************************************)
(* What is durable stays durable.                                          *)
(***************************************************************************)

\* In a release without anomalies a verified partition stays verified, and its
\* ledger entry stays the same, when assets are only added.
LEMMA VerifiedGrows ==
  ASSUME NEW up, NEW inc, NEW up2, NEW inc2,
         up \subseteq up2, ~FatalAnomaly(up2, inc2),
         NEW p \in Verified(up, inc)
  PROVE  /\ p \in Verified(up2, inc2)
         /\ \A f \in Files : Listed(up2, inc2, p, f) = Listed(up, inc, p, f)
         /\ LedgerEntry(up2, inc2, p) = LedgerEntry(up, inc, p)
<1>1. ASSUME NEW f \in Files
      PROVE  \E a \in up2 : Listed(up2, inc2, p, f) = {a} /\ Listed(up, inc, p, f) = {a}
  <2>1. PICK a \in up : Listed(up, inc, p, f) = {a}
    BY DEF Verified
  <2>2. a.part = p /\ a.file = f /\ a \in up2
    BY <2>1 DEF Listed
  <2>3. \A b \in up2 \cup inc2 : b.part = p /\ b.file = f => b = a
    BY <2>2 DEF FatalAnomaly
  <2>4. Listed(up2, inc2, p, f) = {a}
    BY <2>2, <2>3 DEF Listed
  <2>. QED  BY <2>1, <2>2, <2>4
<1>2. p \in Verified(up2, inc2)
  BY <1>1 DEF Verified
<1>3. LedgerEntry(up2, inc2, p) = LedgerEntry(up, inc, p)
  BY <1>1, <1>2, InventoryAssumption DEF LedgerEntry
<1>. QED  BY <1>1, <1>2, <1>3

\* The entry of a verified partition is the digest of its manifest asset.
LEMMA VerifiedEntry ==
  ASSUME TypeOK, NEW p \in Verified(uploaded, incomplete)
  PROVE  \E a \in uploaded :
           /\ a.part = p /\ a.file = Manifest
           /\ Listed(uploaded, incomplete, p, Manifest) = {a}
           /\ a.digest = LedgerEntry(uploaded, incomplete, p)
<1>1. PICK a \in uploaded : Listed(uploaded, incomplete, p, Manifest) = {a}
  BY InventoryAssumption DEF Verified
<1>2. a.part = p /\ a.file = Manifest
  BY <1>1 DEF Listed
<1>3. (CHOOSE x \in {a} : TRUE) = a
  OBVIOUS
<1>. QED  BY <1>1, <1>2, <1>3 DEF LedgerEntry

\* No step takes an uploaded asset away: what DeleteAsset addresses is still
\* incomplete.
LEMMA KeepsUploaded ==
  ASSUME OneBuildInv, SettledInv, [Next]_vars
  PROVE  uploaded \subseteq uploaded'
<1>. USE DEF OneBuildInv
<1>1. ASSUME NEW r \in Runs, DeleteAsset(r)
      PROVE  uploaded' = uploaded
  <2>1. Mine(r) \in incomplete
    BY <1>1 DEF DeleteAsset, SettledInv, LeftoverInv
  <2>2. Mine(r) \notin uploaded
    BY <2>1 DEF OneState
  <2>. QED  BY <1>1, <2>2 DEF DeleteAsset
<1>2. ASSUME NEW r \in Runs, Post(r)
      PROVE  uploaded \subseteq uploaded'
  BY <1>2 DEF Post, remoteVars
<1>3. ASSUME NEW r \in Runs, CheckFile(r) \/ Reconcile(r) \/ VerifyFile(r)
      PROVE  uploaded' = uploaded
  BY <1>3 DEF CheckFile, Reconcile, VerifyFile, remoteVars
<1>4. ASSUME NEW r \in Runs, NEW p \in Partitions, BeginPartition(r, p)
      PROVE  uploaded' = uploaded
  BY <1>4 DEF BeginPartition, remoteVars
<1>5. CASE UNCHANGED vars \/ Checkpoint \/ \E a \in late : SettleLate(a)
  BY <1>5 DEF vars, Checkpoint, remoteVars, SettledInv
<1>6. ASSUME NEW r \in Runs, Dispatch(r) \/ (Proceed(r) /\ ~Publish(r)) \/ BuildFails(r) \/ Crash(r)
      PROVE  uploaded' = uploaded
  BY <1>6, QuietActions DEF Proceed, Quiet
<1>. QED
  BY <1>1, <1>2, <1>3, <1>4, <1>5, <1>6 DEF Next, Proceed, Publish

\* A step only ever touches the ledger by a checkpoint.
LEMMA LedgerSteps ==
  ASSUME [Next]_vars
  PROVE  \/ UNCHANGED ledger
         \/ /\ UNCHANGED <<uploaded, incomplete>>
            /\ ledger' = [p \in Partitions |-> LedgerEntry(uploaded, incomplete, p)]
<1>. USE DEF remoteVars
<1>1. CASE UNCHANGED vars \/ Checkpoint \/ \E a \in late : SettleLate(a)
  BY <1>1 DEF vars, Checkpoint, SettleLate
<1>2. ASSUME NEW r \in Runs, Dispatch(r) \/ BuildFails(r) \/ Crash(r) \/ Publish(r)
      PROVE  UNCHANGED ledger
  BY <1>2 DEF Dispatch, DispatchExecute, DispatchStaged, BuildFails, Crash, Publish,
              BeginPartition, CheckFile, DeleteAsset, Post, Reconcile, VerifyFile
<1>3. ASSUME NEW r \in Runs, Proceed(r), ~Publish(r)
      PROVE  UNCHANGED ledger
  BY <1>3 DEF Proceed, ComputeStaged, BuildExecute, Acquire, InventoryExecute,
              InventoryStaged, FinishPublishing, VerifyRun
<1>. QED  BY <1>1, <1>2, <1>3 DEF Next

\* A run that reports success has seen its partitions verified; afterwards its
\* plan does not change.
LEMMA DoneSteps ==
  ASSUME TypeOK, [Next]_vars, NEW r \in Runs, pc'[r] = "done"
  PROVE  \/ pc[r] = "done" /\ assets'[r] = assets[r]
         \/ /\ assets'[r] \subseteq Verified(uploaded, incomplete)
            /\ UNCHANGED <<uploaded, incomplete>>
<1>. USE DEF remoteVars, planVars, Step, End, Goto, TypeOK
<1>1. CASE UNCHANGED vars \/ Checkpoint \/ \E a \in late : SettleLate(a)
  BY <1>1 DEF vars, Checkpoint, SettleLate
<1>2. ASSUME NEW o \in Runs, o # r, pc'[r] = pc[r], assets'[r] = assets[r]
      PROVE  pc[r] = "done" /\ assets'[r] = assets[r]
  BY <1>2
<1>3. ASSUME NEW o \in Runs, Dispatch(o)
      PROVE  pc[r] = "done" /\ assets'[r] = assets[r]
  BY <1>3 DEF Dispatch, DispatchExecute, DispatchStaged
<1>4. ASSUME NEW o \in Runs, BuildFails(o) \/ Crash(o)
      PROVE  pc[r] = "done" /\ assets'[r] = assets[r]
  BY <1>4 DEF BuildFails, Crash, Ended
<1>5. ASSUME NEW o \in Runs, Publish(o)
      PROVE  pc[r] = "done" /\ assets'[r] = assets[r]
  <2>1. CASE \E p \in Partitions : BeginPartition(o, p)
    BY <1>5, <2>1 DEF BeginPartition
  <2>2. CASE CheckFile(o) \/ Reconcile(o) \/ VerifyFile(o)
    BY <1>5, <2>2 DEF CheckFile, Reconcile, Retry, VerifyFile
  <2>3. CASE DeleteAsset(o)
    BY <1>5, <2>3 DEF DeleteAsset, Retry
  <2>4. CASE Post(o)
    BY <1>5, <2>4 DEF Post
  <2>. QED  BY <1>5, <2>1, <2>2, <2>3, <2>4 DEF Publish
<1>6. ASSUME NEW o \in Runs, \/ \E b \in Builds : ComputeStaged(o, b) \/ BuildExecute(o, b)
                             \/ Acquire(o) \/ InventoryStaged(o) \/ FinishPublishing(o)
      PROVE  pc[r] = "done" /\ assets'[r] = assets[r]
  BY <1>6 DEF ComputeStaged, BuildExecute, Acquire, InventoryStaged, FinishPublishing
<1>7. ASSUME NEW o \in Runs, InventoryExecute(o)
      PROVE  \/ pc[r] = "done" /\ assets'[r] = assets[r]
             \/ /\ assets'[r] \subseteq Verified(uploaded, incomplete)
                /\ UNCHANGED <<uploaded, incomplete>>
  BY <1>7 DEF InventoryExecute
<1>8. ASSUME NEW o \in Runs, VerifyRun(o)
      PROVE  \/ pc[r] = "done" /\ assets'[r] = assets[r]
             \/ /\ assets'[r] \subseteq Verified(uploaded, incomplete)
                /\ UNCHANGED <<uploaded, incomplete>>
  BY <1>8 DEF VerifyRun
<1>. QED
  BY <1>1, <1>3, <1>4, <1>5, <1>6, <1>7, <1>8 DEF Next, Proceed

LEMMA ReportedStep ==
  ASSUME OneBuildInv, OneBuildInv', SettledInv, SettledInv', ReportedIsDurable, [Next]_vars
  PROVE  ReportedIsDurable'
<1>. USE DEF OneBuildInv, SettledInv
<1>1. uploaded \subseteq uploaded'
  BY KeepsUploaded
<1>2. ~FatalAnomaly(uploaded', incomplete')
  BY DEF NoFatalAnomaly
<1>3. Verified(uploaded, incomplete) \subseteq Verified(uploaded', incomplete')
  BY <1>1, <1>2, VerifiedGrows
<1>4. ASSUME NEW p \in Partitions, ledger'[p] # None
      PROVE  /\ p \in Verified(uploaded', incomplete')
             /\ \E a \in uploaded' : a.part = p /\ a.file = Manifest /\ a.digest = ledger'[p]
  <2>1. CASE UNCHANGED ledger
    BY <1>1, <1>3, <1>4, <2>1 DEF ReportedIsDurable
  <2>2. CASE /\ UNCHANGED <<uploaded, incomplete>>
             /\ ledger' = [q \in Partitions |-> LedgerEntry(uploaded, incomplete, q)]
    <3>1. ledger'[p] = LedgerEntry(uploaded, incomplete, p)
      BY <2>2
    <3>2. p \in Verified(uploaded, incomplete)
      BY <1>4, <3>1 DEF LedgerEntry
    <3>. QED  BY <2>2, <3>1, <3>2, VerifiedEntry
  <2>. QED  BY <2>1, <2>2, LedgerSteps
<1>5. ASSUME NEW r \in Runs, pc'[r] = "done"
      PROVE  assets'[r] \subseteq Verified(uploaded', incomplete')
  BY <1>3, <1>5, DoneSteps DEF ReportedIsDurable
<1>. QED  BY <1>4, <1>5 DEF ReportedIsDurable

\* Whatever a checkpoint wrote to the ledger, and whatever a run that ended well
\* vouched for, is durable for ever, with the manifest digest reported.
THEOREM ReportsHold ==
  ASSUME ~LateCommit
  PROVE  Spec => []ReportedIsDurable
<1>1. Init => ReportedIsDurable
  BY DEF Init, ReportedIsDurable
<1>2. OneBuildInv /\ OneBuildInv' /\ SettledInv /\ SettledInv' /\ ReportedIsDurable /\ [Next]_vars
        => ReportedIsDurable'
  BY ReportedStep
<1>. QED  BY <1>1, <1>2, OneBuildAlways, SettledAlways, PTL DEF Spec

-----------------------------------------------------------------------------
(***************************************************************************)
(* Publication implements DurablePartitions.                               *)
(***************************************************************************)

\* Whether a partition is verified depends on its own assets alone.
LEMMA VerifiedIsLocal ==
  ASSUME NEW up, NEW inc, NEW up2, NEW inc2, NEW p \in Partitions,
         \A a : a.part = p => (a \in up <=> a \in up2) /\ (a \in inc <=> a \in inc2)
  PROVE  p \in Verified(up, inc) <=> p \in Verified(up2, inc2)
<1>1. ASSUME NEW f \in Files
      PROVE  Listed(up2, inc2, p, f) = Listed(up, inc, p, f)
  BY DEF Listed
<1>2. ASSUME NEW f \in Files
      PROVE  (\E a \in up : Listed(up, inc, p, f) = {a}) <=> (\E a \in up2 : Listed(up2, inc2, p, f) = {a})
  <2>1. ASSUME NEW a, Listed(up, inc, p, f) = {a}
        PROVE  a \in up <=> a \in up2
    <3>1. a.part = p
      BY <2>1 DEF Listed
    <3>. QED  BY <3>1
  <2>. QED  BY <1>1, <2>1
<1>. QED  BY <1>2 DEF Verified

\* And so does its entry in the ledger.
LEMMA EntryIsLocal ==
  ASSUME NEW up, NEW inc, NEW up2, NEW inc2, NEW p \in Partitions,
         \A a : a.part = p => (a \in up <=> a \in up2) /\ (a \in inc <=> a \in inc2)
  PROVE  LedgerEntry(up2, inc2, p) = LedgerEntry(up, inc, p)
<1>1. p \in Verified(up, inc) <=> p \in Verified(up2, inc2)
  BY VerifiedIsLocal
<1>2. Listed(up2, inc2, p, Manifest) = Listed(up, inc, p, Manifest)
  BY DEF Listed
<1>. QED  BY <1>1, <1>2 DEF LedgerEntry

\* A step changes the assets of at most one partition.
LEMMA OnePartition ==
  ASSUME OneBuildInv, SettledInv, [Next]_vars
  PROVE  \E q \in Partitions \cup {None} : \A a : a.part # q =>
           (a \in uploaded <=> a \in uploaded') /\ (a \in incomplete <=> a \in incomplete')
<1>. USE DEF OneBuildInv, remoteVars
<1>1. ASSUME UNCHANGED <<uploaded, incomplete>>
      PROVE  \A a : a.part # None =>
               (a \in uploaded <=> a \in uploaded') /\ (a \in incomplete <=> a \in incomplete')
  BY <1>1
<1>2. ASSUME NEW r \in Runs, DeleteAsset(r) \/ Post(r)
      PROVE  /\ cur[r] \in Partitions
             /\ \A a : a.part # cur[r] =>
                  (a \in uploaded <=> a \in uploaded') /\ (a \in incomplete <=> a \in incomplete')
  <2>1. cur[r] \in Partitions
    BY <1>2 DEF DeleteAsset, Post, HasBuild, InFile
  <2>2. Mine(r).part = cur[r]
    BY DEF Mine, Name
  <2>3. \A a : a # Mine(r) =>
           (a \in uploaded <=> a \in uploaded') /\ (a \in incomplete <=> a \in incomplete')
    BY <1>2 DEF DeleteAsset, Post
  <2>. QED  BY <2>1, <2>2, <2>3
<1>3. CASE UNCHANGED vars \/ Checkpoint \/ \E a \in late : SettleLate(a)
  BY <1>1, <1>3 DEF vars, Checkpoint, SettledInv
<1>4. ASSUME NEW r \in Runs, Publish(r)
      PROVE  UNCHANGED <<uploaded, incomplete>> \/ DeleteAsset(r) \/ Post(r)
  BY <1>4 DEF Publish, BeginPartition, CheckFile, Reconcile, VerifyFile
<1>5. ASSUME NEW r \in Runs, Dispatch(r) \/ (Proceed(r) /\ ~Publish(r)) \/ BuildFails(r) \/ Crash(r)
      PROVE  UNCHANGED <<uploaded, incomplete>>
  BY <1>5, QuietActions DEF Proceed, Quiet
<1>. QED
  BY <1>1, <1>2, <1>3, <1>4, <1>5 DEF Next, Proceed

\* What the mapping shows of a partition: a build if it is verified, else None.
LEMMA EntryIsBuild ==
  ASSUME NEW up, NEW inc, NEW p \in Partitions,
         p \in Verified(up, inc) =>
           \E b \in Builds : \A f \in Files : Listed(up, inc, p, f) = {Name(p, f, b)}
  PROVE  /\ p \in Verified(up, inc) => BuildOf(LedgerEntry(up, inc, p)) \in Builds
         /\ p \notin Verified(up, inc) => BuildOf(LedgerEntry(up, inc, p)) = None
<1>1. CASE p \in Verified(up, inc)
  <2>1. PICK b \in Builds : Listed(up, inc, p, Manifest) = {Name(p, Manifest, b)}
    BY <1>1, InventoryAssumption
  <2>2. (CHOOSE a \in Listed(up, inc, p, Manifest) : TRUE) = Name(p, Manifest, b)
    BY <2>1
  <2>3. LedgerEntry(up, inc, p) = b[Manifest]
    <3>1. LedgerEntry(up, inc, p) = (CHOOSE a \in Listed(up, inc, p, Manifest) : TRUE).digest
      BY <1>1 DEF LedgerEntry
    <3>2. Name(p, Manifest, b).digest = b[Manifest]
      BY DEF Name
    <3>. QED  BY <2>2, <3>1, <3>2
  <2>4. b[Manifest] # None
    BY InventoryAssumption
  <2>. QED  BY <1>1, <2>3, <2>4 DEF BuildOf
<1>2. CASE p \notin Verified(up, inc)
  BY <1>2 DEF BuildOf, LedgerEntry
<1>. QED  BY <1>1, <1>2

\* What is durable once keeps its content for ever, and the ledger reports
\* nothing else: every step of the runs is a commit, a report or a stutter.
THEOREM PublicationImplementsDurable ==
  ASSUME ~LateCommit
  PROVE  Spec => DurableOnce
<1>1. Init => DP!Init
  <2>. SUFFICES ASSUME Init PROVE DP!Init
    OBVIOUS
  <2>1. \A p \in Partitions : p \notin Verified(uploaded, incomplete)
    BY FilesType DEF Init, Verified
  <2>2. durableBar = [p \in Partitions |-> None]
    BY <2>1 DEF durableBar, BuildOf, LedgerEntry
  <2>3. reportedBar = [p \in Partitions |-> None]
    BY DEF Init, reportedBar, BuildOf
  <2>. QED  BY <2>2, <2>3 DEF DP!Init
<1>2. ASSUME OneBuildInv, OneBuildInv', SettledInv, SettledInv',
             VerifiedIsOneBuild, VerifiedIsOneBuild', [Next]_vars
      PROVE  [DP!Next]_<<durableBar, reportedBar>>
  <2>. USE <1>2 DEF OneBuildInv
  <2>1. CASE /\ UNCHANGED <<uploaded, incomplete>>
             /\ ledger' = [p \in Partitions |-> LedgerEntry(uploaded, incomplete, p)]
    <3>1. durableBar' = durableBar /\ reportedBar' = durableBar
      BY <2>1 DEF durableBar, reportedBar
    <3>. QED  BY <3>1 DEF DP!Next, DP!Report
  <2>2. CASE UNCHANGED ledger
    <3>1. reportedBar' = reportedBar
      BY <2>2 DEF reportedBar
    <3>2. ASSUME NEW p \in Verified(uploaded, incomplete)
          PROVE  durableBar'[p] = durableBar[p]
      <4>1. LedgerEntry(uploaded', incomplete', p) = LedgerEntry(uploaded, incomplete, p)
        BY KeepsUploaded, VerifiedGrows DEF SettledInv, NoFatalAnomaly
      <4>2. p \in Partitions
        BY DEF Verified
      <4>. QED  BY <4>1, <4>2 DEF durableBar
    <3>3. PICK q \in Partitions \cup {None} : \A a : a.part # q =>
            (a \in uploaded <=> a \in uploaded') /\ (a \in incomplete <=> a \in incomplete')
      BY OnePartition
    <3>4. ASSUME NEW p \in Partitions, p # q
          PROVE  durableBar'[p] = durableBar[p]
      <4>1. LedgerEntry(uploaded', incomplete', p) = LedgerEntry(uploaded, incomplete, p)
        BY <3>3, <3>4, EntryIsLocal
      <4>. QED  BY <4>1 DEF durableBar
    <3>5. CASE q \in Partitions /\ durableBar'[q] # durableBar[q]
      <4>1. q \notin Verified(uploaded, incomplete)
        BY <3>2, <3>5
      <4>2. durableBar[q] = None
        BY <3>5, <4>1 DEF durableBar, BuildOf, LedgerEntry
      <4>3. durableBar'[q] \in Builds
        <5>1. durableBar'[q] \in Builds \/ durableBar'[q] = None
          BY <3>5, EntryIsBuild DEF VerifiedIsOneBuild, durableBar
        <5>. QED  BY <3>5, <4>2, <5>1
      <4>4. durableBar' = [durableBar EXCEPT ![q] = durableBar'[q]]
        BY <3>4 DEF durableBar
      <4>5. DP!Commit(q, durableBar'[q])
        BY <3>1, <4>2, <4>4 DEF DP!Commit
      <4>. QED  BY <3>5, <4>3, <4>5 DEF DP!Next
    <3>6. CASE ~(q \in Partitions /\ durableBar'[q] # durableBar[q])
      <4>1. \A p \in Partitions : durableBar'[p] = durableBar[p]
        BY <3>4, <3>6
      <4>2. durableBar' = durableBar
        BY <4>1 DEF durableBar
      <4>. QED  BY <3>1, <4>2
    <3>. QED  BY <3>5, <3>6
  <2>. QED  BY <2>1, <2>2, LedgerSteps
<1>. QED
  BY <1>1, <1>2, OneBuildAlways, SettledAlways, CompleteIsOneBuild, PTL
     DEF Spec, DurableOnce, DP!Spec

-----------------------------------------------------------------------------
(***************************************************************************)
(* Racing runs.  While nothing but answers gets lost, no run fails before  *)
(* one has used up its POSTs.  The invariant says what the racing runs     *)
(* keep for each other: everything in the release belongs to a durable     *)
(* partition or is the work of the run that is publishing it, and every    *)
(* run's plan covers what is not durable.                                  *)
(***************************************************************************)
Durable == Verified(uploaded, incomplete)

NoneFailed == \A r \in Runs : pc[r] # "failed"

\* No partition is left half published by a run that is gone.
ClaimedInv ==
  \A a \in Held : a.part \in Durable \/ \E r \in Runs : pc[r] \in InFile /\ cur[r] = a.part

\* The partition a run publishes holds that run's files only, up to the file it
\* is at.
Mining(r) ==
  pc[r] \in InFile => \A a \in Held : a.part = cur[r] =>
    /\ a = Name(cur[r], a.file, build[r])
    /\ a.file <= file[r]
    /\ pc[r] = "check" => a.file < file[r]

\* A run goes to verify with its file uploaded.
Uploaded(r) == pc[r] = "verify" => Mine(r) \in uploaded

\* What a run will vouch for is durable or still to be published, and what it
\* still has to publish is not durable.
Planned(r) ==
  /\ kind[r] = "staged" /\ pc[r] \in {"compute", "queued", "inventory"} =>
       day[r] \ Durable \subseteq assets[r] /\ assets[r] \subseteq day[r]
  /\ pc[r] = "building" => assets[r] \cap Durable = {}
  /\ pc[r] = "next" => todo[r] \cap Durable = {}
  /\ pc[r] \in InFile => todo[r] \cap Durable \subseteq {cur[r]}
  /\ pc[r] \in InFile \cup {"next"} => assets[r] \ todo[r] \subseteq Durable
  /\ pc[r] = "refresh" => assets[r] \subseteq Durable

Calm ==
  /\ NoneFailed /\ ClaimedInv
  /\ \A r \in Runs : Mining(r) /\ Uploaded(r) /\ Planned(r)

\* A run that has ended stays as it is.
LEMMA EndedStays ==
  ASSUME TypeOK, SettledInv, [Next]_vars, NEW o \in Runs, pc[o] = "failed"
  PROVE  pc'[o] = "failed" /\ attempts'[o] = attempts[o]
<1>. USE DEF remoteVars, planVars, snapVars, TypeOK
<1>1. CASE UNCHANGED vars \/ Checkpoint
  BY <1>1 DEF vars, Checkpoint
<1>2. ASSUME NEW r \in Runs, Acts(r)
      PROVE  r # o
  <2>1. CASE Dispatch(r) \/ BuildFails(r) \/ Crash(r)
    BY <2>1 DEF Dispatch, DispatchExecute, DispatchStaged, BuildFails, Crash, Ended
  <2>2. CASE Proceed(r)
    BY <2>2 DEF Proceed, Publish, ComputeStaged, BuildExecute, Acquire, InventoryExecute,
         InventoryStaged, FinishPublishing, VerifyRun, BeginPartition, CheckFile, DeleteAsset,
         Post, Reconcile, VerifyFile
  <2>. QED  BY <1>2, <2>1, <2>2 DEF Acts
<1>3. ASSUME NEW r \in Runs, Acts(r)
      PROVE  pc'[o] = "failed" /\ attempts'[o] = attempts[o]
  BY <1>2, <1>3, ActsAlone DEF Same
<1>. QED  BY <1>1, <1>3 DEF Next, Acts, SettledInv

LEMMA ExhaustedStays ==
  ASSUME TypeOK, SettledInv, [Next]_vars, Exhausted
  PROVE  Exhausted'
BY EndedStays DEF Exhausted

\* A step of run r that does not touch the release keeps the other runs calm.
LEMMA CalmElsewhere ==
  ASSUME NEW r \in Runs, UNCHANGED <<uploaded, incomplete, late>>,
         \A o \in Runs \ {r} : Same(o),
         Calm, pc'[r] # "failed", ClaimedInv', Mining(r)', Uploaded(r)', Planned(r)'
  PROVE  Calm'
<1>. SUFFICES ASSUME NEW o \in Runs \ {r}
              PROVE  pc'[o] # "failed" /\ Mining(o)' /\ Uploaded(o)' /\ Planned(o)'
  BY DEF Calm, NoneFailed
<1>1. Held' = Held /\ Durable' = Durable
  BY DEF Held, Durable
<1>2. pc'[o] # "failed"
  BY DEF Same, Calm, NoneFailed
<1>3. Mining(o) /\ Uploaded(o) /\ Planned(o)
  BY DEF Calm
<1>4. Mining(o)'
  BY <1>1, <1>3 DEF Mining, Same
<1>5. Uploaded(o)'
  BY <1>3 DEF Uploaded, Same, Mine, Name
<1>6. Planned(o)'
  BY <1>1, <1>3 DEF Planned, Same
<1>. QED  BY <1>2, <1>4, <1>5, <1>6

\* Outside publish_partition a claim is a matter of durability alone.
LEMMA ClaimsStay ==
  ASSUME NEW r \in Runs, UNCHANGED <<uploaded, incomplete, late>>, ClaimedInv,
         \A o \in Runs \ {r} : Same(o), pc[r] \notin InFile
  PROVE  ClaimedInv'
<1>1. Held' = Held /\ Durable' = Durable
  BY DEF Held, Durable
<1>. QED  BY <1>1 DEF ClaimedInv, Same

\* Dispatch, planning and computing.
LEMMA CalmPlan ==
  ASSUME Faults \subseteq {"lost"}, OneBuildInv, SettledInv, Calm, NEW r \in Runs,
         \/ Dispatch(r)
         \/ \E b \in Builds : ComputeStaged(r, b) \/ BuildExecute(r, b)
         \/ Acquire(r) \/ InventoryExecute(r) \/ InventoryStaged(r)
  PROVE  Calm'
<1>. USE DEF remoteVars, planVars, snapVars
<1>1. \A o \in Runs \ {r} : Same(o)
  BY ActsAlone DEF OneBuildInv, Acts, Proceed
<1>2. /\ UNCHANGED <<uploaded, incomplete, late>>
      /\ pc[r] \notin InFile
      /\ pc'[r] \in {"compute", "queued", "next", "inventory", "failed", "building", "done"}
  <2>1. CASE Dispatch(r)
    BY <2>1 DEF Dispatch, DispatchExecute, DispatchStaged, Step, Goto, OneBuildInv, TypeOK, InFile
  <2>2. CASE \E b \in Builds : ComputeStaged(r, b) \/ BuildExecute(r, b)
    BY <2>2 DEF ComputeStaged, BuildExecute, Step, Goto, OneBuildInv, TypeOK, InFile
  <2>3. CASE Acquire(r) \/ InventoryExecute(r) \/ InventoryStaged(r)
    BY <2>3 DEF Acquire, InventoryExecute, InventoryStaged, Step, End, Goto, OneBuildInv,
         TypeOK, InFile
  <2>. QED  BY <2>1, <2>2, <2>3
<1>3. Durable' = Durable /\ ClaimedInv'
  BY <1>1, <1>2, ClaimsStay DEF Durable, Calm
<1>4. Planned(r)
  BY DEF Calm
<1>5. pc'[r] # "failed" /\ Planned(r)'
  <2>. USE DEF Step, End, Goto, OneBuildInv, TypeOK, InFile, Planned, Durable, Unfinished
  <2>1. CASE Dispatch(r)
    BY <1>2, <1>3, <2>1 DEF Dispatch, DispatchExecute, DispatchStaged
  <2>2. CASE \E b \in Builds : ComputeStaged(r, b)
    BY <1>2, <1>3, <1>4, <2>2 DEF ComputeStaged
  <2>3. CASE \E b \in Builds : BuildExecute(r, b)
    BY <1>2, <1>3, <1>4, <2>3 DEF BuildExecute
  <2>4. CASE Acquire(r)
    BY <1>2, <1>3, <1>4, <2>4 DEF Acquire
  <2>5. CASE InventoryExecute(r)
    BY <1>2, <1>3, <1>4, <2>5 DEF InventoryExecute, SettledInv, NoFatalAnomaly
  <2>6. CASE InventoryStaged(r)
    BY <1>2, <1>3, <1>4, <2>6 DEF InventoryStaged, SettledInv, NoFatalAnomaly
  <2>. QED  BY <2>1, <2>2, <2>3, <2>4, <2>5, <2>6
<1>6. Mining(r)' /\ Uploaded(r)'
  BY <1>2 DEF Mining, Uploaded, InFile
<1>. QED  BY <1>1, <1>2, <1>3, <1>5, <1>6, CalmElsewhere

\* A new partition is untouched: nobody else is publishing, and it is not
\* durable.
LEMMA CalmBegin ==
  ASSUME OneBuildInv, Calm, NEW r \in Runs, NEW p \in Partitions, BeginPartition(r, p)
  PROVE  Calm'
<1>. USE DEF OneBuildInv, remoteVars, planVars
<1>1. \A o \in Runs \ {r} : Same(o)
  BY ActsAlone DEF Acts, Proceed, Publish
<1>2. /\ UNCHANGED <<uploaded, incomplete, late, assets, todo, kind, day>>
      /\ pc[r] = "next" /\ pc'[r] = "check" /\ cur'[r] = p /\ p \in todo[r]
  BY DEF BeginPartition, Step, Goto, TypeOK
<1>3. Held' = Held /\ Durable' = Durable
  BY <1>2 DEF Held, Durable
<1>4. Planned(r)
  BY DEF Calm
<1>5. ASSUME NEW a \in Held
      PROVE  a.part \in Durable
  <2>1. \A o \in Runs : pc[o] \notin InFile
    BY <1>2, OneWriter DEF Locked, InFile
  <2>. QED  BY <2>1 DEF Calm, ClaimedInv
<1>6. ClaimedInv'
  BY <1>3, <1>5 DEF ClaimedInv
<1>7. Mining(r)'
  BY <1>2, <1>3, <1>4, <1>5 DEF Mining, Planned
<1>8. Uploaded(r)' /\ Planned(r)'
  BY <1>2, <1>3, <1>4 DEF Uploaded, Planned, InFile
<1>. QED  BY <1>1, <1>2, <1>6, <1>7, <1>8, CalmElsewhere

\* CheckFile finds nothing of the file in the snapshot.
LEMMA CalmCheck ==
  ASSUME OneBuildInv, SettledInv, Calm, NEW r \in Runs, CheckFile(r)
  PROVE  Calm'
<1>. USE DEF OneBuildInv, remoteVars, planVars, snapVars
<1>1. \A o \in Runs \ {r} : Same(o)
  BY ActsAlone DEF Acts, Proceed, Publish
<1>2. /\ UNCHANGED <<uploaded, incomplete, late, assets, todo, kind, day, build, cur, file>>
      /\ pc[r] = "check"
  BY DEF CheckFile
<1>3. Listed(seenUp[r], seenInc[r], cur[r], file[r]) = {}
  <2>. SUFFICES ASSUME NEW a \in Listed(seenUp[r], seenInc[r], cur[r], file[r])
                PROVE  FALSE
    OBVIOUS
  <2>1. a \in Asset /\ Ahead(r, a)
    BY <1>2 DEF Listed, TypeOK, Ahead
  <2>2. a \in Held /\ a.part = cur[r] /\ a.file = file[r]
    BY <1>2, <2>1 DEF SettledInv, SnapshotInv, Listed, Held, InFile
  <2>3. a.file < file[r]
    BY <1>2, <2>2 DEF Calm, Mining, InFile
  <2>. QED  BY <2>2, <2>3 DEF TypeOK, Files
<1>4. Mine(r) \notin seenUp[r] \cup seenInc[r] /\ ~Conflict(r)
  BY <1>3 DEF Listed, Conflict, Mine, Name
<1>5. pc'[r] = "post"
  BY <1>4 DEF CheckFile, Step, Goto, TypeOK
<1>6. Held' = Held /\ Durable' = Durable
  BY <1>2 DEF Held, Durable
<1>7. Mining(r) /\ Planned(r)
  BY DEF Calm
<1>8. ClaimedInv'
  BY <1>1, <1>2, <1>5, <1>6 DEF Calm, ClaimedInv, Same, InFile
<1>9. Mining(r)' /\ Uploaded(r)' /\ Planned(r)'
  BY <1>2, <1>5, <1>6, <1>7 DEF Mining, Uploaded, Planned, InFile
<1>. QED  BY <1>1, <1>2, <1>5, <1>8, <1>9, CalmElsewhere

\* A request of run r changes assets of its own partition only; the other runs
\* wait for the lock, or have ended.
LEMMA CalmRequest ==
  ASSUME OneBuildInv, SettledInv, SettledInv', Calm, [Next]_vars, NEW r \in Runs, Acts(r),
         pc[r] \in InFile, pc'[r] \in InFile \ {"check"},
         UNCHANGED <<kind, day, assets, build, todo, cur, file>>,
         \A a : a # Mine(r) =>
           (a \in uploaded <=> a \in uploaded') /\ (a \in incomplete <=> a \in incomplete'),
         Uploaded(r)'
  PROVE  Calm'
<1>. USE DEF OneBuildInv
<1>1. \A o \in Runs \ {r} : Same(o) /\ pc[o] \notin Locked
  BY ActsAlone, OneWriter DEF Locked
<1>2. late = {} /\ late' = {} /\ Held' \subseteq Held \cup {Mine(r)}
  BY DEF SettledInv, Held
<1>3. Mine(r).part = cur[r] /\ Mine(r).file = file[r]
  BY DEF Mine, Name
<1>4. Durable \subseteq Durable'
  BY KeepsUploaded, VerifiedGrows DEF Durable, SettledInv, NoFatalAnomaly
<1>5. \A p \in Partitions \ {cur[r]} : p \in Durable <=> p \in Durable'
  BY <1>3, VerifiedIsLocal DEF Durable
<1>6. file[r] \in Files
  BY DEF TypeOK
<1>7. NoneFailed'
  BY <1>1 DEF Calm, NoneFailed, Same, InFile
<1>8. ClaimedInv'
  <2>. SUFFICES ASSUME NEW a \in Held', a.part # cur[r]
                PROVE  a.part \in Durable'
    BY DEF ClaimedInv
  <2>1. a \in Held
    BY <1>2, <1>3
  <2>2. \A o \in Runs : pc[o] \in InFile => o = r
    BY <1>1 DEF Locked
  <2>. QED  BY <1>4, <2>1, <2>2 DEF Calm, ClaimedInv
<1>9. Mining(r)'
  <2>. SUFFICES ASSUME NEW a \in Held', a.part = cur[r]
                PROVE  a = Name(cur[r], a.file, build[r]) /\ a.file <= file[r]
    BY DEF Mining
  <2>1. CASE a \in Held
    BY <2>1 DEF Calm, Mining
  <2>2. CASE a = Mine(r)
    BY <1>3, <1>6, <2>2 DEF Mine, Files
  <2>. QED  BY <1>2, <2>1, <2>2
<1>10. Planned(r)'
  <2>1. Planned(r) /\ todo[r] \subseteq Partitions
    BY DEF Calm, TypeOK
  <2>2. todo[r] \cap Durable' \subseteq {cur[r]}
    BY <1>5, <2>1 DEF Planned
  <2>3. assets[r] \ todo[r] \subseteq Durable'
    BY <1>4, <2>1 DEF Planned
  <2>. QED  BY <2>2, <2>3 DEF Planned, InFile
<1>11. ASSUME NEW o \in Runs \ {r}
       PROVE  Mining(o)' /\ Uploaded(o)' /\ Planned(o)'
  <2>1. pc'[o] \notin Locked /\ Planned(o)
    BY <1>1 DEF Same, Calm
  <2>2. Mining(o)' /\ Uploaded(o)'
    BY <2>1 DEF Mining, Uploaded, Locked, InFile
  <2>3. Planned(o)'
    BY <1>1, <1>4, <2>1 DEF Planned, Locked, InFile, Same
  <2>. QED  BY <2>2, <2>3
<1>. QED  BY <1>7, <1>8, <1>9, <1>10, <1>11 DEF Calm

\* Deleting, posting and reconciling: the run goes on, or has no POST left.
LEMMA CalmUpload ==
  ASSUME Faults \subseteq {"lost"}, OneBuildInv, SettledInv, SettledInv', Calm, [Next]_vars,
         NEW r \in Runs, DeleteAsset(r) \/ Post(r) \/ Reconcile(r)
  PROVE  Calm' \/ Exhausted'
<1>. USE DEF OneBuildInv, remoteVars, planVars, snapVars
<1>1. Acts(r)
  BY DEF Acts, Proceed, Publish
<1>2. /\ UNCHANGED <<kind, day, assets, build, todo, cur, file>>
      /\ pc[r] \in InFile
      /\ \A a : a # Mine(r) =>
           (a \in uploaded <=> a \in uploaded') /\ (a \in incomplete <=> a \in incomplete')
  BY DEF DeleteAsset, Post, Reconcile, InFile
<1>3. \/ pc'[r] \in InFile \ {"check"} /\ (pc'[r] = "verify" => Mine(r) \in uploaded')
      \/ pc'[r] = "failed" /\ attempts'[r] = MaxAttempts
  <2>. USE DEF Step, End, Goto, TypeOK, InFile
  <2>1. CASE DeleteAsset(r)
    BY <2>1 DEF DeleteAsset, Retry
  <2>2. CASE Post(r)
    BY <2>2 DEF Post
  <2>3. CASE Reconcile(r)
    BY <2>3 DEF Reconcile, Retry
  <2>. QED  BY <2>1, <2>2, <2>3
<1>4. CASE pc'[r] = "failed" /\ attempts'[r] = MaxAttempts
  BY <1>4 DEF Exhausted
<1>5. CASE pc'[r] \in InFile \ {"check"} /\ (pc'[r] = "verify" => Mine(r) \in uploaded')
  <2>1. Uploaded(r)'
    BY <1>2, <1>5 DEF Uploaded, Mine, Name
  <2>. QED  BY <1>1, <1>2, <1>5, <2>1, CalmRequest
<1>. QED  BY <1>3, <1>4, <1>5

\* Past its last file a partition is durable.
LEMMA LastFile ==
  ASSUME OneBuildInv, SettledInv, NEW r \in Runs, pc[r] = "verify", file[r] = NumFiles,
         Mine(r) \in uploaded
  PROVE  cur[r] \in Durable
<1>. USE DEF OneBuildInv
<1>1. cur[r] \in Partitions /\ Prefix(cur[r], file[r], build[r], uploaded)
  BY DEF HasBuild, PassedInv, InFile
<1>2. ASSUME NEW f \in Files
      PROVE  \E a \in uploaded : Listed(uploaded, incomplete, cur[r], f) = {a}
  <2>1. Name(cur[r], f, build[r]) \in uploaded
    BY <1>1, FilesType DEF Prefix, Mine, Files
  <2>2. \A a \in uploaded \cup incomplete : a.part = cur[r] /\ a.file = f => a = Name(cur[r], f, build[r])
    BY <2>1 DEF SettledInv, NoFatalAnomaly, FatalAnomaly, Name
  <2>3. Listed(uploaded, incomplete, cur[r], f) = {Name(cur[r], f, build[r])}
    BY <2>1, <2>2 DEF Listed, Name
  <2>. QED  BY <2>1, <2>3
<1>. QED  BY <1>1, <1>2 DEF Durable, Verified

LEMMA CalmVerify ==
  ASSUME Faults \subseteq {"lost"}, OneBuildInv, SettledInv, Calm, NEW r \in Runs, VerifyFile(r)
  PROVE  Calm'
<1>. USE DEF OneBuildInv, remoteVars, planVars, snapVars
<1>1. \A o \in Runs \ {r} : Same(o)
  BY ActsAlone DEF Acts, Proceed, Publish
<1>2. /\ UNCHANGED <<uploaded, incomplete, late, assets, kind, day, build, cur>>
      /\ pc[r] = "verify"
  BY DEF VerifyFile
<1>3. Mining(r) /\ Uploaded(r) /\ Planned(r)
  BY DEF Calm
<1>4. Mine(r) \in uploaded
  BY <1>2, <1>3 DEF Uploaded
<1>5. Held' = Held /\ Durable' = Durable
  BY <1>2 DEF Held, Durable
<1>6. \/ pc'[r] = "check" /\ file'[r] = file[r] + 1 /\ todo'[r] = todo[r]
      \/ pc'[r] = "next" /\ file[r] = NumFiles /\ todo'[r] = todo[r] \ {cur[r]}
  BY <1>4 DEF VerifyFile, Step, Goto, TypeOK
<1>7. CASE pc'[r] = "check" /\ file'[r] = file[r] + 1 /\ todo'[r] = todo[r]
  <2>1. Mining(r)'
    <3>. SUFFICES ASSUME NEW a \in Held, a.part = cur[r]
                  PROVE  /\ a = Name(cur[r], a.file, build[r])
                         /\ a.file <= file'[r] /\ a.file < file'[r]
      BY <1>2, <1>5 DEF Mining
    <3>1. a \in Asset
      BY DEF Held, TypeOK
    <3>2. a = Name(cur[r], a.file, build[r]) /\ a.file <= file[r]
      BY <1>2, <1>3 DEF Mining, InFile
    <3>. QED  BY <1>7, <3>1, <3>2 DEF Asset, Files, TypeOK
  <2>2. Uploaded(r)' /\ Planned(r)'
    BY <1>2, <1>3, <1>5, <1>7 DEF Uploaded, Planned, InFile
  <2>3. ClaimedInv'
    BY <1>1, <1>2, <1>5, <1>7 DEF Calm, ClaimedInv, Same, InFile
  <2>. QED  BY <1>1, <1>2, <1>7, <2>1, <2>2, <2>3, CalmElsewhere
<1>8. CASE pc'[r] = "next" /\ file[r] = NumFiles /\ todo'[r] = todo[r] \ {cur[r]}
  <2>1. cur[r] \in Durable
    BY <1>2, <1>4, <1>8, LastFile
  <2>2. Mining(r)' /\ Uploaded(r)'
    BY <1>8 DEF Mining, Uploaded, InFile
  <2>3. Planned(r)'
    BY <1>2, <1>3, <1>5, <1>8, <2>1 DEF Planned, InFile
  <2>4. ClaimedInv'
    BY <1>1, <1>5, <2>1 DEF Calm, ClaimedInv, Same
  <2>. QED  BY <1>1, <1>2, <1>8, <2>2, <2>3, <2>4, CalmElsewhere
<1>. QED  BY <1>6, <1>7, <1>8

LEMMA CalmFinish ==
  ASSUME Faults \subseteq {"lost"}, OneBuildInv, SettledInv, Calm, NEW r \in Runs,
         FinishPublishing(r) \/ VerifyRun(r) \/ BuildFails(r) \/ Crash(r)
  PROVE  Calm'
<1>. USE DEF OneBuildInv, remoteVars, planVars, snapVars
<1>1. \A o \in Runs \ {r} : Same(o)
  BY ActsAlone DEF Acts, Proceed
<1>2. FinishPublishing(r) \/ VerifyRun(r)
  BY DEF BuildFails, Crash
<1>3. /\ UNCHANGED <<uploaded, incomplete, late, assets, todo, kind, day>>
      /\ pc[r] \in {"next", "refresh"}
  BY <1>2 DEF FinishPublishing, VerifyRun
<1>4. Planned(r)
  BY DEF Calm
<1>5. \/ pc'[r] = "refresh" /\ pc[r] = "next" /\ todo[r] = {}
      \/ pc'[r] = "done"
  <2>1. CASE FinishPublishing(r)
    BY <2>1 DEF FinishPublishing, Step, Goto, TypeOK
  <2>2. CASE VerifyRun(r)
    BY <1>4, <2>2 DEF VerifyRun, End, Goto, TypeOK, Planned, Durable, SettledInv, NoFatalAnomaly
  <2>. QED  BY <1>2, <2>1, <2>2
<1>6. Durable' = Durable /\ ClaimedInv'
  BY <1>1, <1>3, ClaimsStay DEF Durable, Calm, InFile
<1>7. Mining(r)' /\ Uploaded(r)' /\ Planned(r)'
  BY <1>3, <1>4, <1>5, <1>6 DEF Mining, Uploaded, Planned, InFile
<1>. QED  BY <1>1, <1>3, <1>5, <1>6, <1>7, CalmElsewhere

LEMMA CalmQuiet ==
  ASSUME Calm, UNCHANGED vars \/ Checkpoint
  PROVE  Calm'
<1>1. UNCHANGED <<uploaded, incomplete, late, pc, kind, day, assets, build, todo, cur, file>>
  BY DEF vars, Checkpoint, remoteVars, planVars, snapVars
<1>2. Held' = Held /\ Durable' = Durable
  BY <1>1 DEF Held, Durable
<1>3. NoneFailed' /\ ClaimedInv'
  BY <1>1, <1>2 DEF Calm, NoneFailed, ClaimedInv
<1>4. ASSUME NEW r \in Runs
      PROVE  Mining(r)' /\ Uploaded(r)' /\ Planned(r)'
  BY <1>1, <1>2 DEF Calm, Mining, Uploaded, Planned, Mine, Name
<1>. QED  BY <1>3, <1>4 DEF Calm

\* With answers getting lost and nothing else going wrong, racing runs of a day,
\* and an inventory taken long before the lock, make no run fail: the first
\* failure is that of an upload whose every POST was lost.
THEOREM RacesDoNotFail ==
  ASSUME ~LateCommit, Faults \subseteq {"lost"}
  PROVE  Spec => []FailsOnlyWhenExhausted
<1>. DEFINE CalmInv == Calm \/ Exhausted
<1>1. Init => CalmInv
  <2>. SUFFICES ASSUME Init PROVE Calm
    OBVIOUS
  <2>. USE DEF Init
  <2>1. NoneFailed /\ ClaimedInv
    BY DEF NoneFailed, ClaimedInv, Held
  <2>2. ASSUME NEW r \in Runs PROVE Mining(r) /\ Uploaded(r) /\ Planned(r)
    BY DEF Mining, Uploaded, Planned, InFile
  <2>. QED  BY <2>1, <2>2 DEF Calm
<1>2. ASSUME OneBuildInv, SettledInv, SettledInv', CalmInv, [Next]_vars
      PROVE  CalmInv'
  <2>. USE <1>2
  <2>1. CASE Exhausted
    BY <2>1, ExhaustedStays DEF OneBuildInv
  <2>2. CASE Calm
    <3>1. CASE UNCHANGED vars \/ Checkpoint
      BY <2>2, <3>1, CalmQuiet
    <3>2. ASSUME NEW r \in Runs, Publish(r)
          PROVE  Calm' \/ Exhausted'
      BY <2>2, <3>2, CalmBegin, CalmCheck, CalmUpload, CalmVerify DEF Publish
    <3>3. ASSUME NEW r \in Runs, Dispatch(r) \/ (Proceed(r) /\ ~Publish(r)) \/ BuildFails(r) \/ Crash(r)
          PROVE  Calm'
      BY <2>2, <3>3, CalmPlan, CalmFinish DEF Proceed
    <3>. QED
      BY <3>1, <3>2, <3>3 DEF Next, Proceed, SettledInv
  <2>. QED  BY <2>1, <2>2
<1>3. CalmInv => FailsOnlyWhenExhausted
  BY DEF FailsOnlyWhenExhausted, Calm, NoneFailed
<1>. QED  BY <1>1, <1>2, <1>3, OneBuildAlways, SettledAlways, PTL DEF Spec
=============================================================================
