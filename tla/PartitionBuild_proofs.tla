----------------------- MODULE PartitionBuild_proofs -----------------------
(***************************************************************************)
(* Proofs about PartitionBuild: over one work root, whatever interrupts    *)
(* its runs and whether or not its sources change, checkpoints and ledger  *)
(* are never ahead of the directory and the release, and the lifecycle     *)
(* implements DurablePartitions.  The last section is about Acquisition:   *)
(* the objects in the raw directory of that work root.                     *)
(***************************************************************************)
EXTENDS PartitionBuild, Acquisition, TLAPS

-----------------------------------------------------------------------------
(***************************************************************************)
(* Ranks, entries and contents.                                            *)
(***************************************************************************)
LEMMA Ranks ==
  /\ DOMAIN Rank = {"INVENTORIED", "ACQUIRED", "TRANSFORMED", "VERIFIED", "PUBLISHED"}
  /\ Rank["INVENTORIED"] = 1 /\ Rank["ACQUIRED"] = 2 /\ Rank["TRANSFORMED"] = 3
  /\ Rank["VERIFIED"] = 4 /\ Rank["PUBLISHED"] = 5
BY DEF Rank

LEMMA RankOf ==
  ASSUME NEW c \in Checkpoint
  PROVE  /\ Rank[c.phase] \in 1..5
         /\ Rank[c.phase] >= Rank["VERIFIED"] <=> c.phase \in {"VERIFIED", "PUBLISHED"}
         /\ Rank[c.phase] >= Rank["PUBLISHED"] <=> c.phase = "PUBLISHED"
<1>1. c.phase \in {"INVENTORIED", "ACQUIRED", "TRANSFORMED", "VERIFIED", "PUBLISHED"}
  BY Ranks DEF Checkpoint
<1> QED BY <1>1, Ranks

LEMMA Entries ==
  /\ \A f \in Files : Main(f) \in Entry /\ Copy(f) \in Entry
  /\ \A f, g \in Files : Main(f) # Copy(g) /\ (Main(f) = Main(g) => f = g)
  /\ \A e \in Entry : e = Main(e.of) \/ e = Copy(e.of)
  /\ \A e \in Entry : e.of \in Files /\ e.copy \in BOOLEAN /\ (~e.copy => e = Main(e.of))
                      /\ (e.copy => e = Copy(e.of))
  /\ \A t \in Tables : t \in Files /\ Main(t) # Main(Manifest)
  /\ Manifest \in Files
BY BuildAssumption DEF Entry, Main, Copy, Files

LEMMA ContentFacts ==
  /\ None \notin Identities /\ None \notin Manifests /\ None \notin Checkpoint
  /\ Identities \subseteq Contents /\ Manifests \subseteq Contents
  /\ Part \in Contents /\ Whole \in Contents
BY BuildAssumption DEF Contents

-----------------------------------------------------------------------------
(***************************************************************************)
(* The inductive invariant.                                                *)
(***************************************************************************)

\* A table is what the identity of the checkpoint says, and a checkpoint has a
\* manifest from VERIFIED on.
Written ==
  /\ \A t \in Tables : dir[Main(t)] # None =>
                         checkpoint # None /\ dir[Main(t)] = checkpoint.identity
  /\ checkpoint # None => (checkpoint.manifest # None <=> Reached("VERIFIED"))

\* Where the run is.
Stage ==
  /\ pc \in {"build", "acquire", "write", "manifest"} => run > 0
  /\ pc \in {"acquire", "write", "manifest", "verify"} =>
       checkpoint # None /\ checkpoint.identity = identity /\ ~Reached("VERIFIED")
  /\ pc \in {"publish", "check", "record"} =>
       Reached("VERIFIED") /\ checkpoint.identity = identity
  /\ pc = "write" =>
       \A t \in Tables : Main(t) \in todo \/ dir[Main(t)] = identity
  /\ pc = "write" => \A e \in todo : \E t \in Tables : e = Main(t)
  /\ pc \in {"manifest", "verify"} => \A t \in Tables : dir[Main(t)] = identity
  /\ pc = "verify" => Consistent
  /\ pc = "check" => remote[at] = dir[at]
  /\ pc \in {"publish", "check"} =>
       \A f \in Files : Main(f) \in todo \/ remote[Main(f)] = dir[Main(f)]
  /\ pc = "record" => Reached("PUBLISHED")
  /\ pc = "clean" => ledger # None
  /\ ledger # None => pc \in {"clean", "done", "off", "failed"}

\* What is in the release comes from the verified directory.
Uploaded ==
  ledger = None =>
    \A f \in Files : remote[Main(f)] # None =>
                       Reached("VERIFIED") /\ remote[Main(f)] = dir[Main(f)]

BuildInv ==
  /\ TypeOK /\ Written /\ Stage /\ Uploaded
  /\ LedgerIsDurable /\ CheckpointIsBacked /\ NoSelfConflict

-----------------------------------------------------------------------------
LEMMA BuildInit == Init => BuildInv
<1> SUFFICES ASSUME Init PROVE BuildInv
  OBVIOUS
<1> USE DEF Init
<1>1. TypeOK
  <2>1. Main(Manifest) \in Entry
    BY Entries
  <2>2. 0 \in 0..MaxRuns
    BY BuildAssumption
  <2> QED BY <2>1, <2>2 DEF TypeOK
<1>2. ~Reached("VERIFIED") /\ ~Reached("PUBLISHED")
  BY DEF Reached
<1>3. Written /\ Stage /\ Uploaded
  BY <1>2, Entries DEF Written, Stage, Uploaded
<1>4. LedgerIsDurable /\ CheckpointIsBacked /\ NoSelfConflict
  BY <1>2 DEF LedgerIsDurable, CheckpointIsBacked, NoSelfConflict
<1> QED BY <1>1, <1>3, <1>4 DEF BuildInv

\* A step that changes neither the disk nor the release nor the ledger.
LEMMA Quiet ==
  ASSUME BuildInv, TypeOK', Stage', NoSelfConflict',
         UNCHANGED <<checkpoint, dir, remote, ledger>>
  PROVE  BuildInv'
<1>1. Reached("VERIFIED")' = Reached("VERIFIED") /\ Reached("PUBLISHED")' = Reached("PUBLISHED")
      /\ Consistent' = Consistent
  BY DEF Reached, Consistent
<1>2. Written' /\ Uploaded'
  BY <1>1 DEF BuildInv, Written, Uploaded
<1>3. LedgerIsDurable' /\ CheckpointIsBacked'
  BY <1>1 DEF BuildInv, LedgerIsDurable, CheckpointIsBacked, Holds
<1> QED BY <1>2, <1>3 DEF BuildInv

\* A run that fails or is killed, or begins.
LEMMA Halt ==
  ASSUME BuildInv, TypeOK', NoSelfConflict', pc' \in {"off", "failed", "done", "build"},
         UNCHANGED <<checkpoint, dir, remote, ledger>>,
         pc' = "build" => ledger = None /\ run' > 0
  PROVE  BuildInv'
<1>1. Stage'
  BY DEF Stage
<1> QED BY <1>1, Quiet

\* A checkpoint before VERIFIED changes neither the directory nor the release.
LEMMA Phase ==
  ASSUME BuildInv, TypeOK', Stage', NoSelfConflict',
         UNCHANGED <<dir, remote, ledger>>, ~Reached("VERIFIED"),
         NEW ph \in {"INVENTORIED", "ACQUIRED", "TRANSFORMED"},
         ~Conflicting,
         checkpoint' = [phase |-> ph, identity |-> identity, manifest |-> None]
  PROVE  BuildInv'
<1>1. checkpoint' \in Checkpoint /\ checkpoint' # None
  BY Ranks, ContentFacts DEF Checkpoint, BuildInv, TypeOK
<1>2. ~Reached("VERIFIED")' /\ ~Reached("PUBLISHED")'
  BY <1>1, RankOf DEF Reached
<1>3. Written'
  BY <1>1, <1>2 DEF BuildInv, Written, Conflicting
<1>4. Uploaded' /\ LedgerIsDurable' /\ CheckpointIsBacked'
  BY <1>2 DEF BuildInv, Uploaded, LedgerIsDurable, CheckpointIsBacked, Holds
<1> QED BY <1>3, <1>4 DEF BuildInv

\* _advance_if_needed before VERIFIED: the identity conflicts, or the
\* checkpoint is that of the run's identity.
LEMMA Advanced ==
  ASSUME BuildInv, ~Reached("VERIFIED"), NEW l,
         NEW ph \in {"INVENTORIED", "ACQUIRED", "TRANSFORMED"},
         AdvanceIfNeeded(ph, l)
  PROVE  \/ Conflicting /\ pc' = "failed" /\ reason' = "identity" /\ checkpoint' = checkpoint
         \/ /\ ~Conflicting /\ pc' = l /\ reason' = reason
            /\ checkpoint' \in Checkpoint /\ checkpoint'.identity = identity
            /\ ~Reached("VERIFIED")'
            /\ \/ checkpoint' = checkpoint
               \/ checkpoint' = [phase |-> ph, identity |-> identity, manifest |-> None]
<1> DEFINE c == [phase |-> ph, identity |-> identity, manifest |-> None]
<1>1. c \in Checkpoint /\ c # None /\ c.identity = identity /\ c.phase = ph /\ c.manifest = None
  BY Ranks, ContentFacts DEF Checkpoint, BuildInv, TypeOK
<1>2. checkpoint \in Checkpoint \cup {None}
  BY DEF BuildInv, TypeOK
<1>3. ~(Rank[c.phase] >= Rank["VERIFIED"])
  BY <1>1, RankOf
<1>4. ASSUME ~Conflicting, ~Reached(ph) PROVE ~Refuses(c)
  <2> SUFFICES ASSUME checkpoint # None PROVE ~Refuses(c)
    BY DEF Refuses
  <2>1. checkpoint \in Checkpoint /\ checkpoint.identity = identity
    BY <1>2, <1>4 DEF Conflicting
  <2>2. ~(Rank[checkpoint.phase] >= Rank[ph])
    BY <1>4 DEF Reached
  <2>3. ~(Rank[ph] < Rank[checkpoint.phase])
    BY <1>1, <2>1, <2>2, RankOf
  <2> QED BY <1>1, <2>1, <2>3 DEF Refuses
<1>5. CASE Conflicting
  BY <1>5 DEF AdvanceIfNeeded, Fail
<1>6. CASE ~Conflicting /\ Reached(ph)
  <2>1. pc' = l /\ reason' = reason /\ checkpoint' = checkpoint
    BY <1>6 DEF AdvanceIfNeeded, Goto
  <2>2. checkpoint \in Checkpoint /\ checkpoint.identity = identity
    BY <1>2, <1>6 DEF Reached, Conflicting
  <2> QED BY <1>6, <2>1, <2>2 DEF Reached
<1>7. CASE ~Conflicting /\ ~Reached(ph)
  <2>1. pc' = l /\ reason' = reason /\ checkpoint' = c
    BY <1>4, <1>7 DEF AdvanceIfNeeded, Advance, Goto
  <2>2. ~Reached("VERIFIED")'
    BY <1>3, <2>1 DEF Reached
  <2> QED BY <1>1, <1>7, <2>1, <2>2
<1> QED BY <1>5, <1>6, <1>7

\* The three early checkpoints, given what the run does next.
LEMMA Early ==
  ASSUME BuildInv, ~Reached("VERIFIED"), ledger = None,
         NEW l \in {"acquire", "write", "manifest"},
         NEW ph \in {"INVENTORIED", "ACQUIRED", "TRANSFORMED"},
         AdvanceIfNeeded(ph, l),
         UNCHANGED <<dir, ledger, remote, run, identity, at>>,
         todo' \subseteq Entry,
         run > 0, l = "write" => todo' = {Main(t) : t \in Tables},
         l = "manifest" => \A t \in Tables : dir[Main(t)] = identity
  PROVE  BuildInv'
<1>1. CASE Conflicting /\ pc' = "failed" /\ reason' = "identity" /\ checkpoint' = checkpoint
  <2>1. TypeOK'
    BY <1>1 DEF BuildInv, TypeOK
  <2>2. NoSelfConflict'
    BY <1>1 DEF NoSelfConflict
  <2> QED BY <1>1, <2>1, <2>2, Halt
<1>2. CASE /\ ~Conflicting /\ pc' = l /\ reason' = reason
           /\ checkpoint' \in Checkpoint /\ checkpoint'.identity = identity
           /\ ~Reached("VERIFIED")'
           /\ \/ checkpoint' = checkpoint
              \/ checkpoint' = [phase |-> ph, identity |-> identity, manifest |-> None]
  <2>1. TypeOK'
    BY <1>2 DEF BuildInv, TypeOK, Working
  <2>2. NoSelfConflict'
    BY <1>2 DEF BuildInv, NoSelfConflict
  <2>3. checkpoint' # None
    BY <1>2, ContentFacts
  <2>4. Stage'
    BY <1>2, <2>3 DEF Stage, BuildInv
  <2> QED BY <1>2, <2>1, <2>2, <2>4, Phase, Quiet
<1> QED BY <1>1, <1>2, Advanced

LEMMA DoStart == BuildInv /\ Start => BuildInv'
<1> SUFFICES ASSUME BuildInv, Start PROVE BuildInv'
  OBVIOUS
<1>1. TypeOK'
  BY BuildAssumption DEF BuildInv, TypeOK, Start, Working, work
<1>2. NoSelfConflict'
  BY DEF Start, NoSelfConflict
<1>3. run' > 0
  BY DEF Start, BuildInv, TypeOK
<1> QED BY <1>1, <1>2, <1>3, Halt DEF Start, work

LEMMA DoReuse == BuildInv /\ Reuse => BuildInv'
<1> SUFFICES ASSUME BuildInv, Reuse PROVE BuildInv'
  OBVIOUS
<1>0. /\ pc = "build" /\ Reached("VERIFIED")
      /\ UNCHANGED <<checkpoint, dir, ledger, remote, run, identity, at>>
      /\ Consistent /\ dir[Main(Manifest)] = checkpoint.manifest
  BY DEF Reuse, work, BuildInv, CheckpointIsBacked
<1>1. CASE Conflicting /\ Fail("identity") /\ UNCHANGED todo
  <2>1. TypeOK'
    BY <1>0, <1>1 DEF BuildInv, TypeOK, Fail
  <2>2. NoSelfConflict'
    BY <1>1 DEF NoSelfConflict, Fail
  <2> QED BY <1>0, <1>1, <2>1, <2>2, Halt DEF Fail
<1>2. CASE ~Conflicting /\ todo' = Present /\ Goto("publish")
  <2>1. TypeOK'
    BY <1>0, <1>2 DEF BuildInv, TypeOK, Goto, Present, Working
  <2>2. NoSelfConflict'
    BY <1>2 DEF BuildInv, NoSelfConflict, Goto
  <2>3. \A f \in Files : dir[Main(f)] # None
    BY <1>0, ContentFacts DEF Consistent, Manifests, Files
  <2>4. \A f \in Files : Main(f) \in todo'
    BY <1>2, <2>3, Entries DEF Present
  <2>5. Reached("VERIFIED")' /\ checkpoint'.identity = identity'
    BY <1>0, <1>2 DEF Reached, Conflicting
  <2>6. Stage'
    BY <1>0, <1>2, <2>4, <2>5 DEF Stage, Goto, BuildInv
  <2> QED BY <1>0, <2>1, <2>2, <2>6, Quiet
<1> QED BY <1>0, <1>1, <1>2 DEF Reuse

LEMMA DoEarly ==
  ASSUME BuildInv, Inventory \/ Acquire \/ Transform
  PROVE  BuildInv'
<1>0. ledger = None /\ run > 0
  BY DEF BuildInv, Stage, Inventory, Acquire, Transform
<1>1. CASE Inventory
  BY <1>0, <1>1, Early DEF Inventory, BuildInv, TypeOK
<1>2. CASE Acquire
  <2>1. {Main(t) : t \in Tables} \subseteq Entry
    BY Entries
  <2>2. ~Reached("VERIFIED")
    BY <1>2 DEF BuildInv, Stage, Acquire
  <2> QED BY <1>0, <1>2, <2>1, <2>2, Early DEF Acquire
<1>3. CASE Transform
  <2>1. ~Reached("VERIFIED") /\ \A t \in Tables : dir[Main(t)] = identity
    BY <1>3 DEF BuildInv, Stage, Transform
  <2>2. todo' \subseteq Entry
    BY <1>3 DEF Transform
  <2> QED BY <1>0, <1>3, <2>1, <2>2, Early DEF Transform
<1> QED BY <1>1, <1>2, <1>3

LEMMA DoWriteTable == ASSUME NEW e \in Entry PROVE BuildInv /\ WriteTable(e) => BuildInv'
<1> SUFFICES ASSUME BuildInv, WriteTable(e) PROVE BuildInv'
  OBVIOUS
<1>0. /\ pc = "write" /\ e \in todo /\ ~Reached("VERIFIED") /\ ledger = None
      /\ checkpoint # None /\ checkpoint.identity = identity
      /\ UNCHANGED <<checkpoint, ledger, remote, run, identity, at>>
  BY DEF WriteTable, BuildInv, Stage
<1>1. PICK t \in Tables : e = Main(t)
  BY <1>0 DEF BuildInv, Stage
<1>2. dir[e] \in {None, identity}
  BY <1>0, <1>1 DEF BuildInv, Written
<1>3. /\ dir' = [dir EXCEPT ![e] = identity] /\ todo' = todo \ {e}
      /\ pc' = pc /\ reason' = reason
  BY <1>2 DEF WriteTable, Replaceable
<1>4. TypeOK'
  BY <1>0, <1>3, ContentFacts DEF BuildInv, TypeOK
<1>5. /\ \A u \in Tables : dir'[Main(u)] = IF u = t THEN identity ELSE dir[Main(u)]
      /\ ~Reached("VERIFIED")' /\ ~Reached("PUBLISHED")'
  <2>1. ~Reached("PUBLISHED")
    BY <1>0, RankOf DEF Reached, BuildInv, TypeOK
  <2>2. \A u \in Tables : Main(u) \in Entry /\ (Main(u) = e => u = t)
    BY <1>1, Entries
  <2> QED BY <1>0, <1>1, <1>3, <2>1, <2>2 DEF Reached, BuildInv, TypeOK
<1>6. Written'
  BY <1>0, <1>3, <1>5 DEF BuildInv, Written
<1>7. Stage'
  BY <1>0, <1>1, <1>3, <1>5 DEF BuildInv, Stage
<1>8. Uploaded' /\ LedgerIsDurable' /\ CheckpointIsBacked' /\ NoSelfConflict'
  BY <1>0, <1>3, <1>5
     DEF BuildInv, Uploaded, LedgerIsDurable, CheckpointIsBacked, NoSelfConflict
<1> QED BY <1>4, <1>6, <1>7, <1>8 DEF BuildInv

LEMMA DoWriteManifest == BuildInv /\ WriteManifest => BuildInv'
<1> SUFFICES ASSUME BuildInv, WriteManifest PROVE BuildInv'
  OBVIOUS
<1> DEFINE new == [tables |-> [t \in Tables |-> dir[Main(t)]], stamp |-> run]
<1>0. /\ pc = "manifest" /\ ~Reached("VERIFIED") /\ ledger = None
      /\ checkpoint # None /\ checkpoint.identity = identity
      /\ \A t \in Tables : dir[Main(t)] = identity
      /\ UNCHANGED <<checkpoint, ledger, remote, run, identity, todo, at>>
  BY DEF WriteManifest, BuildInv, Stage
<1>1. CASE pc' = "failed" /\ reason' = "manifest" /\ dir' = dir
  <2>1. TypeOK'
    BY <1>0, <1>1 DEF BuildInv, TypeOK
  <2>2. NoSelfConflict'
    BY <1>1 DEF NoSelfConflict
  <2> QED BY <1>0, <1>1, <2>1, <2>2, Halt
<1>2. CASE /\ dir' = [dir EXCEPT ![Main(Manifest)] = new]
           /\ pc' = "verify" /\ reason' = reason
  <2>1. run \in 1..MaxRuns
    <3>1. run \in 0..MaxRuns
      BY DEF BuildInv, TypeOK
    <3> QED BY <1>0, <3>1 DEF BuildInv, Stage
  <2>2. new \in Manifests
    BY <1>0, <2>1 DEF Manifests, BuildInv, TypeOK
  <2>3. /\ dir'[Main(Manifest)] = new
        /\ \A t \in Tables : dir'[Main(t)] = dir[Main(t)]
        /\ ~Reached("VERIFIED")' /\ ~Reached("PUBLISHED")'
    <3>1. ~Reached("PUBLISHED")
      BY <1>0, RankOf DEF Reached, BuildInv, TypeOK
    <3> QED BY <1>0, <1>2, <3>1, Entries DEF Reached, BuildInv, TypeOK
  <2>4. TypeOK'
    BY <1>0, <1>2, <2>2, ContentFacts DEF BuildInv, TypeOK, Working
  <2>5. Written'
    BY <1>0, <2>3 DEF BuildInv, Written
  <2>6. Consistent'
    BY <2>2, <2>3 DEF Consistent
  <2>7. Stage'
    BY <1>0, <1>2, <2>3, <2>6 DEF Stage
  <2>8. Uploaded' /\ LedgerIsDurable' /\ CheckpointIsBacked' /\ NoSelfConflict'
    BY <1>0, <1>2, <2>3
       DEF BuildInv, Uploaded, LedgerIsDurable, CheckpointIsBacked, NoSelfConflict
  <2> QED BY <2>4, <2>5, <2>7, <2>8 DEF BuildInv
<1> QED BY <1>1, <1>2 DEF WriteManifest, Fail, Goto

LEMMA DoVerify == BuildInv /\ Verify => BuildInv'
<1> SUFFICES ASSUME BuildInv, Verify PROVE BuildInv'
  OBVIOUS
<1> DEFINE c == [phase |-> "VERIFIED", identity |-> identity, manifest |-> dir[Main(Manifest)]]
<1>0. /\ pc = "verify" /\ ~Reached("VERIFIED") /\ ledger = None /\ Consistent
      /\ checkpoint # None /\ checkpoint.identity = identity
      /\ UNCHANGED <<dir, ledger, remote, run, identity, at>> /\ todo' = Present
  BY DEF Verify, BuildInv, Stage
<1>1. dir[Main(Manifest)] \in Manifests /\ c \in Checkpoint /\ c # None
  BY <1>0, Ranks, ContentFacts DEF Consistent, Checkpoint, BuildInv, TypeOK
<1>2. ~Refuses(c)
  <2>1. checkpoint \in Checkpoint /\ checkpoint.manifest = None
    BY <1>0 DEF BuildInv, TypeOK, Written
  <2>2. ~(Rank["VERIFIED"] < Rank[checkpoint.phase])
    BY <1>0, <2>1, RankOf, Ranks DEF Reached
  <2> QED BY <1>0, <2>1, <2>2 DEF Refuses
<1>3. checkpoint' = c /\ pc' = "publish" /\ reason' = reason
  BY <1>0, <1>2 DEF Verify, Advance, Goto
<1>4. Reached("VERIFIED")' /\ ~Reached("PUBLISHED")'
  <2>1. c.phase = "VERIFIED"
    OBVIOUS
  <2> QED BY <1>1, <1>3, <2>1, RankOf DEF Reached
<1>5. TypeOK'
  BY <1>0, <1>1, <1>3 DEF BuildInv, TypeOK, Working, Present
<1>6. Written'
  BY <1>0, <1>1, <1>3, <1>4, ContentFacts DEF BuildInv, Written
<1>7. \A f \in Files : Main(f) \in todo'
  <2>1. \A f \in Files : dir[Main(f)] # None
    BY <1>0, ContentFacts DEF Consistent, Manifests, Files
  <2> QED BY <1>0, <2>1, Entries DEF Present
<1>8. Stage'
  BY <1>0, <1>3, <1>4, <1>7 DEF Stage
<1>9. Consistent' /\ dir'[Main(Manifest)] = checkpoint'.manifest
  BY <1>0, <1>3 DEF Consistent
<1>10. Uploaded' /\ LedgerIsDurable' /\ CheckpointIsBacked' /\ NoSelfConflict'
  BY <1>0, <1>3, <1>4, <1>9
     DEF BuildInv, Uploaded, LedgerIsDurable, CheckpointIsBacked, NoSelfConflict
<1> QED BY <1>5, <1>6, <1>8, <1>10 DEF BuildInv

\* A canonical file meets nothing but itself in the release.
LEMMA DoPublishEntry ==
  ASSUME NEW e \in Entry PROVE BuildInv /\ PublishEntry(e) => BuildInv'
<1> SUFFICES ASSUME BuildInv, PublishEntry(e) PROVE BuildInv'
  OBVIOUS
<1>0. /\ pc = "publish" /\ e \in todo /\ Reached("VERIFIED") /\ ledger = None
      /\ checkpoint.identity = identity
      /\ UNCHANGED <<checkpoint, dir, ledger, run, identity, todo>>
  BY DEF PublishEntry, BuildInv, Stage, work
<1>1. ~e.copy => remote[e] \in {None, dir[e]}
  BY <1>0, Entries DEF BuildInv, Uploaded
<1>2. CASE e.copy /\ Fail("copy") /\ UNCHANGED <<remote, at>>
  <2>1. TypeOK' /\ NoSelfConflict'
    BY <1>0, <1>2 DEF BuildInv, TypeOK, NoSelfConflict, Fail
  <2> QED BY <1>0, <1>2, <2>1, Halt DEF Fail
<1>3. CASE /\ remote[e] \in {None, dir[e]}
           /\ remote' = [remote EXCEPT ![e] = dir[e]] /\ at' = e /\ Goto("check")
  <2>1. TypeOK' /\ NoSelfConflict'
    BY <1>0, <1>3 DEF BuildInv, TypeOK, NoSelfConflict, Goto, Working
  <2>2. /\ Reached("VERIFIED")' = Reached("VERIFIED")
        /\ Reached("PUBLISHED")' = Reached("PUBLISHED") /\ Consistent' = Consistent
    BY <1>0 DEF Reached, Consistent
  <2>3. \A d \in Entry : remote'[d] = IF d = e THEN dir[e] ELSE remote[d]
    BY <1>3 DEF BuildInv, TypeOK
  <2>4. Written'
    BY <1>0, <2>2 DEF BuildInv, Written
  <2>5. Stage'
    BY <1>0, <1>3, <2>2, <2>3, Entries DEF BuildInv, Stage, Goto
  <2>6. Uploaded'
    BY <1>0, <2>2, <2>3, Entries DEF BuildInv, Uploaded
  <2>7. ASSUME Reached("PUBLISHED") PROVE Holds(checkpoint.manifest)'
    <3>1. Holds(checkpoint.manifest) /\ Consistent /\ dir[Main(Manifest)] = checkpoint.manifest
      BY <1>0, <2>7 DEF BuildInv, CheckpointIsBacked
    <3>2. \A f \in Files : remote[Main(f)] = dir[Main(f)]
      BY <3>1 DEF Holds, Consistent, Files
    <3>3. \A f \in Files : remote'[Main(f)] = remote[Main(f)]
      BY <2>3, <3>2, Entries
    <3> QED BY <1>0, <3>1, <3>3, Entries DEF Holds
  <2>8. LedgerIsDurable' /\ CheckpointIsBacked'
    BY <1>0, <2>2, <2>7 DEF BuildInv, LedgerIsDurable, CheckpointIsBacked
  <2> QED BY <2>1, <2>4, <2>5, <2>6, <2>8 DEF BuildInv
<1> QED BY <1>1, <1>2, <1>3, Entries DEF PublishEntry

\* A step that changes nothing but left-over copies.
LEMMA CopyOnly ==
  ASSUME BuildInv, TypeOK', Stage', NoSelfConflict', UNCHANGED <<checkpoint, remote, ledger>>,
         \A f \in Files : dir'[Main(f)] = dir[Main(f)]
  PROVE  BuildInv'
<1>1. Reached("VERIFIED")' = Reached("VERIFIED") /\ Reached("PUBLISHED")' = Reached("PUBLISHED")
      /\ Consistent' = Consistent
  BY Entries DEF Reached, Consistent
<1>2. Written' /\ Uploaded'
  BY <1>1, Entries DEF BuildInv, Written, Uploaded
<1>3. LedgerIsDurable' /\ CheckpointIsBacked'
  BY <1>1, Entries DEF BuildInv, LedgerIsDurable, CheckpointIsBacked, Holds
<1> QED BY <1>2, <1>3 DEF BuildInv

LEMMA DoCheck == BuildInv /\ Check => BuildInv'
<1> SUFFICES ASSUME BuildInv, Check PROVE BuildInv'
  OBVIOUS
<1>0. /\ pc = "check" /\ todo' = todo \ {at} /\ pc' = "publish" /\ reason' = reason
      /\ UNCHANGED <<checkpoint, ledger, remote, run, identity, at>>
      /\ at \in Entry /\ dir \in [Entry -> Contents \cup {None}]
  BY DEF Check, Goto, BuildInv, TypeOK
<1>1. dir' \in [Entry -> Contents \cup {None}] /\ \A f \in Files : dir'[Main(f)] = dir[Main(f)]
  BY <1>0, Entries DEF Check
<1>2. TypeOK' /\ NoSelfConflict'
  BY <1>0, <1>1 DEF BuildInv, TypeOK, NoSelfConflict, Working
<1>3. Reached("VERIFIED")' = Reached("VERIFIED")
  BY <1>0 DEF Reached
<1>4. \A f \in Files : Main(f) \in todo' \/ remote'[Main(f)] = dir'[Main(f)]
  BY <1>0, <1>1, Entries DEF BuildInv, Stage
<1>5. Stage'
  BY <1>0, <1>3, <1>4 DEF BuildInv, Stage
<1> QED BY <1>0, <1>1, <1>2, <1>5, CopyOnly

LEMMA DoPublished == BuildInv /\ Published => BuildInv'
<1> SUFFICES ASSUME BuildInv, Published PROVE BuildInv'
  OBVIOUS
<1> DEFINE c == [checkpoint EXCEPT !.phase = "PUBLISHED"]
<1>0. /\ pc = "publish" /\ todo = {} /\ Reached("VERIFIED") /\ ledger = None
      /\ checkpoint \in Checkpoint /\ checkpoint.identity = identity
      /\ UNCHANGED <<dir, ledger, remote, run, identity, todo, at>>
  BY DEF Published, BuildInv, Stage, TypeOK, Reached
<1>1. c \in Checkpoint /\ c.identity = checkpoint.identity
      /\ c.manifest = checkpoint.manifest /\ c.phase = "PUBLISHED" /\ c # None
  BY <1>0, Ranks, ContentFacts DEF Checkpoint
<1>2. ~Refuses(c)
  <2>1. ~(Rank["PUBLISHED"] < Rank[checkpoint.phase])
    BY <1>0, RankOf, Ranks
  <2> QED BY <1>1, <2>1 DEF Refuses
<1>3. checkpoint' = c /\ pc' = "record" /\ reason' = reason
  BY <1>0, <1>2 DEF Published, Advance, Goto
<1>4. Reached("VERIFIED")' /\ Reached("PUBLISHED")'
  BY <1>1, <1>3, RankOf DEF Reached
<1>5. Consistent /\ dir[Main(Manifest)] = checkpoint.manifest
  BY <1>0 DEF BuildInv, CheckpointIsBacked
<1>6. Holds(checkpoint.manifest)
  BY <1>0, <1>5, Entries DEF BuildInv, Stage, Holds, Consistent
<1>7. TypeOK' /\ NoSelfConflict'
  BY <1>0, <1>1, <1>3 DEF BuildInv, TypeOK, NoSelfConflict, Working
<1>8. Written'
  <2>1. checkpoint # None
    BY <1>0 DEF Reached
  <2>2. checkpoint.manifest # None
    BY <1>0, <2>1 DEF BuildInv, Written
  <2>3. checkpoint' # None /\ checkpoint'.manifest = checkpoint.manifest
        /\ checkpoint'.identity = checkpoint.identity
    BY <1>1, <1>3
  <2> HIDE DEF c
  <2> QED BY <1>0, <1>4, <2>1, <2>2, <2>3 DEF BuildInv, Written
<1>9. Stage'
  BY <1>0, <1>1, <1>3, <1>4 DEF Stage
<1>10. Uploaded' /\ LedgerIsDurable' /\ CheckpointIsBacked'
  BY <1>0, <1>1, <1>3, <1>4, <1>5, <1>6
     DEF BuildInv, Uploaded, LedgerIsDurable, CheckpointIsBacked, Consistent, Holds
<1> QED BY <1>7, <1>8, <1>9, <1>10 DEF BuildInv

LEMMA DoRecord == BuildInv /\ Record => BuildInv'
<1> SUFFICES ASSUME BuildInv, Record PROVE BuildInv'
  OBVIOUS
<1>0. /\ pc = "record" /\ Reached("VERIFIED") /\ Reached("PUBLISHED")
      /\ ledger' = dir[Main(Manifest)] /\ pc' = "clean" /\ reason' = reason
      /\ UNCHANGED <<checkpoint, dir, remote, run, identity, todo, at>>
  BY DEF Record, Goto, work, BuildInv, Stage
<1>1. Consistent /\ ledger' = checkpoint.manifest /\ Holds(checkpoint.manifest)
      /\ ledger' \in Manifests /\ ledger' # None
  BY <1>0, ContentFacts DEF BuildInv, CheckpointIsBacked, Consistent
<1>2. TypeOK' /\ NoSelfConflict'
  BY <1>0, <1>1 DEF BuildInv, TypeOK, NoSelfConflict, Working
<1>3. Reached("VERIFIED")' = Reached("VERIFIED") /\ Reached("PUBLISHED")' = Reached("PUBLISHED")
      /\ Consistent' = Consistent
  BY <1>0 DEF Reached, Consistent
<1>4. Written' /\ Uploaded' /\ Stage'
  BY <1>0, <1>1, <1>3 DEF BuildInv, Written, Uploaded, Stage
<1>5. LedgerIsDurable' /\ CheckpointIsBacked'
  BY <1>0, <1>1, <1>3 DEF BuildInv, LedgerIsDurable, CheckpointIsBacked, Holds
<1> QED BY <1>2, <1>4, <1>5 DEF BuildInv

LEMMA DoClean == BuildInv /\ Clean => BuildInv'
<1> SUFFICES ASSUME BuildInv, Clean PROVE BuildInv'
  OBVIOUS
<1>0. /\ pc = "clean" /\ ledger # None /\ pc' = "done" /\ reason' = reason
      /\ checkpoint' = None /\ dir' = [e \in Entry |-> None]
      /\ UNCHANGED <<ledger, remote, run, identity, todo, at>>
  BY DEF Clean, Goto, BuildInv, Stage
<1>1. ~Reached("VERIFIED")' /\ ~Reached("PUBLISHED")'
  BY <1>0 DEF Reached
<1>2. TypeOK' /\ NoSelfConflict'
  BY <1>0 DEF BuildInv, TypeOK, NoSelfConflict
<1>3. Written' /\ Uploaded' /\ Stage'
  BY <1>0, <1>1, Entries DEF BuildInv, Written, Uploaded, Stage
<1>4. LedgerIsDurable' /\ CheckpointIsBacked'
  BY <1>0, <1>1 DEF BuildInv, LedgerIsDurable, CheckpointIsBacked, Holds
<1> QED BY <1>2, <1>3, <1>4 DEF BuildInv

LEMMA DoCrash == BuildInv /\ Crash => BuildInv'
<1> SUFFICES ASSUME BuildInv, Crash PROVE BuildInv'
  OBVIOUS
<1>0. /\ pc' = "off" /\ reason' = reason
      /\ UNCHANGED <<checkpoint, ledger, remote, run, identity, todo, at>>
      /\ at \in Entry /\ dir \in [Entry -> Contents \cup {None}]
  BY DEF Crash, Goto, BuildInv, TypeOK
<1>1. dir' \in [Entry -> Contents \cup {None}] /\ \A f \in Files : dir'[Main(f)] = dir[Main(f)]
  BY <1>0, Entries, ContentFacts DEF Crash
<1>2. TypeOK' /\ NoSelfConflict'
  BY <1>0, <1>1 DEF BuildInv, TypeOK, NoSelfConflict
<1>3. Stage'
  BY <1>0 DEF Stage
<1> QED BY <1>0, <1>1, <1>2, <1>3, CopyOnly

LEMMA BuildNext == BuildInv /\ [Next]_vars => BuildInv'
<1> SUFFICES ASSUME BuildInv, [Next]_vars PROVE BuildInv'
  OBVIOUS
<1>1. CASE Start
  BY <1>1, DoStart
<1>2. CASE Reuse
  BY <1>2, DoReuse
<1>3. CASE Inventory \/ Acquire \/ Transform
  BY <1>3, DoEarly
<1>4. CASE WriteManifest
  BY <1>4, DoWriteManifest
<1>5. CASE Verify
  BY <1>5, DoVerify
<1>6. CASE Check
  BY <1>6, DoCheck
<1>7. CASE Published
  BY <1>7, DoPublished
<1>8. CASE Record
  BY <1>8, DoRecord
<1>9. CASE Clean
  BY <1>9, DoClean
<1>10. CASE Crash
  BY <1>10, DoCrash
<1>11. ASSUME NEW e \in Entry, WriteTable(e) \/ PublishEntry(e)
       PROVE  BuildInv'
  BY <1>11, DoWriteTable, DoPublishEntry
<1>12. CASE UNCHANGED vars
  <2>1. UNCHANGED <<checkpoint, dir, ledger, remote, pc, reason, run, identity, todo, at>>
    BY <1>12 DEF vars, work
  <2>2. TypeOK' /\ NoSelfConflict'
    BY <2>1 DEF BuildInv, TypeOK, NoSelfConflict
  <2>3. Stage'
    BY <2>1 DEF BuildInv, Stage, Reached, Consistent
  <2> QED BY <2>1, <2>2, <2>3, Quiet
<1> QED BY <1>1, <1>2, <1>3, <1>4, <1>5, <1>6, <1>7, <1>8, <1>9, <1>10, <1>11, <1>12
        DEF Next, Work

THEOREM PartitionInvariant == Spec => []BuildInv
BY BuildInit, BuildNext, PTL DEF Spec

\* The variables of PartitionBuild keep their types.
THEOREM BuildTypes == Spec => []TypeOK
<1>1. BuildInv => TypeOK
  BY DEF BuildInv
<1> QED BY <1>1, PartitionInvariant, PTL

\* run_staged_partition: the ledger never names a partition that the release
\* does not hold with the manifest it names.
THEOREM LedgerTellsTheTruth == Spec => []LedgerIsDurable
<1>1. BuildInv => LedgerIsDurable
  BY DEF BuildInv
<1> QED BY <1>1, PartitionInvariant, PTL

\* StateStore: VERIFIED and PUBLISHED are only recorded of a directory and of a
\* release that are so, and stay so until the work directory is removed.
THEOREM CheckpointsAreBacked == Spec => []CheckpointIsBacked
<1>1. BuildInv => CheckpointIsBacked
  BY DEF BuildInv
<1> QED BY <1>1, PartitionInvariant, PTL

\* Pipeline.build and publish_partition: a run never takes what an interrupted
\* run left of the same identity for a conflict, the manifest and left-over
\* copies excepted.
THEOREM RunsAreCompatible == Spec => []NoSelfConflict
<1>1. BuildInv => NoSelfConflict
  BY DEF BuildInv
<1> QED BY <1>1, PartitionInvariant, PTL

-----------------------------------------------------------------------------
(***************************************************************************)
(* PartitionBuild implements DurablePartitions.                            *)
(***************************************************************************)

\* A release that holds a partition has every one of its files.
LEMMA DurableFacts ==
  /\ Durable \in Manifests \cup {None}
  /\ Durable # None => \A f \in Files : remote[Main(f)] # None
<1>1. Durable # None => Durable \in Manifests /\ Holds(Durable)
  BY DEF Durable
<1>2. \A b \in Manifests : Holds(b) => \A f \in Files : remote[Main(f)] # None
  BY ContentFacts DEF Holds, Manifests, Files
<1> QED BY <1>1, <1>2

LEMMA DurableStep ==
  ASSUME BuildInv, [Next]_vars
  PROVE  \/ Durable' = Durable /\ ledger' = ledger
         \/ Durable = None /\ Durable' \in Manifests /\ ledger' = ledger
         \/ Durable' = Durable /\ ledger' = Durable
<1>1. CASE UNCHANGED <<remote, ledger>>
  BY <1>1 DEF Durable, Holds
<1>2. CASE Record
  <2>1. /\ Reached("VERIFIED") /\ Reached("PUBLISHED")
        /\ ledger' = dir[Main(Manifest)] /\ remote' = remote
    BY <1>2 DEF Record, BuildInv, Stage
  <2>2. Consistent /\ ledger' = checkpoint.manifest /\ Holds(checkpoint.manifest)
    BY <2>1 DEF BuildInv, CheckpointIsBacked
  <2>3. ledger' \in Manifests /\ remote[Main(Manifest)] = ledger'
    BY <2>1, <2>2 DEF Consistent, Holds
  <2>4. Durable = ledger'
    BY <2>2, <2>3 DEF Durable
  <2>5. Durable' = Durable
    BY <2>1 DEF Durable, Holds
  <2> QED BY <2>4, <2>5
<1>3. ASSUME NEW e \in Entry, PublishEntry(e), ~UNCHANGED <<remote, ledger>>
      PROVE  \/ Durable' = Durable /\ ledger' = ledger
             \/ Durable = None /\ Durable' \in Manifests /\ ledger' = ledger
  <2>1. /\ remote[e] \in {None, dir[e]} /\ remote' = [remote EXCEPT ![e] = dir[e]]
        /\ ledger' = ledger
    BY <1>3 DEF PublishEntry
  <2>2. remote[e] = None
    BY <1>3, <2>1 DEF BuildInv, TypeOK
  <2>3. CASE e.copy
    <3>1. \A f \in Files : remote'[Main(f)] = remote[Main(f)]
      BY <2>1, <2>3, Entries DEF BuildInv, TypeOK
    <3>2. Durable' = Durable
      BY <3>1, Entries DEF Durable, Holds
    <3> QED BY <2>1, <3>2
  <2>4. CASE ~e.copy
    <3>1. Durable = None
      BY <2>2, <2>4, DurableFacts, Entries
    <3>2. Durable' \in Manifests \cup {None}
      BY DEF Durable
    <3> QED BY <2>1, <3>1, <3>2
  <2> QED BY <2>3, <2>4
<1>4. ASSUME NEW e \in Entry, WriteTable(e)
      PROVE  UNCHANGED <<remote, ledger>>
  BY <1>4 DEF WriteTable
<1>5. CASE \/ Start \/ Reuse \/ Inventory \/ Acquire \/ Transform \/ WriteManifest \/ Verify
           \/ Check \/ Published \/ Clean \/ Crash \/ UNCHANGED vars
  <2>1. UNCHANGED <<remote, ledger>>
    BY <1>5 DEF Start, Reuse, Inventory, Acquire, Transform, WriteManifest, Verify, Check,
                Published, Clean, Crash, vars
  <2> QED BY <1>1, <2>1
<1> QED BY <1>1, <1>2, <1>3, <1>4, <1>5 DEF Next, Work

\* The lifecycle of a partition in a work root implements the promise of the
\* release: it becomes durable in one step, with one content that never changes,
\* and the ledger only reports what is durable.
THEOREM LifecycleIsDurable == Spec => DurableOnce
<1> DEFINE P == {"partition"}
<1>1. Init => D!Init
  <2> SUFFICES ASSUME Init PROVE D!Init
    OBVIOUS
  <2>1. remote[Main(Manifest)] = None
    BY Entries DEF Init
  <2>2. Durable = None
    BY <2>1, ContentFacts DEF Durable
  <2> QED BY <2>2 DEF Init, D!Init
<1>2. BuildInv /\ [Next]_vars => [D!Next]_<<[p \in P |-> Durable], [p \in P |-> ledger]>>
  <2> SUFFICES ASSUME BuildInv, [Next]_vars
               PROVE  [D!Next]_<<[p \in P |-> Durable], [p \in P |-> ledger]>>
    OBVIOUS
  <2>1. CASE Durable' = Durable /\ ledger' = ledger
    BY <2>1
  <2>2. CASE Durable = None /\ Durable' \in Manifests /\ ledger' = ledger
    <3>1. D!Commit("partition", Durable')
      BY <2>2 DEF D!Commit
    <3> QED BY <2>2, <3>1 DEF D!Next
  <2>3. CASE Durable' = Durable /\ ledger' = Durable
    <3>1. D!Report
      BY <2>3 DEF D!Report
    <3> QED BY <3>1 DEF D!Next
  <2> QED BY <2>1, <2>2, <2>3, DurableStep
<1> QED BY <1>1, <1>2, PartitionInvariant, PTL DEF Spec, DurableOnce, D!Spec
-----------------------------------------------------------------------------
(***************************************************************************)
(* The hourly objects that partitions are built from, Acquisition.         *)
(*                                                                         *)
(* ScansTheExpected speaks of the moment of the scan only; AcqInv adds     *)
(* what the files left behind may be: a whole version without a record, or *)
(* beside the record of another; but never a record of bytes that are not  *)
(* those of its identity.                                                  *)
(***************************************************************************)
Fixed == stage \in {"attempt", "drop", "fetch", "record", "acquired"}

AcqInv ==
  /\ AcqTypeOK
  /\ final # Nothing => final \in Versions
  /\ record # Nothing => record.body = record.identity
  /\ Fixed => expected \in Versions
  /\ stage \in {"record", "acquired"} => final = expected
  /\ since <= changes
  /\ stage = "probe" => Qualified = Nothing
  /\ Fixed => (Qualified = expected \/ (Qualified = Nothing /\ (changes = since => upstream = expected)))
  /\ cause = "identity" => stage = "failed"
  /\ IdentityMeansChange

LEMMA InitAcq == AcqInit => AcqInv
  BY AcquisitionAssumption DEF AcqInit, AcqInv, AcqTypeOK, Fixed, IdentityMeansChange, AcqWorking

LEMMA RetryLeads ==
  ASSUME AcqInv, Retry, stage = "fetch"
  PROVE  /\ attempt' \in 0..Delays
         /\ \/ stage' = "failed" /\ cause' = "exhausted"
            \/ stage' = "attempt" /\ UNCHANGED cause
<1>1. attempt \in 0..Delays /\ Delays \in Nat
  BY AcquisitionAssumption DEF AcqInv, AcqTypeOK
<1> QED
  BY <1>1 DEF Retry, GiveUp, Enter

LEMMA NextAcq == AcqInv /\ [AcqNext]_acqVars => AcqInv'
<1> SUFFICES ASSUME AcqInv, [AcqNext]_acqVars PROVE AcqInv'
  OBVIOUS
<1> USE AcquisitionAssumption
<1>1. CASE Begin
  BY <1>1 DEF Begin, files, AcqInv, AcqTypeOK, Fixed, IdentityMeansChange, AcqWorking
<1>2. CASE Probe
  <2>1. stage = "probe" /\ Qualified = Nothing /\ UNCHANGED <<upstream, changes, final, record, starts, attempt>>
    BY <1>2 DEF Probe, files, AcqInv
  <2>2. CASE expected' = upstream /\ since' = changes /\ Enter("attempt")
    <3>1. since' \in 0..MaxChanges /\ since' <= changes'
      BY <2>1, <2>2 DEF AcqInv, AcqTypeOK
    <3>2. cause # "identity"
      BY <2>1 DEF AcqInv
    <3> QED
      BY <2>1, <2>2, <3>1, <3>2 DEF Enter, AcqInv, AcqTypeOK, Fixed, IdentityMeansChange, AcqWorking
  <2>3. CASE GiveUp("probe") /\ UNCHANGED <<expected, since>>
    BY <2>1, <2>3 DEF GiveUp, AcqInv, AcqTypeOK, Fixed, IdentityMeansChange
  <2> QED
    BY <1>2, <2>2, <2>3 DEF Probe
<1>3. CASE TryCache
  BY <1>3 DEF TryCache, CacheMatches, GiveUp, Enter, files, AcqInv, AcqTypeOK, Fixed,
              IdentityMeansChange, AcqWorking
<1>4. CASE Drop
  BY <1>4 DEF Drop, AcqInv, AcqTypeOK, Fixed, IdentityMeansChange, AcqWorking
<1>5. CASE Fetch
  <2>1. stage = "fetch" /\ UNCHANGED <<upstream, changes, record, starts, expected, since>>
    BY <1>5 DEF Fetch
  <2>2. CASE GiveUp("refused") /\ UNCHANGED <<final, attempt>>
    BY <2>1, <2>2 DEF GiveUp, AcqInv, AcqTypeOK, Fixed, IdentityMeansChange
  <2>3. CASE Retry /\ UNCHANGED final
    BY <2>1, <2>3, RetryLeads DEF AcqInv, AcqTypeOK, Fixed, IdentityMeansChange, AcqWorking
  <2>4. CASE upstream # expected /\ GiveUp("identity") /\ UNCHANGED <<final, attempt>>
    <3>1. changes \in Nat /\ since \in Nat /\ since <= changes
      BY DEF AcqInv, AcqTypeOK
    <3>2. changes > since \/ Qualified \notin {Nothing, upstream}
      <4>1. Qualified = expected \/ (Qualified = Nothing /\ changes # since)
        BY <2>1, <2>4 DEF AcqInv, Fixed
      <4>2. expected \in Versions /\ Nothing \notin Versions
        BY <2>1 DEF AcqInv, Fixed, Bodies
      <4> QED
        BY <2>4, <3>1, <4>1, <4>2
    <3>3. changes' > since' \/ Qualified \notin {Nothing, upstream'}
      BY <2>1, <3>2
    <3> QED
      BY <2>1, <2>4, <3>3 DEF GiveUp, AcqInv, AcqTypeOK, Fixed, IdentityMeansChange
  <2>5. CASE upstream = expected /\ final' = upstream /\ Enter("record") /\ UNCHANGED attempt
    BY <2>1, <2>5 DEF Enter, AcqInv, AcqTypeOK, Bodies, Fixed, IdentityMeansChange, AcqWorking
  <2> QED
    BY <1>5, <2>2, <2>3, <2>4, <2>5 DEF Fetch
<1>6. CASE WriteRecord
  <2>1. record' \in Records /\ record'.body = record'.identity
    BY <1>6 DEF WriteRecord, Records, AcqInv, AcqTypeOK, Fixed, Bodies
  <2> QED
    BY <1>6, <2>1 DEF WriteRecord, Enter, AcqInv, AcqTypeOK, Fixed, IdentityMeansChange, AcqWorking
<1>7. CASE Consume
  BY <1>7 DEF Consume, Enter, AcqInv, AcqTypeOK, Fixed, IdentityMeansChange
<1>8. CASE Kill
  BY <1>8 DEF Kill, Enter, files, AcqInv, AcqTypeOK, Fixed, IdentityMeansChange, AcqWorking
<1>9. CASE Change
  BY <1>9 DEF Change, files, AcqInv, AcqTypeOK, Fixed, IdentityMeansChange
<1>10. CASE UNCHANGED acqVars
  BY <1>10 DEF acqVars, files, AcqInv, AcqTypeOK, Fixed, IdentityMeansChange
<1> QED
  BY <1>1, <1>2, <1>3, <1>4, <1>5, <1>6, <1>7, <1>8, <1>9, <1>10 DEF AcqNext, AcqWork

LEMMA AcquisitionInvariant == AcqSpec => []AcqInv
  BY InitAcq, NextAcq, PTL DEF AcqSpec

\* The variables of BoundedAcquirer.acquire and of its raw directory keep the types
\* of TypeOK.
THEOREM AcquisitionTypes == AcqSpec => []AcqTypeOK
<1>1. AcqInv => AcqTypeOK
  BY DEF AcqInv
<1> QED
  BY AcquisitionInvariant, <1>1, PTL

\* BoundedAcquirer.acquire hands over the bytes of the identity its run fixed,
\* for any versions, runs, retries and kills.
THEOREM ScanIsGenuine == AcqSpec => []ScansTheExpected
<1>1. AcqInv => ScansTheExpected
  BY DEF AcqInv, ScansTheExpected
<1> QED
  BY AcquisitionInvariant, <1>1, PTL

\* acquire fails for an identity only when the object changed or was never the
\* one that was prescribed.
THEOREM ConflictsAreReal == AcqSpec => []IdentityMeansChange
<1>1. AcqInv => IdentityMeansChange
  BY DEF AcqInv
<1> QED
  BY AcquisitionInvariant, <1>1, PTL
=============================================================================
