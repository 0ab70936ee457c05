--------------------------- MODULE PartitionBuild ---------------------------
(***************************************************************************)
(* One partition in a work root that survives its process: Pipeline.build, *)
(* Pipeline.publish, the checkpoints of StateStore and the ledger entry of *)
(* run_staged_partition.  A run may be killed between any two durable      *)
(* steps; the next run over the same work root takes up what it finds.     *)
(*                                                                         *)
(* An identity stands for the official payloads and source objects of a    *)
(* run: it determines the five tables.  The manifest holds the digests of  *)
(* the tables and retrieved_at_ns, the clock of the run that wrote it.     *)
(*                                                                         *)
(* The release has no other writer here (Publication has the races), so an *)
(* upload is one step.                                                     *)
(***************************************************************************)
EXTENDS Naturals

CONSTANTS
  Tables,       \* the five Parquet files
  Manifest,     \* manifest.json
  Identities,
  MaxRuns,      \* bound: runs over the work root; the last is not killed
  Part, Whole,  \* what a killed download leaves: a part or all of the bytes
  None

Files == Tables \cup {Manifest}

\* A file of the output directory, or the copy of one that _download_verify
\* fetches and that a killed run leaves behind.
Entry == [of : Files, copy : BOOLEAN]
Main(f) == [of |-> f, copy |-> FALSE]
Copy(f) == [of |-> f, copy |-> TRUE]

Manifests == [tables : [Tables -> Identities], stamp : 1..MaxRuns]
Contents  == Identities \cup Manifests \cup {Part, Whole}

Rank == [INVENTORIED |-> 1, ACQUIRED |-> 2, TRANSFORMED |-> 3, VERIFIED |-> 4,
         PUBLISHED |-> 5]

Checkpoint == [phase : DOMAIN Rank, identity : Identities, manifest : Manifests \cup {None}]

ASSUME BuildAssumption ==
  /\ Manifest \notin Tables
  /\ MaxRuns \in Nat
  /\ None \notin Contents \cup Checkpoint
  /\ Identities \cap (Manifests \cup {Part, Whole}) = {}
  /\ Manifests \cap {Part, Whole} = {}

VARIABLES
  checkpoint,   \* what StateStore holds of the partition, or None
  dir,          \* the output directory: Entry -> content or None
  ledger,       \* the manifest of the partition's ledger result, or None
  remote,       \* the assets of the partition: Entry -> content or None
  pc, reason,   \* where the run is, and why it failed
  run, identity, \* the clock of the run, and what its sources say
  todo,         \* the entries that are still to write or to publish
  at            \* the entry that is being verified

work == <<checkpoint, dir>>
vars == <<work, ledger, remote, pc, reason, run, identity, todo, at>>

Working == {"build", "acquire", "write", "manifest", "verify", "publish", "check",
            "record", "clean"}

Init ==
  /\ checkpoint = None /\ ledger = None
  /\ dir = [e \in Entry |-> None] /\ remote = [e \in Entry |-> None]
  /\ pc = "off" /\ reason = "none" /\ run = 0
  /\ identity \in Identities
  /\ todo = {} /\ at = Main(Manifest)

-----------------------------------------------------------------------------
Fail(why) == pc' = "failed" /\ reason' = why
Goto(l)   == pc' = l /\ UNCHANGED reason

Reached(ph) == checkpoint # None /\ Rank[checkpoint.phase] >= Rank[ph]
Conflicting == checkpoint # None /\ checkpoint.identity # identity

\* StateStore.advance refuses another identity or manifest, and a regression.
Refuses(c) ==
  checkpoint # None /\ \/ checkpoint.identity # c.identity
                       \/ None \notin {checkpoint.manifest, c.manifest} /\ checkpoint.manifest # c.manifest
                       \/ Rank[c.phase] < Rank[checkpoint.phase]

Advance(c, l) ==
  \/ Refuses(c) /\ Fail("checkpoint") /\ UNCHANGED checkpoint
  \/ ~Refuses(c) /\ checkpoint' = c /\ Goto(l)

\* Mutant of AdvanceIfNeeded: the identity is not compared.
AdvanceUnchecked(ph, l) ==
  /\ checkpoint' = IF Reached(ph) THEN checkpoint
                   ELSE [phase |-> ph, identity |-> identity, manifest |-> None]
  /\ Goto(l)

\* Pipeline._advance_if_needed
AdvanceIfNeeded(ph, l) ==
  \/ Conflicting /\ Fail("identity") /\ UNCHANGED checkpoint
  \/ ~Conflicting /\ Reached(ph) /\ Goto(l) /\ UNCHANGED checkpoint
  \/ /\ ~Conflicting /\ ~Reached(ph)
     /\ Advance([phase |-> ph, identity |-> identity, manifest |-> None], l)

-----------------------------------------------------------------------------
\* A run begins; a partition the ledger knows is done.
Start ==
  /\ pc \in {"off", "failed"} /\ run < MaxRuns
  /\ run' = run + 1 /\ reason' = "none"
  /\ identity' \in Identities
  /\ pc' = IF ledger = None THEN "build" ELSE "done"
  /\ todo' = {}
  /\ UNCHANGED <<work, ledger, remote, at>>

\* verify_manifest: the manifest holds what the tables are.
Consistent ==
  dir[Main(Manifest)] \in Manifests /\ \A t \in Tables : dir[Main(t)] = dir[Main(Manifest)].tables[t]

Present == {e \in Entry : dir[e] # None}

\* An earlier run has verified the partition: nothing is built.
Reuse ==
  /\ pc = "build" /\ Reached("VERIFIED")
  /\ \/ Conflicting /\ Fail("identity") /\ UNCHANGED todo
     \/ /\ ~Conflicting /\ (~Consistent \/ dir[Main(Manifest)] # checkpoint.manifest)
        /\ Fail("directory") /\ UNCHANGED todo
     \/ /\ ~Conflicting /\ Consistent /\ dir[Main(Manifest)] = checkpoint.manifest
        /\ todo' = Present /\ Goto("publish")
  /\ UNCHANGED <<work, ledger, remote, run, identity, at>>

Inventory ==
  /\ pc = "build" /\ ~Reached("VERIFIED")
  /\ AdvanceIfNeeded("INVENTORIED", "acquire")
  /\ UNCHANGED <<dir, ledger, remote, run, identity, todo, at>>

Acquire ==
  /\ pc = "acquire"
  /\ AdvanceIfNeeded("ACQUIRED", "write")
  /\ todo' = {Main(t) : t \in Tables}
  /\ UNCHANGED <<dir, ledger, remote, run, identity, at>>

\* write_table_atomic, StreamingTableWriter.finish and write_canonical_json
\* replace only equal bytes.
Replaceable(e, content) == dir[e] \in {None, content}

WriteTable(e) ==
  /\ pc = "write" /\ e \in todo
  /\ \/ ~Replaceable(e, identity) /\ Fail("table") /\ UNCHANGED <<dir, todo>>
     \/ /\ Replaceable(e, identity)
        /\ dir' = [dir EXCEPT ![e] = identity]
        /\ todo' = todo \ {e}
        /\ UNCHANGED <<pc, reason>>
  /\ UNCHANGED <<checkpoint, ledger, remote, run, identity, at>>

\* Mutant of Transform: the checkpoint says too much.
TransformVerified ==
  /\ pc = "write" /\ todo = {}
  /\ AdvanceIfNeeded("VERIFIED", "manifest")
  /\ UNCHANGED <<dir, ledger, remote, run, identity, todo, at>>

Transform ==
  /\ pc = "write" /\ todo = {}
  /\ AdvanceIfNeeded("TRANSFORMED", "manifest")
  /\ UNCHANGED <<dir, ledger, remote, run, identity, todo, at>>

\* build_manifest
WriteManifest ==
  LET new == [tables |-> [t \in Tables |-> dir[Main(t)]], stamp |-> run] IN
  /\ pc = "manifest"
  /\ \/ ~Replaceable(Main(Manifest), new) /\ Fail("manifest") /\ UNCHANGED dir
     \/ /\ Replaceable(Main(Manifest), new)
        /\ dir' = [dir EXCEPT ![Main(Manifest)] = new]
        /\ Goto("verify")
  /\ UNCHANGED <<checkpoint, ledger, remote, run, identity, todo, at>>

\* verify_manifest and the checkpoint VERIFIED.
Verify ==
  /\ pc = "verify"
  /\ \/ ~Consistent /\ Fail("directory") /\ UNCHANGED checkpoint
     \/ /\ Consistent
        /\ Advance([phase |-> "VERIFIED", identity |-> identity,
                    manifest |-> dir[Main(Manifest)]], "publish")
  /\ todo' = Present
  /\ UNCHANGED <<dir, ledger, remote, run, identity, at>>

-----------------------------------------------------------------------------
(***************************************************************************)
(* Publisher.publish_partition walks every file of the sorted directory:   *)
(* a left-over copy has a name that begins with a dot and comes first.     *)
(***************************************************************************)

\* Another asset of the same file is a conflict; otherwise the file is uploaded,
\* unless the release has it.
PublishEntry(e) ==
  /\ pc = "publish" /\ e \in todo
  /\ ~e.copy => \A d \in todo : ~d.copy
  /\ \/ /\ remote[e] \notin {None, dir[e]}
        /\ Fail(IF e.copy THEN "copy" ELSE "remote")
        /\ UNCHANGED <<remote, at>>
     \/ /\ remote[e] \in {None, dir[e]}
        /\ remote' = [remote EXCEPT ![e] = dir[e]]
        /\ at' = e /\ Goto("check")
  /\ UNCHANGED <<work, ledger, run, identity, todo>>

\* Mutant of Check: the walk does not advance.
CheckAgain ==
  /\ pc = "check"
  /\ dir' = IF at.copy THEN dir ELSE [dir EXCEPT ![Copy(at.of)] = None]
  /\ Goto("publish")
  /\ UNCHANGED <<checkpoint, ledger, remote, run, identity, todo, at>>

\* The asset has been downloaded and compared; the copy is removed.
Check ==
  /\ pc = "check"
  /\ todo' = todo \ {at}
  /\ dir' = IF at.copy THEN dir ELSE [dir EXCEPT ![Copy(at.of)] = None]
  /\ Goto("publish")
  /\ UNCHANGED <<checkpoint, ledger, remote, run, identity, at>>

\* Mutant of Published: the checkpoint does not wait for the last asset.
PublishedEarly ==
  /\ pc = "publish"
  /\ Advance([checkpoint EXCEPT !.phase = "PUBLISHED"], "record")
  /\ UNCHANGED <<dir, ledger, remote, run, identity, todo, at>>

\* Pipeline.publish records the publication.
Published ==
  /\ pc = "publish" /\ todo = {}
  /\ Advance([checkpoint EXCEPT !.phase = "PUBLISHED"], "record")
  /\ UNCHANGED <<dir, ledger, remote, run, identity, todo, at>>

\* The result of the partition enters the ledger.
Record ==
  /\ pc = "record"
  /\ ledger' = dir[Main(Manifest)]
  /\ Goto("clean")
  /\ UNCHANGED <<work, remote, run, identity, todo, at>>

\* The work directory of the partition is removed.
Clean ==
  /\ pc = "clean"
  /\ checkpoint' = None
  /\ dir' = [e \in Entry |-> None]
  /\ Goto("done")
  /\ UNCHANGED <<ledger, remote, run, identity, todo, at>>

\* The process is killed, or a request or a resource fails.  A killed process
\* may leave the copy it was downloading (that of a left-over copy is left out).
Crash ==
  /\ pc \in Working /\ run < MaxRuns
  /\ Goto("off")
  /\ \/ UNCHANGED dir
     \/ /\ pc = "check" /\ ~at.copy
        /\ \E c \in {Part, Whole} : dir' = [dir EXCEPT ![Copy(at.of)] = c]
  /\ UNCHANGED <<checkpoint, ledger, remote, run, identity, todo, at>>

Work ==
  \/ Start \/ Reuse \/ Inventory \/ Acquire \/ Transform \/ WriteManifest \/ Verify
  \/ Check \/ Published \/ Record \/ Clean
  \/ \E e \in Entry : WriteTable(e) \/ PublishEntry(e)

Next == Work \/ Crash

Spec == Init /\ [][Next]_vars

\* The operator runs the command again until it succeeds or MaxRuns is reached.
FairSpec == Spec /\ WF_vars(Work)

-----------------------------------------------------------------------------
(***************************************************************************)
(* Properties.                                                             *)
(***************************************************************************)
TypeOK ==
  /\ checkpoint \in Checkpoint \cup {None}
  /\ dir \in [Entry -> Contents \cup {None}]
  /\ remote \in [Entry -> Contents \cup {None}]
  /\ ledger \in Manifests \cup {None}
  /\ pc \in Working \cup {"off", "failed", "done"}
  /\ run \in 0..MaxRuns /\ identity \in Identities
  /\ todo \subseteq Entry /\ at \in Entry

\* The release holds the six files of manifest b.
Holds(b) ==
  /\ remote[Main(Manifest)] = b
  /\ \A t \in Tables : remote[Main(t)] = b.tables[t]

\* run_staged_partition: what the ledger reports is in the release, whichever
\* runs uploaded it.
LedgerIsDurable == ledger # None => Holds(ledger)

\* A checkpoint is never ahead of what it stands for: VERIFIED of the directory
\* a later run will reuse, PUBLISHED of the release.
CheckpointIsBacked ==
  /\ Reached("VERIFIED") => Consistent /\ dir[Main(Manifest)] = checkpoint.manifest
  /\ Reached("PUBLISHED") => Holds(checkpoint.manifest)

\* "resumes compatible partial uploads": over one work root no run meets its
\* predecessors' tables, checkpoints or assets as a conflict.
NoSelfConflict == reason \notin {"table", "checkpoint", "directory", "remote"}

\* The durable content of the partition.
Durable ==
  IF remote[Main(Manifest)] \in Manifests /\ Holds(remote[Main(Manifest)])
    THEN remote[Main(Manifest)] ELSE None

D == INSTANCE DurablePartitions WITH
       Partitions <- {"partition"}, Builds <- Manifests,
       durable <- [p \in {"partition"} |-> Durable],
       reported <- [p \in {"partition"} |-> ledger]

\* The detailed lifecycle implements the promise of the release.
DurableOnce == D!Spec

\* Repeating the command publishes the partition, unless its sources changed, or
\* a run was killed between the manifest and its checkpoint, or while it verified
\* an asset.
EndsOrIsStuck ==
  <>(pc = "done" \/ (pc = "failed" /\ reason \in {"identity", "manifest", "copy"}))
=============================================================================
