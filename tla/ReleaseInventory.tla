-------------------------- MODULE ReleaseInventory --------------------------
(***************************************************************************)
(* The remote authority of the backfill: the assets GitHub lists for one   *)
(* half-month release, and the judgements scripts/actions_backend.py makes *)
(* from such a listing (verified_partitions, unfinished_plan,              *)
(* inventory_anomalies).                                                   *)
(*                                                                         *)
(* An asset's name is content addressed:                                   *)
(*     <partition>--<sha256>--<filename>                                   *)
(* so it is a record of those three parts.  The six canonical files are    *)
(* numbered in the order in which the publisher walks the sorted directory *)
(* (book-200ms, book-events, exclusions, manifest.json, markets,           *)
(* underlying); a smaller instance keeps some before and some after the    *)
(* manifest.                                                               *)
(***************************************************************************)
EXTENDS Naturals

CONSTANTS
  Partitions,   \* the planned asset/15m/day partitions of the release
  NumFiles,     \* how many canonical files a partition has
  Manifest,     \* the position of manifest.json among them
  Digests,      \* SHA-256 digests
  Builds,       \* the file contents a recomputation of a partition can yield
  None          \* "no job", "no build", "no entry"

Files == 1..NumFiles

(***************************************************************************)
(* A build is what one run of the pipeline leaves in the output directory: *)
(* the digest of every canonical file.  The manifest lists the digests of  *)
(* the five tables, and SHA-256 does not collide, so the manifest's digest *)
(* determines the build.                                                   *)
(***************************************************************************)
ASSUME InventoryAssumption ==
  /\ NumFiles \in Nat \ {0}
  /\ Manifest \in Files
  /\ Builds \subseteq [Files -> Digests]
  /\ \A b, c \in Builds : b[Manifest] = c[Manifest] => b = c
  /\ None \notin Partitions \cup Builds \cup Digests

\* content_addressed_name: the name file f of build b gets in partition p.
Name(p, f, b) == [part |-> p, file |-> f, digest |-> b[f]]

Asset == [part : Partitions, file : Files, digest : Digests]

-----------------------------------------------------------------------------
(***************************************************************************)
(* Judgements about a listing: up are the assets whose state is            *)
(* "uploaded", inc the others (an upload that has begun and not ended).    *)
(***************************************************************************)

\* The listed assets of partition p that hold file f.
Listed(up, inc, p, f) == {a \in up \cup inc : a.part = p /\ a.file = f}

\* verified_partitions: as many assets as canonical files, one of each name,
\* all of them uploaded.
Verified(up, inc) ==
  {p \in Partitions :
     \A f \in Files : \E a \in up : Listed(up, inc, p, f) = {a}}

\* unfinished_plan, restricted to the partitions of one UTC day.
Unfinished(up, inc, day) == day \ Verified(up, inc)

\* inventory_anomalies / _fatal_inventory_anomalies: two assets hold the same
\* file of a partition (with content-addressed names: with different digests).
FatalAnomaly(up, inc) ==
  \E a, b \in up \cup inc : a # b /\ a.part = b.part /\ a.file = b.file

\* The manifest digest reconcile_ledger records for a verified partition.
LedgerEntry(up, inc, p) ==
  IF p \in Verified(up, inc)
    THEN (CHOOSE a \in Listed(up, inc, p, Manifest) : TRUE).digest
    ELSE None
=============================================================================
