-------------------------- MODULE MCPartitionBuild --------------------------
(***************************************************************************)
(* Small instances of PartitionBuild: two tables and a few runs.           *)
(***************************************************************************)
EXTENDS PartitionBuild

CONSTANTS t1, t2, manifest, i1, i2, part, whole
=============================================================================
