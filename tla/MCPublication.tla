--------------------------- MODULE MCPublication ---------------------------
(***************************************************************************)
(* Small instances of Publication.  Partitions of three files: one the     *)
(* publisher uploads before the manifest and one after it.                 *)
(***************************************************************************)
EXTENDS Publication, TLC

CONSTANTS p1, p2, r1, r2, r3, d1, d2, m1, m2, m3

\* Recomputations of which one reads another payload before the manifest and
\* one after it (a Gamma market whose outcome changed).
DriftingBuilds ==
  {<<d1, m1, d1>>, <<d2, m2, d1>>, <<d1, m3, d2>>}

AllFaults == {"crash", "build", "lost", "refused", "delete", "download"}

RunSymmetry == Permutations(Runs)
=============================================================================
