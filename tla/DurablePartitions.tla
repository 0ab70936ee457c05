------------------------- MODULE DurablePartitions -------------------------
(***************************************************************************)
(* What the release promises to its readers, whatever runs, crashes and    *)
(* repeats produce it: a partition goes from absent to durable in one step *)
(* and with one content, which never changes again; and a report of        *)
(* durability (the ledger on main) names only durable partitions, with     *)
(* the content they have.                                                  *)
(***************************************************************************)
CONSTANTS Partitions, Builds, None

VARIABLES
  durable,    \* the content of a partition's six verified assets, or None
  reported    \* the content the last ledger reported, or None

Init ==
  /\ durable = [p \in Partitions |-> None]
  /\ reported = [p \in Partitions |-> None]

\* A partition becomes durable.
Commit(p, b) ==
  /\ durable[p] = None
  /\ durable' = [durable EXCEPT ![p] = b]
  /\ UNCHANGED reported

\* A checkpoint reports everything that is durable.
Report ==
  /\ reported' = durable
  /\ UNCHANGED durable

Next == Report \/ \E p \in Partitions, b \in Builds : Commit(p, b)

Spec == Init /\ [][Next]_<<durable, reported>>
=============================================================================
