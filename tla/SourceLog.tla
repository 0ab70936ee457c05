----------------------------- MODULE SourceLog -----------------------------
(***************************************************************************)
(* What the shared spool of a day promises: every source object is counted *)
(* once, in one step, with the rows of one version of it and its bytes.    *)
(***************************************************************************)
EXTENDS Integers

CONSTANTS
  Objects,
  Versions,
  Size,         \* version -> its bytes
  Inventories,  \* the sets of markets a day may have
  Rows(_, _, _) \* the rows of an object, of a version of it, for some markets

VARIABLES
  counted,      \* the counted objects, with their versions
  rows,
  bytes

Init == counted = {} /\ rows = {} /\ bytes = 0

Count(o, v) ==
  /\ \A c \in counted : c[1] # o
  /\ counted' = counted \cup {<<o, v>>}
  /\ \E known \in Inventories : rows' = rows \cup Rows(o, v, known)
  /\ bytes' = bytes + Size[v]

Next == \E o \in Objects, v \in Versions : Count(o, v)

Spec == Init /\ [][Next]_<<counted, rows, bytes>>
=============================================================================
