---------------------------- MODULE MCStagedDay ----------------------------
(***************************************************************************)
(* Small instances of StagedDay: hours of two windows, one or two assets.  *)
(***************************************************************************)
EXTENDS StagedDay

CONSTANTS a1, a2, e1, e2, e3, c1, c2, c3

\* An archive whose object t holds rows f[t] of every market it concerns.
Uniform(f) == [p \in Hours \X Market |-> IF Relevant(p[2], p[1]) THEN f[p[1]] ELSE {}]

\* One row of every event of S.
Once(S) == S \X {c1}

\* Events alternate, or repeat in the next object, one object is too full, one
\* is empty, or one repeats its rows.
Alternating == Uniform([t \in Hours |-> Once(IF t % (2 * Windows) = 0 THEN {e1} ELSE {e2})])
Repeating   == Uniform([t \in Hours |-> Once({e1, e2})])
TooFull     == Uniform([t \in Hours |-> Once(IF t = Windows THEN {e1, e2, e3} ELSE {e1})])
Silent      == Uniform([t \in Hours |-> Once(IF t = Windows THEN {} ELSE {e1})])
Doubled     == Uniform([t \in Hours |-> IF t = Windows THEN {e1} \X {c1, c2, c3} ELSE Once({e2})])

SomeArchives == {Alternating, Repeating, TooFull, Silent, Doubled}
=============================================================================
