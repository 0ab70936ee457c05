------------------------------ MODULE MCCanary ------------------------------
(***************************************************************************)
(* A small instance of Canary: three assets, the prior proof of one of     *)
(* them longer than the round that replaces it, the others of the same     *)
(* starts, and three rounds of two starts.                                 *)
(***************************************************************************)
EXTENDS Canary

CONSTANTS a1, a2, a3

Ranks == [a \in {a1, a2, a3} |-> IF a = a1 THEN 1 ELSE IF a = a2 THEN 2 ELSE 3]
PriorRanks == [a \in {a1, a2, a3} |-> IF a = a1 THEN 2 ELSE IF a = a2 THEN 3 ELSE 1]

SharedStarts   == [a \in {a1, a2, a3} |-> IF a = a1 THEN {0, 1, 2, 3} ELSE {5, 6}]
SharedAccepted == [a \in {a1, a2, a3} |-> IF a = a1 THEN {1} ELSE IF a = a2 THEN {5, 6} ELSE {6}]

\* Hours are of two windows.  Hour 11 is among the objects of start 22, hour 7
\* between those of 12 and 18.
ThreeRounds == <<{30, 31}, {20, 22}, {12, 18}>>
MissingHours == {7, 11}

\* Two markets of one start, of one round, of two rounds, of a round and a prior
\* proof, of two prior proofs.
SomeReuses ==
  {{}, {<<a2, 5>>, <<a3, 6>>}, {<<a1, 1>>, <<a2, 31>>}, {<<a2, 22>>, <<a3, 22>>},
   {<<a3, 31>>, <<a1, 12>>}}
=============================================================================
