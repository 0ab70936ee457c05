---------------------------- MODULE MCSharedDay ----------------------------
(***************************************************************************)
(* A small instance of SharedDay: two assets, hours of one window.         *)
(***************************************************************************)
EXTENDS SharedDay

\* The second version has two rows more, and other bytes.
RowCounts == [v \in {1, 2} |-> 2 * v - 1]
Sizes == [v \in {1, 2} |-> 10 * v]

LateMarkets == {<<1, 1>>, <<1, 2>>, <<2, 2>>}
=============================================================================
