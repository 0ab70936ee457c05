---------------------------- MODULE MCBookReplay ----------------------------
(***************************************************************************)
(* Small instances of BookReplay: two prices, so that a book may be        *)
(* crossed inside a message, and a few messages.                           *)
(***************************************************************************)
EXTENDS BookReplay, TLC

CONSTANTS up, down, coarse, fine

Set(s, p)    == [side |-> s, price |-> p, present |-> TRUE]
Delete(s, p) == [side |-> s, price |-> p, present |-> FALSE]

Quoted(cs) == [changes |-> cs, quoted |-> TRUE]
Bare(cs)   == [changes |-> cs, quoted |-> FALSE]

\* Changes with their quotes and without, and two moves of the bid: one crosses
\* the book between its rows, one leaves no bid between them.
FewMessages ==
  {Quoted(<<Set("bids", 1)>>), Bare(<<Delete("bids", 1)>>),
   Quoted(<<Delete("bids", 2), Set("bids", 1)>>), Quoted(<<Set("asks", 2)>>),
   Quoted(<<Set("bids", 2), Delete("asks", 2)>>)}

\* Tick sizes are interchangeable.
TicksAlike == Permutations({coarse, fine})

Spread == {[bids |-> {1}, asks |-> {2}]}
=============================================================================
