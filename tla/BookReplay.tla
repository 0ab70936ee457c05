----------------------------- MODULE BookReplay -----------------------------
(***************************************************************************)
(* One market from the venue to its 200 ms grid.  The venue changes the    *)
(* books of the market's tokens; the archive records rows of them, some of *)
(* which are lost; transform_market replays the rows of each token         *)
(* (BookReconstructor), samples the states on the grid (resample_200ms)    *)
(* and accepts or excludes the market (classify).                          *)
(*                                                                         *)
(* Both loops go through the rows in the order of their receive time and   *)
(* look ahead to the next row only.  The model therefore replays the rows  *)
(* of one receive time, a batch, and samples, as soon as that time is      *)
(* over.  Source timestamps keep pace with receive timestamps, so that     *)
(* rows are recorded in the order of order_key.                            *)
(*                                                                         *)
(* Of a level only its price is kept.  The quote 0 is an empty bid side    *)
(* and NumPrices + 1 an empty ask side, like the sentinels 0 and 1 of the  *)
(* feed.                                                                   *)
(***************************************************************************)
EXTENDS Naturals, SequencesExt, FiniteSetsExt

CONSTANTS
  Tokens, NumPrices, Ticks,
  Messages,              \* the messages of the venue: changes, with or without quotes
  Opening,               \* the books the market may open with
  Begin, End, Interval,  \* market_start_ns, market_end_ns and the grid between
  Busy,                  \* bound: the tokens of which other rows than snapshots come
  MaxBatch, MaxLost,     \* bounds: rows with one receive time; rows lost
  None

Price  == 1..NumPrices
Bids   == 0..NumPrices
Asks   == 1..(NumPrices + 1)
Book   == [bids : SUBSET Price, asks : SUBSET Price]
Change == [side : {"bids", "asks"}, price : Price, present : BOOLEAN]
Grid   == {g \in Begin..(End - 1) : (g - Begin) % Interval = 0}

\* Rows of the archive by event type; a change may come without its quotes.
ChangeRow == [kind : {"change"}, change : Change, bid : Bids \cup {None}, ask : Asks \cup {None}]
BookRow   == [kind : {"book"}, book : Book]
TickRow   == [kind : {"tick"}, old : Ticks, new : Ticks]
TradeRow  == [kind : {"trade"}]
Row       == ChangeRow \cup BookRow \cup TickRow \cup TradeRow

ASSUME BookReplayAssumption ==
  /\ NumPrices \in Nat /\ MaxBatch \in Nat /\ MaxLost \in Nat
  /\ Begin \in Nat /\ End \in Nat /\ Interval \in Nat \ {0} /\ Begin < End
  /\ Messages \subseteq [changes : Seq(Change) \ {<<>>}, quoted : BOOLEAN] /\ Opening \subseteq Book
  /\ Busy \subseteq Tokens /\ None \notin Nat \cup Book \cup Ticks

VARIABLES
  clock,             \* the receive time
  real, venueTick,   \* the venue: a token's book and tick size
  batch,             \* its rows with the receive time clock
  seen, first,       \* has the token rows, and when did its first snapshot come?
  lost, repeated,    \* how many rows were lost; was one repeated?
  synced, traded,    \* does the archive know the book; did the last batch end in a trade?
  claimed,           \* the quotes the last batch claims, if any
  pc, next,          \* what is going on; the row of each token to replay
  book, tick,        \* BookReconstructor: the book and tick size of a token
  since,             \* the receive time of its last state
  conflict,          \* the tokens whose rows contradict themselves
  sample, gap, gaps, \* resample_200ms: the last sample, an open gap, the gaps
  outcome

venue     == <<real, venueTick>>
archive   == <<batch, seen, first, lost, repeated, synced, traded, claimed>>
replay    == <<next, book, tick, since, conflict>>
resample  == <<sample, gap, gaps>>
vars      == <<clock, venue, archive, pc, replay, resample, outcome>>

-----------------------------------------------------------------------------
BestBid(b) == IF b.bids = {} THEN 0 ELSE Max(b.bids)
BestAsk(b) == IF b.asks = {} THEN NumPrices + 1 ELSE Min(b.asks)
Crossed(b) == b.bids # {} /\ b.asks # {} /\ BestBid(b) >= BestAsk(b)

Init ==
  /\ clock = 0 /\ real \in [Tokens -> {b \in Opening : ~Crossed(b)}] /\ venueTick \in [Tokens -> Ticks]
  /\ batch = [k \in Tokens |-> <<>>] /\ lost = 0 /\ repeated = FALSE
  /\ seen = [k \in Tokens |-> FALSE] /\ first = [k \in Tokens |-> None]
  /\ synced = [k \in Tokens |-> FALSE] /\ traded = [k \in Tokens |-> FALSE]
  /\ claimed = [k \in Tokens |-> [bid |-> None, ask |-> None]]
  /\ pc = "recording" /\ next = [k \in Tokens |-> 1]
  /\ book = [k \in Tokens |-> None] /\ tick = [k \in Tokens |-> None]
  /\ since = [k \in Tokens |-> None] /\ conflict = {}
  /\ sample = [k \in Tokens |-> None] /\ gap = [k \in Tokens |-> None] /\ gaps = {}
  /\ outcome = "none"

-----------------------------------------------------------------------------
(***************************************************************************)
(* The venue and the archive.                                              *)
(***************************************************************************)
\* The changes of cs to the price p of one side, as places in cs.
Touching(cs, side, p) == {i \in DOMAIN cs : cs[i].side = side /\ cs[i].price = p}

\* The prices of one side after cs: the last change to a price decides.
Level(old, cs, side) ==
  {p \in Price : \/ p \in old /\ Touching(cs, side, p) = {}
                \/ \E i \in Touching(cs, side, p) :
                     cs[i].present /\ \A j \in Touching(cs, side, p) : j <= i}

\* The book after the changes of a message.
After(b, cs) == [bids |-> Level(b.bids, cs, "bids"), asks |-> Level(b.asks, cs, "asks")]

\* No row is repeated.
Fresh(k, new) == IsInjective(new) /\ Range(new) \cap Range(batch[k]) = {}
Recorded == Cardinality(UNION {{k} \X DOMAIN batch[k] : k \in Tokens})

Lose(n) == lost + n <= MaxLost /\ lost' = lost + n

\* Rows reach the archive, now in synchrony with the venue or not.
Add(k, new, insync) ==
  /\ pc = "recording" /\ Recorded + Len(new) <= MaxBatch
  /\ batch' = [batch EXCEPT ![k] = @ \o new]
  /\ synced' = [synced EXCEPT ![k] = insync]
  /\ seen' = [seen EXCEPT ![k] = @ \/ new # <<>>]
  /\ repeated' = (repeated \/ ~Fresh(k, new))
  /\ UNCHANGED <<clock, pc, replay, resample, outcome>>

\* Rows other than trades: the last kept one makes the claim of the batch.
Record(k, new, insync, quotes) ==
  /\ Add(k, new, insync)
  /\ IF Range(new) \subseteq Range(batch[k]) THEN UNCHANGED <<claimed, traded>>
     ELSE /\ claimed' = [claimed EXCEPT ![k] = quotes]
          /\ traded' = [traded EXCEPT ![k] = FALSE]

Unquoted == [bid |-> None, ask |-> None]

\* A price_change message: its rows carry the quotes after it, or none.  Rows of
\* it may be lost.
Message(k) ==
  \E m \in Messages :
    LET sent   == m.changes
        after  == After(real[k], sent)
        quotes == IF m.quoted THEN [bid |-> BestBid(after), ask |-> BestAsk(after)] ELSE Unquoted
    IN
    \E got \in {sent, Tail(sent), Front(sent), <<>>} :
      LET new   == [i \in DOMAIN got |-> [kind |-> "change", change |-> got[i],
                                          bid |-> quotes.bid, ask |-> quotes.ask]]
      IN /\ ~Crossed(after)
         /\ real' = [real EXCEPT ![k] = after]
         /\ Record(k, new, synced[k] /\ got = sent /\ Fresh(k, new), quotes)
         /\ Lose(Len(sent) - Len(got))
         /\ UNCHANGED <<venueTick, first>>

\* A full snapshot: the archive knows the book again.
Snapshot(k) ==
  LET new == <<[kind |-> "book", book |-> real[k]]>> IN
  /\ Record(k, new, synced[k] \/ Fresh(k, new), Unquoted)
  /\ first' = [first EXCEPT ![k] = IF @ = None THEN clock ELSE @]
  /\ UNCHANGED <<venue, lost>>

TickSize(k) ==
  \E n \in Ticks \ {venueTick[k]}, got \in 0..1 :
    LET new == [i \in 1..got |-> [kind |-> "tick", old |-> venueTick[k], new |-> n]] IN
    /\ venueTick' = [venueTick EXCEPT ![k] = n]
    /\ Record(k, new, synced[k], Unquoted)
    /\ Lose(1 - got)
    /\ UNCHANGED <<real, first>>

Trade(k) ==
  /\ Add(k, <<[kind |-> "trade"]>>, synced[k])
  /\ traded' = [traded EXCEPT ![k] = @ \/ \E r \in Range(batch[k]) : r.kind # "trade"]
  /\ UNCHANGED <<venue, first, lost, claimed>>

\* The receive time is over: its rows are replayed.
Deliver ==
  /\ pc = "recording" /\ pc' = "replay"
  /\ next' = [k \in Tokens |-> 1]
  /\ UNCHANGED <<clock, venue, archive, book, tick, since, conflict, resample, outcome>>

-----------------------------------------------------------------------------
(***************************************************************************)
(* BookReconstructor.                                                      *)
(***************************************************************************)
Event(k) == batch[k][next[k]]

\* order_and_deduplicate: of equal rows the first is kept.
Kept(k) == {i \in DOMAIN batch[k] : \A j \in 1..(i - 1) : batch[k][j] # batch[k][i]}

Replaying(k) == pc = "replay" /\ k \notin conflict /\ next[k] \in DOMAIN batch[k]

Processing(k, kind) == Replaying(k) /\ next[k] \in Kept(k) /\ Event(k).kind = kind

\* A repeated row, a trade, or a row before the first snapshot.
Skip(k) ==
  /\ Replaying(k)
  /\ \/ next[k] \notin Kept(k) \/ Event(k).kind = "trade"
     \/ book[k] = None /\ Event(k).kind # "book"
  /\ next' = [next EXCEPT ![k] = @ + 1]
  /\ UNCHANGED <<clock, venue, archive, pc, book, tick, since, conflict, resample, outcome>>

\* ReconstructionError: the market will be excluded.
Contradiction(k) ==
  /\ conflict' = conflict \cup {k}
  /\ UNCHANGED <<clock, venue, archive, pc, next, book, tick, since, resample, outcome>>

\* Mutant of BatchEnd: each row is judged by itself.
BatchEndAlways(k) == TRUE

\* The next row has another receive time.
BatchEnd(k) == \A i \in Kept(k) : i <= next[k]

Agrees(q, b) == q.bid \in {None, BestBid(b)} /\ q.ask \in {None, BestAsk(b)}

\* Mutant of Implausible: the quotes are not compared.
ImplausibleCrossed(k, b) == BatchEnd(k) /\ Crossed(b)

Implausible(k, b) ==
  BatchEnd(k) /\ (Crossed(b) \/ (Event(k).kind = "change" /\ ~Agrees(Event(k), b)))

\* A state of the book, which must be plausible at the end of its batch.
Emit(k, b, t) ==
  \/ Implausible(k, b) /\ Contradiction(k)
  \/ /\ ~Implausible(k, b)
     /\ book' = [book EXCEPT ![k] = b] /\ tick' = [tick EXCEPT ![k] = t]
     /\ since' = [since EXCEPT ![k] = clock]
     /\ next' = [next EXCEPT ![k] = @ + 1]
     /\ UNCHANGED <<clock, venue, archive, pc, conflict, resample, outcome>>

ApplyBook(k) == Processing(k, "book") /\ Emit(k, Event(k).book, tick[k])

\* A change sets one level or, with size zero, deletes it.
SetLevel(b, c) ==
  [b EXCEPT ![c.side] = IF c.present THEN @ \cup {c.price} ELSE @ \ {c.price}]

\* At the end of a batch its quotes delete the levels beyond them.
Pruned(k, b) ==
  LET q == Event(k) IN
  [bids |-> {p \in b.bids : BatchEnd(k) /\ q.bid # None => p <= q.bid},
   asks |-> {p \in b.asks : BatchEnd(k) /\ q.ask # None => p >= q.ask}]

ApplyChange(k) ==
  /\ Processing(k, "change") /\ book[k] # None
  /\ Emit(k, Pruned(k, SetLevel(book[k], Event(k).change)), tick[k])

ApplyTick(k) ==
  /\ Processing(k, "tick") /\ book[k] # None
  /\ \/ tick[k] \notin {None, Event(k).old} /\ Contradiction(k)
     \/ tick[k] \in {None, Event(k).old} /\ Emit(k, book[k], Event(k).new)

Reconstruct(k) == Skip(k) \/ ApplyBook(k) \/ ApplyChange(k) \/ ApplyTick(k)

-----------------------------------------------------------------------------
(***************************************************************************)
(* resample_200ms and classify.                                            *)
(***************************************************************************)
\* Mutant of Covered: a state of the grid point itself is too late.
CoveredBefore(k) == since[k] # None /\ since[k] < clock

\* The last state is not later than the grid point.
Covered(k) == since[k] # None

Sample ==
  /\ pc = "replay" /\ \A k \in Tokens : ~Replaying(k)
  /\ pc' = "sampled"
  /\ IF clock \in Grid
       THEN /\ sample' = [k \in Tokens |-> IF Covered(k) THEN book[k] ELSE None]
            /\ gap' = [k \in Tokens |-> IF Covered(k) THEN None
                                        ELSE IF gap[k] = None THEN clock ELSE gap[k]]
            /\ gaps' = gaps \cup {<<k, gap[k], clock>> : k \in {k \in Tokens : Covered(k) /\ gap[k] # None}}
       ELSE UNCHANGED resample
  /\ UNCHANGED <<clock, venue, archive, replay, outcome>>

\* Time passes.
Pass ==
  /\ pc = "sampled" /\ clock + 1 < End
  /\ clock' = clock + 1 /\ pc' = "recording"
  /\ batch' = [k \in Tokens |-> <<>>]
  /\ UNCHANGED <<venue, seen, first, lost, repeated, synced, traded, claimed, replay, resample, outcome>>

\* Mutant of Remaining: a gap ends with the last grid point.
RemainingShort == {<<k, gap[k], Max(Grid)>> : k \in {k \in Tokens : gap[k] # None}}

\* The gaps still open at the end of the market.
Remaining == {<<k, gap[k], End>> : k \in {k \in Tokens : gap[k] # None}}

\* classify, for a resolved 15-minute market.
Classified(g) == IF g = {} THEN "TIER_A" ELSE "SOURCE_GAP"

\* transform_market: the tokens are reconstructed one after the other, and the
\* first that fails decides.
Conclude ==
  /\ pc = "sampled" /\ clock + 1 >= End
  /\ pc' = "done" /\ gaps' = gaps \cup Remaining
  /\ \/ conflict # {} /\ outcome' = "EVENT_CONFLICT"
     \/ (\E k \in Tokens \ conflict : seen[k] /\ since[k] = None) /\ outcome' = "NO_INITIAL_SNAPSHOT"
     \/ /\ conflict = {} /\ \A k \in Tokens : seen[k] => since[k] # None
        /\ outcome' = Classified(gaps')
  /\ UNCHANGED <<clock, venue, archive, replay, sample, gap>>

Live == Deliver \/ (\E k \in Tokens : Snapshot(k)) \/ \E k \in Busy : Message(k) \/ TickSize(k) \/ Trade(k)

Transform == Sample \/ Pass \/ Conclude \/ \E k \in Tokens : Reconstruct(k)

Next == Live \/ Transform

Spec == Init /\ [][Next]_vars

-----------------------------------------------------------------------------
(***************************************************************************)
(* Properties.                                                             *)
(***************************************************************************)
AtGrid == pc = "sampled" /\ clock \in Grid

\* "Reconstruct each token causally from its first full snapshot": where the
\* archive has all that happened since some snapshot, the grid shows the venue's
\* own book, whatever was lost before.
GridIsFaithful ==
  AtGrid => \A k \in Tokens \ conflict : synced[k] => sample[k] = real[k]

\* A market whose rows are complete is never excluded as contradictory.
ConflictMeansDamage == conflict # {} => lost > 0 \/ repeated

\* docs/canary-v3-coverage-reconciliation.json:29: an accepted market agrees with
\* the quotes the archive claims after each receive-time batch.
BatchAgrees ==
  outcome = "TIER_A" /\ clock \in Grid => \A k \in Tokens : Agrees(claimed[k], sample[k])

\* What the code ensures, whatever rows were lost: the grid shows an uncrossed
\* book with the quotes claimed after its batch, unless that ended in a trade.
UntradedBatchAgrees ==
  AtGrid => \A k \in Tokens \ conflict :
    sample[k] # None /\ ~traded[k] => ~Crossed(sample[k]) /\ Agrees(claimed[k], sample[k])

\* docs/source-authority.md:28: "a snapshot after market start produces SOURCE_GAP",
\* and its evidence is the exact interval without a book.
GapsAreExact ==
  outcome \in {"TIER_A", "SOURCE_GAP"} =>
    LET late == {k \in Tokens : first[k] = None \/ first[k] > Begin} IN
    /\ outcome = "TIER_A" <=> late = {}
    /\ gaps = {<<k, Begin, Min({End} \cup {g \in Grid : first[k] # None /\ first[k] <= g})>> : k \in late}
=============================================================================
