------------------------- MODULE BookReplay_proofs -------------------------
(***************************************************************************)
(* Proofs about BookReplay: what the grid of a market shows, when its rows *)
(* contradict themselves, and which gaps it has, for any number of tokens, *)
(* prices, messages, lost rows and rows of one receive time.               *)
(***************************************************************************)
EXTENDS BookReplay, WellFoundedInduction, TLAPS

-----------------------------------------------------------------------------
(***************************************************************************)
(* Numbers, books and rows.                                                *)
(***************************************************************************)

\* A nonempty set of naturals has a least element.
LEMMA Least ==
  ASSUME NEW S \in SUBSET Nat, S # {}
  PROVE  \E x \in S : \A y \in S : x <= y
<1>1. PICK x \in S : \A y \in S : ~(<<y, x>> \in OpToRel(<, Nat))
  BY NatLessThanWellFounded, WFMin, Zenon
<1>2. \A y \in S : y \in Nat /\ x \in Nat => ~(y < x)
  BY <1>1, Zenon DEF OpToRel
<1> QED BY <1>2

\* A bounded one has a greatest.
LEMMA Greatest ==
  ASSUME NEW n \in Nat, NEW S \in SUBSET (0..n), S # {}
  PROVE  \E x \in S : \A y \in S : y <= x
<1> DEFINE T == {n - x : x \in S}
<1>0. \A x \in S : n - x \in Nat
  OBVIOUS
<1>1. T \in SUBSET Nat /\ T # {}
  BY <1>0, Zenon
<1>2. PICK t \in T : \A y \in T : t <= y
  <2> HIDE DEF T
  <2> QED BY <1>1, Least
<1>3. PICK x \in S : t = n - x
  OBVIOUS
<1>4. \A y \in S : n - y \in T
  OBVIOUS
<1>5. \A y \in S : y <= x
  BY <1>2, <1>3, <1>4
<1> QED BY <1>5

\* The quotes of a book bound its levels.
LEMMA BestFacts ==
  ASSUME NEW b \in Book
  PROVE  /\ BestBid(b) \in Bids /\ BestAsk(b) \in Asks
         /\ \A p \in b.bids : p <= BestBid(b)
         /\ \A p \in b.asks : BestAsk(b) <= p
<1>0. NumPrices \in Nat /\ b.bids \subseteq 1..NumPrices /\ b.asks \subseteq 1..NumPrices
  BY BookReplayAssumption DEF Book, Price
<1>1. ASSUME b.bids # {}
      PROVE  BestBid(b) \in b.bids /\ \A p \in b.bids : p <= BestBid(b)
  <2>0. b.bids \in SUBSET (0..NumPrices)
    BY <1>0
  <2>1. PICK x \in b.bids : \A y \in b.bids : y <= x
    BY <1>0, <1>1, <2>0, Greatest, Zenon
  <2>2. \A y \in b.bids : x >= y
    BY <1>0, <2>1
  <2>3. BestBid(b) = Max(b.bids)
    BY <1>1 DEF BestBid
  <2>4. Max(b.bids) \in b.bids /\ \A y \in b.bids : Max(b.bids) >= y
    BY <2>2 DEF Max
  <2> QED BY <1>0, <2>3, <2>4
<1>2. ASSUME b.asks # {}
      PROVE  BestAsk(b) \in b.asks /\ \A p \in b.asks : BestAsk(b) <= p
  <2>1. PICK x \in b.asks : \A y \in b.asks : x <= y
    BY <1>0, <1>2, Least
  <2>2. BestAsk(b) = Min(b.asks)
    BY <1>2 DEF BestAsk
  <2>3. Min(b.asks) \in b.asks /\ \A y \in b.asks : Min(b.asks) <= y
    BY <2>1 DEF Min
  <2> QED BY <2>2, <2>3
<1>3. b.bids = {} => BestBid(b) = 0
  BY DEF BestBid
<1>4. b.asks = {} => BestAsk(b) = NumPrices + 1
  BY DEF BestAsk
<1> QED BY <1>0, <1>1, <1>2, <1>3, <1>4 DEF Bids, Asks

LEMMA RowFacts ==
  ASSUME NEW r \in Row
  PROVE  /\ r.kind \in {"change", "book", "tick", "trade"}
         /\ r.kind = "change" => r \in ChangeRow
         /\ r.kind = "book" => r.book \in Book
         /\ r.kind = "tick" => r.old \in Ticks /\ r.new \in Ticks
BY DEF Row, ChangeRow, BookRow, TickRow, TradeRow

LEMMA AfterType ==
  ASSUME NEW b \in Book, NEW cs
  PROVE  After(b, cs) \in Book
BY DEF After, Level, Book, Price

LEMMA SetLevelType ==
  ASSUME NEW b \in Book, NEW c \in Change
  PROVE  /\ SetLevel(b, c) \in Book
         /\ c.side = "bids" => SetLevel(b, c) =
              [bids |-> IF c.present THEN b.bids \cup {c.price} ELSE b.bids \ {c.price}, asks |-> b.asks]
         /\ c.side = "asks" => SetLevel(b, c) =
              [bids |-> b.bids, asks |-> IF c.present THEN b.asks \cup {c.price} ELSE b.asks \ {c.price}]
<1> DEFINE n(old) == IF c.present THEN old \cup {c.price} ELSE old \ {c.price}
<1>0. /\ b = [bids |-> b.bids, asks |-> b.asks]
      /\ b.bids \subseteq Price /\ b.asks \subseteq Price /\ c.price \in Price
      /\ DOMAIN b = {"bids", "asks"}
  BY DEF Book, Change
<1>3. SetLevel(b, c) = [b EXCEPT ![c.side] = n(@)]
  BY DEF SetLevel
<1>1. CASE c.side = "bids"
  <2>1. SetLevel(b, c) = [b EXCEPT !["bids"] = n(b.bids)]
    BY <1>1, <1>3 DEF SetLevel
  <2> HIDE DEF n
  <2>2. SetLevel(b, c) = [bids |-> n(b.bids), asks |-> b.asks]
    BY <1>0, <2>1
  <2>3. n(b.bids) \subseteq Price
    BY <1>0 DEF n
  <2> QED BY <1>0, <1>1, <2>2, <2>3 DEF n, Book
<1>2. CASE c.side = "asks"
  <2>1. SetLevel(b, c) = [b EXCEPT !["asks"] = n(b.asks)]
    BY <1>2, <1>3 DEF SetLevel
  <2> HIDE DEF n
  <2>2. SetLevel(b, c) = [bids |-> b.bids, asks |-> n(b.asks)]
    BY <1>0, <2>1
  <2>3. n(b.asks) \subseteq Price
    BY <1>0 DEF n
  <2> QED BY <1>0, <1>2, <2>2, <2>3 DEF n, Book
<1> QED BY <1>1, <1>2 DEF Change

-----------------------------------------------------------------------------
(***************************************************************************)
(* Of equal rows the first is kept.                                        *)
(***************************************************************************)
KeptIn(rows) == {i \in DOMAIN rows : \A j \in 1..(i - 1) : rows[j] # rows[i]}

LEMMA KeptOf ==
  ASSUME NEW k
  PROVE  Kept(k) = KeptIn(batch[k])
BY DEF Kept, KeptIn

LEMMA Concat ==
  ASSUME NEW S, NEW s \in Seq(S), NEW t \in Seq(S)
  PROVE  /\ s \o t \in Seq(S) /\ Len(s \o t) = Len(s) + Len(t)
         /\ Len(s) \in Nat /\ Len(t) \in Nat
         /\ DOMAIN s = 1..Len(s) /\ DOMAIN t = 1..Len(t)
         /\ DOMAIN (s \o t) = 1..(Len(s) + Len(t))
         /\ \A i \in 1..Len(s) : (s \o t)[i] = s[i]
         /\ \A i \in 1..Len(t) : (s \o t)[Len(s) + i] = t[i]
OBVIOUS

\* What is kept stays kept when rows are added, and added rows are kept if they
\* are new.
LEMMA KeptGrows ==
  ASSUME NEW S, NEW s \in Seq(S), NEW t \in Seq(S)
  PROVE  /\ \A i \in 1..Len(s) : i \in KeptIn(s \o t) <=> i \in KeptIn(s)
         /\ \A i \in KeptIn(s \o t) : i > Len(s) => t[i - Len(s)] \notin Range(s)
         /\ Range(t) \subseteq Range(s) => KeptIn(s \o t) = KeptIn(s)
         /\ IsInjective(t) /\ Range(t) \cap Range(s) = {} =>
              \A i \in 1..Len(t) : Len(s) + i \in KeptIn(s \o t)
<1> DEFINE u == s \o t
<1>0. /\ u \in Seq(S) /\ Len(s) \in Nat /\ Len(t) \in Nat
      /\ DOMAIN s = 1..Len(s) /\ DOMAIN t = 1..Len(t) /\ DOMAIN u = 1..(Len(s) + Len(t))
      /\ \A i \in 1..Len(s) : u[i] = s[i]
      /\ \A i \in 1..Len(t) : u[Len(s) + i] = t[i]
  BY Concat
<1> HIDE DEF u
<1>1. \A i \in 1..Len(s) : i \in KeptIn(u) <=> i \in KeptIn(s)
  BY <1>0 DEF KeptIn
<1>2. ASSUME NEW i \in KeptIn(u), i > Len(s)
      PROVE  t[i - Len(s)] \notin Range(s)
  <2>1. i - Len(s) \in 1..Len(t) /\ u[i] = t[i - Len(s)]
    <3>1. i \in 1..(Len(s) + Len(t))
      BY <1>0 DEF KeptIn
    <3>2. i - Len(s) \in 1..Len(t) /\ i = Len(s) + (i - Len(s))
      BY <1>0, <1>2, <3>1
    <3> QED BY <1>0, <3>2
  <2>2. SUFFICES ASSUME NEW j \in 1..Len(s), s[j] = t[i - Len(s)] PROVE FALSE
    BY <1>0 DEF Range
  <2>3. i \in 1..(Len(s) + Len(t)) /\ j \in 1..(i - 1) /\ u[j] = s[j]
    BY <1>0, <1>2 DEF KeptIn
  <2> QED BY <2>1, <2>2, <2>3 DEF KeptIn
<1>3. ASSUME Range(t) \subseteq Range(s)
      PROVE  KeptIn(u) = KeptIn(s)
  <2>1. \A i \in KeptIn(u) : i \in 1..(Len(s) + Len(t))
    BY <1>0 DEF KeptIn
  <2>2. \A i \in 1..Len(t) : t[i] \in Range(s)
    BY <1>0, <1>3 DEF Range
  <2>3. \A i \in KeptIn(u) : i <= Len(s)
    <3> SUFFICES ASSUME NEW i \in KeptIn(u), i > Len(s) PROVE FALSE
      BY <1>0, <2>1
    <3>1. i - Len(s) \in 1..Len(t)
      BY <1>0, <2>1
    <3> QED BY <1>2, <2>2, <3>1
  <2>4. \A i \in KeptIn(u) : i \in 1..Len(s)
    BY <1>0, <2>1, <2>3
  <2>5. \A i \in KeptIn(s) : i \in 1..Len(s)
    BY <1>0 DEF KeptIn
  <2> QED BY <1>1, <2>4, <2>5
<1>4. ASSUME IsInjective(t), Range(t) \cap Range(s) = {}, NEW i \in 1..Len(t)
      PROVE  Len(s) + i \in KeptIn(u)
  <2>1. SUFFICES ASSUME NEW j \in 1..((Len(s) + i) - 1), u[j] = u[Len(s) + i] PROVE FALSE
    BY <1>0 DEF KeptIn
  <2>2. CASE j <= Len(s)
    <3>1. j \in 1..Len(s) /\ s[j] = t[i]
      BY <1>0, <2>1, <2>2
    <3>2. s[j] \in Range(s) /\ t[i] \in Range(t)
      BY <1>0, <3>1 DEF Range
    <3> QED BY <1>4, <3>1, <3>2
  <2>3. CASE j > Len(s)
    <3>1. j - Len(s) \in 1..Len(t) /\ j - Len(s) < i /\ j = Len(s) + (j - Len(s))
      BY <1>0, <2>1, <2>3
    <3>2. t[j - Len(s)] = t[i]
      BY <1>0, <2>1, <3>1
    <3>3. j - Len(s) \in DOMAIN t /\ i \in DOMAIN t /\ j - Len(s) # i
      BY <1>0, <3>1
    <3> QED BY <1>4, <3>2, <3>3, Zenon DEF IsInjective
  <2> QED BY <1>0, <2>2, <2>3
<1> QED BY <1>1, <1>2, <1>3, <1>4 DEF u

\* Every row equals a kept one that is not later.
LEMMA KeptFirst ==
  ASSUME NEW S, NEW s \in Seq(S), NEW i \in DOMAIN s
  PROVE  \E j \in KeptIn(s) : j <= i /\ s[j] = s[i]
<1> DEFINE E == {j \in DOMAIN s : s[j] = s[i]}
<1>1. E \in SUBSET Nat /\ i \in E
  OBVIOUS
<1>2. PICK j \in E : \A x \in E : j <= x
  <2> HIDE DEF E
  <2> QED BY <1>1, Least
<1>3. \A x \in 1..(j - 1) : s[x] # s[j]
  BY <1>2
<1> QED BY <1>1, <1>2, <1>3 DEF KeptIn

\* If one row is kept, there is a last one.
LEMMA KeptLast ==
  ASSUME NEW S, NEW s \in Seq(S), NEW i \in KeptIn(s)
  PROVE  \E j \in KeptIn(s) : \A x \in KeptIn(s) : x <= j
<1>1. KeptIn(s) \in SUBSET (0..Len(s)) /\ Len(s) \in Nat
  BY DEF KeptIn
<1> QED BY <1>1, Greatest
-----------------------------------------------------------------------------
(***************************************************************************)
(* What the archive may record.                                            *)
(***************************************************************************)
Claim == [bid : Bids \cup {None}, ask : Asks \cup {None}]

ClaimOf(r) == IF r.kind = "change" THEN [bid |-> r.bid, ask |-> r.ask] ELSE Unquoted

Quotes(b, quoted) ==
  IF quoted THEN [bid |-> BestBid(b), ask |-> BestAsk(b)] ELSE Unquoted

ChangeRows(got, quotes) ==
  [i \in DOMAIN got |-> [kind |-> "change", change |-> got[i], bid |-> quotes.bid, ask |-> quotes.ask]]

LEMMA QuotesType ==
  ASSUME NEW b \in Book, NEW quoted \in BOOLEAN
  PROVE  /\ Quotes(b, quoted) \in Claim /\ Unquoted \in Claim
         /\ Quotes(b, quoted).bid \in {None, BestBid(b)}
         /\ Quotes(b, quoted).ask \in {None, BestAsk(b)}
BY BestFacts DEF Quotes, Unquoted, Claim

\* The rows of a message, or what is left of them.
LEMMA MessageRows ==
  ASSUME NEW m \in Messages, NEW quotes \in Claim,
         NEW got \in {m.changes, Tail(m.changes), Front(m.changes), <<>>}
  PROVE  /\ m.changes \in Seq(Change) /\ Len(m.changes) \in Nat \ {0} /\ m.quoted \in BOOLEAN
         /\ got \in Seq(Change) /\ Len(got) \in 0..Len(m.changes)
         /\ Len(got) = Len(m.changes) => got = m.changes
         /\ ChangeRows(got, quotes) \in Seq(Row) /\ Len(ChangeRows(got, quotes)) = Len(got)
         /\ \A i \in 1..Len(got) :
              /\ got[i] \in Change
              /\ ChangeRows(got, quotes)[i].kind = "change"
              /\ ChangeRows(got, quotes)[i].change = got[i]
              /\ ChangeRows(got, quotes)[i].bid = quotes.bid
              /\ ChangeRows(got, quotes)[i].ask = quotes.ask
              /\ ClaimOf(ChangeRows(got, quotes)[i]) = quotes
<1>1. m.changes \in Seq(Change) /\ m.changes # <<>> /\ m.quoted \in BOOLEAN
  BY BookReplayAssumption
<1>2. Len(m.changes) \in Nat \ {0}
  BY <1>1
<1>3. /\ Tail(m.changes) \in Seq(Change) /\ Len(Tail(m.changes)) = Len(m.changes) - 1
      /\ Front(m.changes) \in Seq(Change) /\ Len(Front(m.changes)) = Len(m.changes) - 1
  BY <1>1, <1>2 DEF Front
<1>4. /\ got \in Seq(Change) /\ Len(got) \in 0..Len(m.changes)
      /\ Len(got) = Len(m.changes) => got = m.changes
  <2>1. CASE got = m.changes
    BY <1>1, <1>2, <2>1
  <2>2. CASE got = Tail(m.changes) \/ got = Front(m.changes)
    <3>1. Len(got) = Len(m.changes) - 1 /\ got \in Seq(Change)
      BY <1>3, <2>2
    <3>2. \A n \in Nat \ {0} : n - 1 \in 0..n /\ n - 1 # n
      OBVIOUS
    <3> QED BY <1>2, <3>1, <3>2
  <2>3. CASE got = <<>>
    BY <1>2, <2>3
  <2> QED BY <2>1, <2>2, <2>3
<1>5. \A i \in 1..Len(got) :
        /\ ChangeRows(got, quotes)[i] =
             [kind |-> "change", change |-> got[i], bid |-> quotes.bid, ask |-> quotes.ask]
        /\ got[i] \in Change
  BY <1>4 DEF ChangeRows
<1>6. \A i \in 1..Len(got) : ChangeRows(got, quotes)[i] \in Row
  <2> TAKE i \in 1..Len(got)
  <2>1. quotes.bid \in Bids \cup {None} /\ quotes.ask \in Asks \cup {None}
    BY DEF Claim
  <2>3. ChangeRows(got, quotes)[i] =
          [kind |-> "change", change |-> got[i], bid |-> quotes.bid, ask |-> quotes.ask]
    BY <1>5
  <2>4. got[i] \in Change
    BY <1>5
  <2>2. ChangeRows(got, quotes)[i] \in ChangeRow
    BY <2>1, <2>3, <2>4 DEF ChangeRow
  <2> QED BY <2>2 DEF Row
<1>7. ChangeRows(got, quotes) \in Seq(Row) /\ Len(ChangeRows(got, quotes)) = Len(got)
  <2>1. ChangeRows(got, quotes) \in [1..Len(got) -> Row] /\ Len(got) \in Nat
    <3>1. DOMAIN got = 1..Len(got) /\ Len(got) \in Nat
      BY <1>4
    <3>2. DOMAIN ChangeRows(got, quotes) = 1..Len(got)
      BY <3>1 DEF ChangeRows
    <3>3. ChangeRows(got, quotes) = [i \in 1..Len(got) |-> ChangeRows(got, quotes)[i]]
      BY <3>1 DEF ChangeRows
    <3> QED BY <1>6, <3>1, <3>3, Zenon
  <2> QED BY <2>1
<1>8. quotes = [bid |-> quotes.bid, ask |-> quotes.ask]
  BY DEF Claim
<1>9. \A i \in 1..Len(got) :
        /\ got[i] \in Change
        /\ ChangeRows(got, quotes)[i].kind = "change"
        /\ ChangeRows(got, quotes)[i].change = got[i]
        /\ ChangeRows(got, quotes)[i].bid = quotes.bid
        /\ ChangeRows(got, quotes)[i].ask = quotes.ask
        /\ ClaimOf(ChangeRows(got, quotes)[i]) = quotes
  <2> TAKE i \in 1..Len(got)
  <2> DEFINE r == ChangeRows(got, quotes)[i]
  <2>0. r = [kind |-> "change", change |-> got[i], bid |-> quotes.bid, ask |-> quotes.ask]
    BY <1>5
  <2>1. r.kind = "change" /\ r.change = got[i] /\ r.bid = quotes.bid /\ r.ask = quotes.ask
    BY <2>0
  <2>2. ClaimOf(r) = [bid |-> r.bid, ask |-> r.ask]
    BY <2>1 DEF ClaimOf
  <2>3. ClaimOf(r) = quotes
    <3> HIDE DEF r
    <3> QED BY <1>8, <2>1, <2>2
  <2> QED BY <1>5, <2>1, <2>3
<1> QED BY <1>1, <1>2, <1>4, <1>7, <1>9

-----------------------------------------------------------------------------
(***************************************************************************)
(* Types and places.                                                       *)
(***************************************************************************)

\* The rows of token k's batch that the replay is done with.
Replayed(k) == IF pc = "recording" THEN 0 ELSE next[k] - 1

Types ==
  /\ clock \in 0..(End - 1) /\ pc \in {"recording", "replay", "sampled", "done"}
  /\ real \in [Tokens -> Book] /\ venueTick \in [Tokens -> Ticks]
  /\ batch \in [Tokens -> Seq(Row)] /\ first \in [Tokens -> Nat \cup {None}]
  /\ claimed \in [Tokens -> Claim]
  /\ synced \in [Tokens -> BOOLEAN] /\ traded \in [Tokens -> BOOLEAN]
  /\ seen \in [Tokens -> BOOLEAN] /\ lost \in Nat /\ repeated \in BOOLEAN
  /\ next \in [Tokens -> Nat \ {0}] /\ conflict \subseteq Tokens
  /\ book \in [Tokens -> Book \cup {None}] /\ tick \in [Tokens -> Ticks \cup {None}]
  /\ since \in [Tokens -> Nat \cup {None}] /\ sample \in [Tokens -> Book \cup {None}]
  /\ gap \in [Tokens -> Nat \cup {None}]

LEMMA AddType ==
  ASSUME Types, NEW k \in Tokens, NEW new \in Seq(Row), NEW insync \in BOOLEAN, Add(k, new, insync)
  PROVE  /\ pc = "recording" /\ pc' = "recording"
         /\ batch' \in [Tokens -> Seq(Row)] /\ batch'[k] = batch[k] \o new
         /\ \A q \in Tokens \ {k} : batch'[q] = batch[q]
         /\ synced' \in [Tokens -> BOOLEAN] /\ synced'[k] = insync
         /\ \A q \in Tokens \ {k} : synced'[q] = synced[q]
         /\ seen' \in [Tokens -> BOOLEAN] /\ repeated' \in BOOLEAN
         /\ repeated' <=> repeated \/ ~Fresh(k, new)
         /\ UNCHANGED <<clock, pc, replay, resample, outcome>>
<1>1. batch[k] \o new \in Seq(Row)
  BY Concat DEF Types
<1> QED BY <1>1 DEF Types, Add, replay, resample

LEMMA RecordType ==
  ASSUME Types, NEW k \in Tokens, NEW new \in Seq(Row), NEW insync \in BOOLEAN,
         NEW quotes \in Claim, Record(k, new, insync, quotes)
  PROVE  /\ Add(k, new, insync)
         /\ claimed' \in [Tokens -> Claim] /\ traded' \in [Tokens -> BOOLEAN]
         /\ \A q \in Tokens \ {k} : claimed'[q] = claimed[q] /\ traded'[q] = traded[q]
         /\ Range(new) \subseteq Range(batch[k]) => claimed' = claimed /\ traded' = traded
         /\ ~(Range(new) \subseteq Range(batch[k])) => claimed'[k] = quotes /\ traded'[k] = FALSE
BY DEF Types, Record

LEMMA MessageStep ==
  ASSUME Types, NEW k \in Tokens, Message(k)
  PROVE  \E m \in Messages : \E got \in {m.changes, Tail(m.changes), Front(m.changes), <<>>} :
           LET after  == After(real[k], m.changes)
               quotes == Quotes(after, m.quoted)
               new    == ChangeRows(got, quotes)
           IN /\ after \in Book /\ quotes \in Claim /\ new \in Seq(Row)
              /\ ~Crossed(after) /\ real' = [real EXCEPT ![k] = after]
              /\ Record(k, new, synced[k] /\ got = m.changes /\ Fresh(k, new), quotes)
              /\ Lose(Len(m.changes) - Len(got))
              /\ UNCHANGED <<venueTick, first>>
<1>0. PICK m \in Messages : \E got \in {m.changes, Tail(m.changes), Front(m.changes), <<>>} :
        LET after  == After(real[k], m.changes)
            quotes == Quotes(after, m.quoted)
            new    == ChangeRows(got, quotes)
        IN /\ ~Crossed(after) /\ real' = [real EXCEPT ![k] = after]
           /\ Record(k, new, synced[k] /\ got = m.changes /\ Fresh(k, new), quotes)
           /\ Lose(Len(m.changes) - Len(got))
           /\ UNCHANGED <<venueTick, first>>
  BY DEF Message, Quotes, ChangeRows, Unquoted
<1>1. PICK got \in {m.changes, Tail(m.changes), Front(m.changes), <<>>} :
        LET after  == After(real[k], m.changes)
            quotes == Quotes(after, m.quoted)
            new    == ChangeRows(got, quotes)
        IN /\ ~Crossed(after) /\ real' = [real EXCEPT ![k] = after]
           /\ Record(k, new, synced[k] /\ got = m.changes /\ Fresh(k, new), quotes)
           /\ Lose(Len(m.changes) - Len(got))
           /\ UNCHANGED <<venueTick, first>>
  BY <1>0
<1>2. m.quoted \in BOOLEAN /\ real[k] \in Book
  BY BookReplayAssumption DEF Types
<1>3. After(real[k], m.changes) \in Book
  BY <1>2, AfterType
<1>4. Quotes(After(real[k], m.changes), m.quoted) \in Claim
  BY <1>2, <1>3, QuotesType
<1>5. ChangeRows(got, Quotes(After(real[k], m.changes), m.quoted)) \in Seq(Row)
  BY <1>4, MessageRows
<1> QED BY <1>1, <1>3, <1>4, <1>5

-----------------------------------------------------------------------------
(***************************************************************************)
(* One row replayed.                                                       *)
(***************************************************************************)

\* A row that leads to a state of the book, and the book of that state.
Usable(k) ==
  /\ next[k] \in Kept(k) /\ Event(k).kind # "trade"
  /\ Event(k).kind = "book" \/ book[k] # None

Result(k) ==
  CASE Event(k).kind = "book"   -> Event(k).book
    [] Event(k).kind = "change" -> Pruned(k, SetLevel(book[k], Event(k).change))
    [] OTHER                    -> book[k]

WrongTick(k) == Event(k).kind = "tick" /\ tick[k] \notin {None, Event(k).old}

Passed(k) ==
  ~Usable(k) /\ next' = [next EXCEPT ![k] = @ + 1] /\ UNCHANGED <<book, tick, since, conflict>>

Applied(k) ==
  /\ Usable(k) /\ ~Implausible(k, Result(k)) /\ ~WrongTick(k)
  /\ book' = [book EXCEPT ![k] = Result(k)] /\ since' = [since EXCEPT ![k] = clock]
  /\ tick' = [tick EXCEPT ![k] = IF Event(k).kind = "tick" THEN Event(k).new ELSE tick[k]]
  /\ next' = [next EXCEPT ![k] = @ + 1] /\ UNCHANGED conflict

Failed(k) ==
  /\ Usable(k)
  /\ Implausible(k, Result(k)) \/ WrongTick(k)
  /\ conflict' = conflict \cup {k} /\ UNCHANGED <<next, book, tick, since>>

LEMMA ReplayStep ==
  ASSUME Types, NEW k \in Tokens, Reconstruct(k)
  PROVE  /\ Replaying(k) /\ pc = "replay" /\ pc' = "replay"
         /\ UNCHANGED <<clock, venue, archive, resample, outcome>>
         /\ next[k] \in 1..Len(batch[k]) /\ Event(k) \in Row /\ k \notin conflict
         /\ Passed(k) \/ Applied(k) \/ Failed(k)
<1>1. CASE Skip(k)
  <2>1. Replaying(k) /\ UNCHANGED <<clock, venue, archive, resample, outcome>> /\ Passed(k) /\ pc' = pc
    BY <1>1 DEF Skip, Passed, Usable
  <2> QED BY <2>1 DEF Replaying, Event, Types
<1>2. CASE ApplyBook(k)
  <2>0. Replaying(k) /\ next[k] \in Kept(k) /\ Event(k).kind = "book" /\ Emit(k, Event(k).book, tick[k])
    BY <1>2 DEF ApplyBook, Processing
  <2>1. Usable(k) /\ Result(k) = Event(k).book /\ ~WrongTick(k)
    BY <2>0 DEF Usable, Result, WrongTick
  <2>2. UNCHANGED <<clock, venue, archive, resample, outcome>> /\ (Applied(k) \/ Failed(k)) /\ pc' = pc
    BY <2>0, <2>1 DEF Emit, Applied, Failed, Contradiction
  <2> QED BY <2>0, <2>2 DEF Replaying, Event, Types
<1>3. CASE ApplyChange(k)
  <2> DEFINE b == Pruned(k, SetLevel(book[k], Event(k).change))
  <2>0. /\ Replaying(k) /\ next[k] \in Kept(k) /\ Event(k).kind = "change"
        /\ book[k] # None /\ Emit(k, b, tick[k])
    BY <1>3 DEF ApplyChange, Processing
  <2>1. Usable(k) /\ Result(k) = b /\ ~WrongTick(k)
    BY <2>0 DEF Usable, Result, WrongTick
  <2> HIDE DEF b
  <2>2. UNCHANGED <<clock, venue, archive, resample, outcome>> /\ (Applied(k) \/ Failed(k)) /\ pc' = pc
    BY <2>0, <2>1 DEF Emit, Applied, Failed, Contradiction
  <2> QED BY <2>0, <2>2 DEF Replaying, Event, Types
<1>4. CASE ApplyTick(k)
  <2>0. /\ Replaying(k) /\ next[k] \in Kept(k) /\ Event(k).kind = "tick" /\ book[k] # None
        /\ \/ tick[k] \notin {None, Event(k).old} /\ Contradiction(k)
           \/ tick[k] \in {None, Event(k).old} /\ Emit(k, book[k], Event(k).new)
    BY <1>4 DEF ApplyTick, Processing
  <2>1. Usable(k) /\ Result(k) = book[k]
    BY <2>0 DEF Usable, Result
  <2>2. UNCHANGED <<clock, venue, archive, resample, outcome>> /\ (Applied(k) \/ Failed(k)) /\ pc' = pc
    BY <2>0, <2>1 DEF Emit, Applied, Failed, Contradiction, WrongTick
  <2> QED BY <2>0, <2>2 DEF Replaying, Event, Types
<1> QED BY <1>1, <1>2, <1>3, <1>4 DEF Reconstruct

LEMMA ResultType ==
  ASSUME Types, NEW k \in Tokens, Usable(k), Event(k) \in Row
  PROVE  Result(k) \in Book
<1>1. CASE Event(k).kind = "book"
  BY <1>1, RowFacts DEF Result
<1>2. CASE Event(k).kind = "change"
  <2>1. book[k] \in Book /\ Event(k).change \in Change
    BY <1>2, RowFacts DEF Usable, Types, ChangeRow
  <2>2. SetLevel(book[k], Event(k).change) \in Book
    BY <2>1, SetLevelType
  <2>3. Result(k) = Pruned(k, SetLevel(book[k], Event(k).change))
    BY <1>2 DEF Result
  <2>4. \A b \in Book : Pruned(k, b) \in Book
    BY DEF Pruned, Book
  <2> QED BY <2>2, <2>3, <2>4
<1>3. CASE Event(k).kind \notin {"book", "change"}
  BY <1>3 DEF Result, Usable, Types
<1> QED BY <1>1, <1>2, <1>3

-----------------------------------------------------------------------------
(***************************************************************************)
(* Types.                                                                  *)
(***************************************************************************)
LEMMA TypesInit == Init => Types
<1> SUFFICES ASSUME Init PROVE Types
  OBVIOUS
<1>1. Opening \subseteq Book /\ Begin \in Nat /\ End \in Nat /\ Begin < End
  BY BookReplayAssumption
<1>2. [bid |-> None, ask |-> None] \in Claim
  BY DEF Claim
<1>3. real \in [Tokens -> Book]
  BY <1>1 DEF Init
<1>4. batch \in [Tokens -> Seq(Row)]
  BY DEF Init
<1>5. claimed \in [Tokens -> Claim]
  BY <1>2 DEF Init
<1>6. clock \in 0..(End - 1) /\ pc \in {"recording", "replay", "sampled", "done"}
  BY <1>1 DEF Init
<1>7. venueTick \in [Tokens -> Ticks] /\ lost \in Nat /\ repeated \in BOOLEAN
  BY DEF Init
<1>8. /\ first \in [Tokens -> Nat \cup {None}] /\ since \in [Tokens -> Nat \cup {None}]
      /\ gap \in [Tokens -> Nat \cup {None}] /\ book \in [Tokens -> Book \cup {None}]
      /\ sample \in [Tokens -> Book \cup {None}] /\ tick \in [Tokens -> Ticks \cup {None}]
      /\ next \in [Tokens -> Nat \ {0}]
  BY DEF Init
<1>9. /\ synced \in [Tokens -> BOOLEAN] /\ traded \in [Tokens -> BOOLEAN]
      /\ seen \in [Tokens -> BOOLEAN] /\ conflict \subseteq Tokens
  BY DEF Init
<1> QED BY <1>3, <1>4, <1>5, <1>6, <1>7, <1>8, <1>9 DEF Types

LEMMA TypesSnapshot ==
  ASSUME Types, NEW k \in Tokens, Snapshot(k)
  PROVE  Types'
<1> DEFINE new == <<[kind |-> "book", book |-> real[k]]>>
<1>1. new \in Seq(Row)
  BY DEF Types, Row, BookRow
<1>2. Unquoted \in Claim
  BY DEF Unquoted, Claim
<1>3. Record(k, new, synced[k] \/ Fresh(k, new), Unquoted) /\ UNCHANGED <<venue, lost>>
  BY DEF Snapshot
<1>4. (synced[k] \/ Fresh(k, new)) \in BOOLEAN
  OBVIOUS
<1> HIDE DEF new
<1>5. /\ first' \in [Tokens -> Nat \cup {None}]
  <2>1. clock \in Nat /\ first' = [first EXCEPT ![k] = IF first[k] = None THEN clock ELSE first[k]]
    BY BookReplayAssumption DEF Snapshot, Types
  <2> QED BY <2>1 DEF Types
<1>6. Add(k, new, synced[k] \/ Fresh(k, new))
  BY <1>3 DEF Record
<1> QED BY <1>1, <1>2, <1>3, <1>4, <1>5, <1>6, AddType, RecordType DEF Types, venue, replay, resample

LEMMA TypesMessage ==
  ASSUME Types, NEW k \in Tokens, Message(k)
  PROVE  Types'
<1>1. PICK m \in Messages : \E got \in {m.changes, Tail(m.changes), Front(m.changes), <<>>} :
        LET after  == After(real[k], m.changes)
            quotes == Quotes(after, m.quoted)
            new    == ChangeRows(got, quotes)
        IN /\ after \in Book /\ quotes \in Claim /\ new \in Seq(Row)
           /\ ~Crossed(after) /\ real' = [real EXCEPT ![k] = after]
           /\ Record(k, new, synced[k] /\ got = m.changes /\ Fresh(k, new), quotes)
           /\ Lose(Len(m.changes) - Len(got))
           /\ UNCHANGED <<venueTick, first>>
  BY MessageStep
<1>2. PICK got \in {m.changes, Tail(m.changes), Front(m.changes), <<>>} :
        LET after  == After(real[k], m.changes)
            quotes == Quotes(after, m.quoted)
            new    == ChangeRows(got, quotes)
        IN /\ after \in Book /\ quotes \in Claim /\ new \in Seq(Row)
           /\ ~Crossed(after) /\ real' = [real EXCEPT ![k] = after]
           /\ Record(k, new, synced[k] /\ got = m.changes /\ Fresh(k, new), quotes)
           /\ Lose(Len(m.changes) - Len(got))
           /\ UNCHANGED <<venueTick, first>>
  BY <1>1
<1> DEFINE after  == After(real[k], m.changes)
           quotes == Quotes(after, m.quoted)
           new    == ChangeRows(got, quotes)
           insync == synced[k] /\ got = m.changes /\ Fresh(k, new)
<1>3. /\ after \in Book /\ quotes \in Claim /\ new \in Seq(Row)
      /\ real' = [real EXCEPT ![k] = after] /\ Record(k, new, insync, quotes)
      /\ UNCHANGED <<venueTick, first>> /\ lost' = lost + (Len(m.changes) - Len(got))
  BY <1>2 DEF Lose
<1>4. Len(m.changes) - Len(got) \in Nat
  <2>1. Len(got) \in 0..Len(m.changes) /\ Len(m.changes) \in Nat
    BY <1>3, MessageRows
  <2> QED BY <2>1
<1>5. insync \in BOOLEAN
  OBVIOUS
<1> HIDE DEF after, quotes, new, insync
<1>6. Add(k, new, insync)
  BY <1>3 DEF Record
<1>7. real' \in [Tokens -> Book] /\ lost' \in Nat
  BY <1>3, <1>4 DEF Types
<1>8. /\ claimed' \in [Tokens -> Claim] /\ traded' \in [Tokens -> BOOLEAN]
  BY <1>3, <1>5, RecordType
<1>9. /\ batch' \in [Tokens -> Seq(Row)] /\ synced' \in [Tokens -> BOOLEAN]
      /\ seen' \in [Tokens -> BOOLEAN] /\ repeated' \in BOOLEAN
      /\ UNCHANGED <<clock, pc, replay, resample, outcome>>
  BY <1>3, <1>5, <1>6, AddType
<1> QED BY <1>3, <1>7, <1>8, <1>9 DEF Types, replay, resample

LEMMA TickStep ==
  ASSUME Types, NEW k \in Tokens, TickSize(k)
  PROVE  \E n \in Ticks \ {venueTick[k]} : \E got \in 0..1 :
           LET new == [i \in 1..got |-> [kind |-> "tick", old |-> venueTick[k], new |-> n]] IN
           /\ new \in Seq(Row) /\ Len(new) = got /\ venueTick' = [venueTick EXCEPT ![k] = n]
           /\ Record(k, new, synced[k], Unquoted) /\ Unquoted \in Claim
           /\ lost' = lost + (1 - got)
           /\ UNCHANGED <<real, first>>
<1>1. PICK n \in Ticks \ {venueTick[k]}, got \in 0..1 :
        LET new == [i \in 1..got |-> [kind |-> "tick", old |-> venueTick[k], new |-> n]] IN
           /\ venueTick' = [venueTick EXCEPT ![k] = n]
           /\ Record(k, new, synced[k], Unquoted)
           /\ lost' = lost + (1 - got)
           /\ UNCHANGED <<real, first>>
  BY DEF TickSize, Lose
<1>2. [kind |-> "tick", old |-> venueTick[k], new |-> n] \in Row
  BY DEF Types, Row, TickRow
<1> DEFINE new == [i \in 1..got |-> [kind |-> "tick", old |-> venueTick[k], new |-> n]]
<1>3. new \in [1..got -> Row] /\ got \in Nat
  BY <1>2
<1>4. new \in Seq(Row) /\ Len(new) = got
  <2> HIDE DEF new
  <2>1. DOMAIN new = 1..got
    BY <1>3
  <2> QED BY <1>3, <2>1
<1>5. Unquoted \in Claim
  BY DEF Unquoted, Claim
<1> QED BY <1>1, <1>4, <1>5

LEMMA TypesTick ==
  ASSUME Types, NEW k \in Tokens, TickSize(k)
  PROVE  Types'
<1>1. PICK n \in Ticks \ {venueTick[k]} : \E got \in 0..1 :
        LET new == [i \in 1..got |-> [kind |-> "tick", old |-> venueTick[k], new |-> n]] IN
           /\ new \in Seq(Row) /\ Len(new) = got /\ venueTick' = [venueTick EXCEPT ![k] = n]
           /\ Record(k, new, synced[k], Unquoted) /\ Unquoted \in Claim
           /\ lost' = lost + (1 - got)
           /\ UNCHANGED <<real, first>>
  BY TickStep
<1>2. PICK got \in 0..1 :
        LET new == [i \in 1..got |-> [kind |-> "tick", old |-> venueTick[k], new |-> n]] IN
           /\ new \in Seq(Row) /\ Len(new) = got /\ venueTick' = [venueTick EXCEPT ![k] = n]
           /\ Record(k, new, synced[k], Unquoted) /\ Unquoted \in Claim
           /\ lost' = lost + (1 - got)
           /\ UNCHANGED <<real, first>>
  BY <1>1
<1> DEFINE new == [i \in 1..got |-> [kind |-> "tick", old |-> venueTick[k], new |-> n]]
<1>3. /\ new \in Seq(Row) /\ venueTick' = [venueTick EXCEPT ![k] = n]
      /\ Record(k, new, synced[k], Unquoted) /\ Unquoted \in Claim
      /\ lost' = lost + (1 - got)
      /\ UNCHANGED <<real, first>>
  BY <1>2
<1>4. synced[k] \in BOOLEAN
  BY DEF Types
<1> HIDE DEF new
<1>5. Add(k, new, synced[k])
  BY <1>3 DEF Record
<1>6. venueTick' \in [Tokens -> Ticks] /\ lost' \in Nat
  BY <1>3 DEF Types
<1>8. /\ claimed' \in [Tokens -> Claim] /\ traded' \in [Tokens -> BOOLEAN]
  BY <1>3, <1>4, RecordType
<1>9. /\ batch' \in [Tokens -> Seq(Row)] /\ synced' \in [Tokens -> BOOLEAN]
      /\ seen' \in [Tokens -> BOOLEAN] /\ repeated' \in BOOLEAN
      /\ UNCHANGED <<clock, pc, replay, resample, outcome>>
  BY <1>3, <1>4, <1>5, AddType
<1> QED BY <1>3, <1>6, <1>8, <1>9 DEF Types, replay, resample

LEMMA TradeStep ==
  ASSUME Types, NEW k \in Tokens, Trade(k)
  PROVE  /\ <<[kind |-> "trade"]>> \in Seq(Row) /\ Add(k, <<[kind |-> "trade"]>>, synced[k])
         /\ traded' \in [Tokens -> BOOLEAN]
         /\ \A q \in Tokens \ {k} : traded'[q] = traded[q]
         /\ traded'[k] <=> traded[k] \/ \E r \in Range(batch[k]) : r.kind # "trade"
         /\ UNCHANGED <<venue, first, lost, claimed>>
<1>1. [kind |-> "trade"] \in Row
  BY DEF Row, TradeRow
<1>2. <<[kind |-> "trade"]>> \in Seq(Row)
  BY <1>1
<1>3. /\ Add(k, <<[kind |-> "trade"]>>, synced[k])
      /\ traded' = [traded EXCEPT ![k] = @ \/ \E r \in Range(batch[k]) : r.kind # "trade"]
      /\ UNCHANGED <<venue, first, lost, claimed>>
  BY DEF Trade
<1>4. \A q \in Tokens : traded[q] \in BOOLEAN
  BY DEF Types
<1> DEFINE e == \E r \in Range(batch[k]) : r.kind # "trade"
<1>5. traded' = [traded EXCEPT ![k] = traded[k] \/ e] /\ (traded[k] \/ e) \in BOOLEAN
  BY <1>3
<1> HIDE DEF e
<1>6. /\ traded' \in [Tokens -> BOOLEAN]
      /\ traded'[k] <=> traded[k] \/ e
      /\ \A q \in Tokens \ {k} : traded'[q] = traded[q]
  BY <1>4, <1>5, Zenon DEF Types
<1> QED BY <1>2, <1>3, <1>6 DEF e

LEMMA TypesTrade ==
  ASSUME Types, NEW k \in Tokens, Trade(k)
  PROVE  Types'
<1> DEFINE new == <<[kind |-> "trade"]>>
<1>1. /\ new \in Seq(Row) /\ Add(k, new, synced[k]) /\ traded' \in [Tokens -> BOOLEAN]
      /\ UNCHANGED <<venue, first, lost, claimed>>
  BY TradeStep
<1>2. synced[k] \in BOOLEAN
  BY DEF Types
<1> HIDE DEF new
<1> QED BY <1>1, <1>2, AddType DEF Types, venue, replay, resample

LEMMA TypesReplay ==
  ASSUME Types, NEW k \in Tokens, Reconstruct(k)
  PROVE  Types'
<1>1. /\ pc' = "replay" /\ UNCHANGED <<clock, venue, archive, resample, outcome>>
      /\ Event(k) \in Row
      /\ Passed(k) \/ Applied(k) \/ Failed(k)
  BY ReplayStep
<1>2. CASE Passed(k) \/ Failed(k)
  <2>1. /\ next' \in [Tokens -> Nat \ {0}] /\ conflict' \subseteq Tokens
        /\ UNCHANGED <<book, tick, since>>
    <3>1. CASE Passed(k)
      BY <3>1 DEF Types, Passed
    <3>2. CASE Failed(k)
      BY <3>2 DEF Types, Failed
    <3> QED BY <1>2, <3>1, <3>2
  <2> QED BY <1>1, <2>1 DEF Types, venue, archive, resample
<1>3. CASE Applied(k)
  <2>1. Result(k) \in Book
    BY <1>1, <1>3, ResultType DEF Applied
  <2>2. Event(k).kind = "tick" => Event(k).new \in Ticks
    BY <1>1, RowFacts
  <2>3. clock \in Nat
    BY BookReplayAssumption DEF Types
  <2>4. book' \in [Tokens -> Book \cup {None}] /\ tick' \in [Tokens -> Ticks \cup {None}]
        /\ since' \in [Tokens -> Nat \cup {None}] /\ next' \in [Tokens -> Nat \ {0}]
        /\ conflict' \subseteq Tokens
    BY <1>3, <2>1, <2>2, <2>3 DEF Applied, Types
  <2> QED BY <1>1, <2>4 DEF Types, venue, archive, resample
<1> QED BY <1>1, <1>2, <1>3

LEMMA TypesNext == Types /\ [Next]_vars => Types'
<1> SUFFICES ASSUME Types, [Next]_vars PROVE Types'
  OBVIOUS
<1>0. Busy \subseteq Tokens
  BY BookReplayAssumption
<1>1. CASE Deliver
  BY <1>1 DEF Deliver, Types, venue, archive, resample
<1>2. CASE \E k \in Tokens : Snapshot(k)
  BY <1>2, TypesSnapshot
<1>3. CASE \E k \in Busy : Message(k) \/ TickSize(k) \/ Trade(k)
  BY <1>0, <1>3, TypesMessage, TypesTick, TypesTrade
<1>4. CASE Sample
  <2>1. clock \in Nat
    BY BookReplayAssumption DEF Types
  <2>2. CASE clock \in Grid
    BY <1>4, <2>1, <2>2 DEF Sample, Types, venue, archive, replay
  <2>3. CASE clock \notin Grid
    BY <1>4, <2>3 DEF Sample, Types, venue, archive, replay, resample
  <2> QED BY <2>2, <2>3
<1>5. CASE Pass
  <2>1. clock' \in 0..(End - 1)
    BY <1>5, BookReplayAssumption DEF Pass, Types
  <2>2. batch' \in [Tokens -> Seq(Row)]
    BY <1>5 DEF Pass
  <2> QED BY <1>5, <2>1, <2>2 DEF Pass, Types, venue, replay, resample
<1>6. CASE Conclude
  BY <1>6 DEF Conclude, Types, venue, archive, replay
<1>7. CASE \E k \in Tokens : Reconstruct(k)
  BY <1>7, TypesReplay
<1>8. CASE UNCHANGED vars
  BY <1>8 DEF vars, venue, archive, replay, resample, Types
<1> QED BY <1>1, <1>2, <1>3, <1>4, <1>5, <1>6, <1>7, <1>8 DEF Next, Live, Transform

\* The replay handles rows, books, quotes and tick sizes of the right kinds, and
\* time ends with the market.
THEOREM BookReplayTypes == Spec => []Types
<1> QED BY TypesInit, TypesNext, PTL DEF Spec

-----------------------------------------------------------------------------
(***************************************************************************)
(* Where the replay stands.                                                *)
(***************************************************************************)

\* The replay is never beyond the batch, it has a book exactly if it has met a
\* snapshot, and it is through when the grid is sampled.
PlaceInv ==
  /\ \A k \in Tokens : Replayed(k) <= Len(batch[k])
  /\ \A k \in Tokens : book[k] = None <=> since[k] = None
  /\ pc \in {"sampled", "done"} => \A k \in Tokens \ conflict : Replayed(k) = Len(batch[k])
  /\ pc # "done" => outcome = "none"

\* Once a snapshot is recorded the replay has a book, or it has yet to meet it.
FirstInv ==
  \A k \in Tokens :
    /\ \A i \in DOMAIN batch[k] : batch[k][i].kind = "book" => first[k] # None
    /\ since[k] # None => first[k] # None
    /\ first[k] # None => first[k] <= clock
    /\ first[k] # None /\ since[k] = None /\ k \notin conflict =>
         \E i \in Kept(k) : i > Replayed(k) /\ batch[k][i].kind = "book"

\* The archive records rows of token k.
Grows(k, new) ==
  /\ pc = "recording" /\ pc' = "recording"
  /\ batch'[k] = batch[k] \o new /\ \A q \in Tokens \ {k} : batch'[q] = batch[q]
  /\ UNCHANGED <<clock, next, book, tick, since, conflict, sample, gap, gaps, outcome>>

\* Its first snapshot comes now, or had come before.
Opens(k, new) ==
  /\ new = <<[kind |-> "book", book |-> real[k]]>>
  /\ first' = IF first[k] = None THEN [first EXCEPT ![k] = clock] ELSE first

Plain(new) == \A i \in DOMAIN new : new[i].kind # "book"

LEMMA MessagePlain ==
  ASSUME NEW m \in Messages, NEW quotes \in Claim,
         NEW got \in {m.changes, Tail(m.changes), Front(m.changes), <<>>}
  PROVE  Plain(ChangeRows(got, quotes))
<1> DEFINE new == ChangeRows(got, quotes)
<1>1. /\ new \in Seq(Row) /\ Len(new) = Len(got)
  BY MessageRows
<1>3. \A i \in 1..Len(got) : new[i].kind = "change"
  BY DEF ChangeRows
<1> HIDE DEF new
<1>2. DOMAIN new = 1..Len(got)
  BY <1>1
<1>4. Plain(new)
  BY <1>1, <1>2, <1>3 DEF Plain
<1> QED BY <1>4 DEF new

LEMMA LiveStep ==
  ASSUME Types, NEW k \in Tokens, Snapshot(k) \/ Message(k) \/ TickSize(k) \/ Trade(k)
  PROVE  \E new \in Seq(Row) : Grows(k, new) /\ (Opens(k, new) \/ (Plain(new) /\ first' = first))
<1>0. ASSUME NEW new \in Seq(Row), NEW insync \in BOOLEAN, Add(k, new, insync)
      PROVE  Grows(k, new)
  BY <1>0, AddType DEF Grows, replay, resample
<1>1. CASE Snapshot(k)
  <2> DEFINE new == <<[kind |-> "book", book |-> real[k]]>>
  <2>1. new \in Seq(Row)
    BY DEF Types, Row, BookRow
  <2>2. Add(k, new, synced[k] \/ Fresh(k, new))
    BY <1>1 DEF Snapshot, Record
  <2>3. first' = [first EXCEPT ![k] = IF @ = None THEN clock ELSE @] /\ first \in [Tokens -> Nat \cup {None}]
    BY <1>1 DEF Snapshot, Types
  <2>4. Opens(k, new)
    BY <2>3 DEF Opens
  <2> HIDE DEF new
  <2> QED BY <1>0, <2>1, <2>2, <2>4
<1>2. CASE Message(k)
  <2>1. PICK m \in Messages : \E got \in {m.changes, Tail(m.changes), Front(m.changes), <<>>} :
          LET after  == After(real[k], m.changes)
              quotes == Quotes(after, m.quoted)
              new    == ChangeRows(got, quotes)
          IN /\ after \in Book /\ quotes \in Claim /\ new \in Seq(Row)
             /\ ~Crossed(after) /\ real' = [real EXCEPT ![k] = after]
             /\ Record(k, new, synced[k] /\ got = m.changes /\ Fresh(k, new), quotes)
             /\ Lose(Len(m.changes) - Len(got))
             /\ UNCHANGED <<venueTick, first>>
    BY <1>2, MessageStep
  <2>2. PICK got \in {m.changes, Tail(m.changes), Front(m.changes), <<>>} :
          LET after  == After(real[k], m.changes)
              quotes == Quotes(after, m.quoted)
              new    == ChangeRows(got, quotes)
          IN /\ quotes \in Claim /\ new \in Seq(Row)
             /\ Record(k, new, synced[k] /\ got = m.changes /\ Fresh(k, new), quotes)
             /\ first' = first
    BY <2>1
  <2> DEFINE quotes == Quotes(After(real[k], m.changes), m.quoted)
             new == ChangeRows(got, quotes)
  <2>3. /\ quotes \in Claim /\ new \in Seq(Row) /\ first' = first
        /\ Add(k, new, synced[k] /\ got = m.changes /\ Fresh(k, new))
    BY <2>2 DEF Record
  <2>4. Plain(new)
    <3> HIDE DEF quotes
    <3> QED BY <2>3, MessagePlain
  <2> HIDE DEF quotes, new
  <2> QED BY <1>0, <2>3, <2>4
<1>3. CASE TickSize(k)
  <2>1. PICK n \in Ticks \ {venueTick[k]} : \E got \in 0..1 :
          LET new == [i \in 1..got |-> [kind |-> "tick", old |-> venueTick[k], new |-> n]] IN
             /\ new \in Seq(Row) /\ Len(new) = got /\ venueTick' = [venueTick EXCEPT ![k] = n]
             /\ Record(k, new, synced[k], Unquoted) /\ Unquoted \in Claim
             /\ lost' = lost + (1 - got)
             /\ UNCHANGED <<real, first>>
    BY <1>3, TickStep
  <2>2. PICK got \in 0..1 :
          LET new == [i \in 1..got |-> [kind |-> "tick", old |-> venueTick[k], new |-> n]] IN
             new \in Seq(Row) /\ Record(k, new, synced[k], Unquoted) /\ first' = first
    BY <2>1
  <2> DEFINE new == [i \in 1..got |-> [kind |-> "tick", old |-> venueTick[k], new |-> n]]
  <2>3. new \in Seq(Row) /\ Add(k, new, synced[k]) /\ first' = first
    BY <2>2 DEF Record
  <2>4. Plain(new) /\ synced[k] \in BOOLEAN
    BY DEF Plain, Types
  <2> HIDE DEF new
  <2> QED BY <1>0, <2>3, <2>4
<1>4. CASE Trade(k)
  <2> DEFINE new == <<[kind |-> "trade"]>>
  <2>1. new \in Seq(Row) /\ Add(k, new, synced[k]) /\ first' = first
    BY <1>4, TradeStep
  <2>2. Plain(new) /\ synced[k] \in BOOLEAN
    BY DEF Plain, Types
  <2> HIDE DEF new
  <2> QED BY <1>0, <2>1, <2>2
<1> QED BY <1>1, <1>2, <1>3, <1>4

LEMMA PlaceInit == Init => PlaceInv /\ FirstInv
BY DEF Init, PlaceInv, FirstInv, Replayed, Kept

LEMMA PlaceGrows ==
  ASSUME Types, PlaceInv, FirstInv, NEW k \in Tokens, NEW new \in Seq(Row),
         Grows(k, new), Opens(k, new) \/ (Plain(new) /\ first' = first)
  PROVE  PlaceInv' /\ FirstInv'
<1>0. /\ batch[k] \in Seq(Row) /\ \A q \in Tokens : Len(batch[q]) \in Nat
      /\ Len(batch'[k]) \in Nat
      /\ \A q \in Tokens : Replayed(q)' = 0
      /\ \A q \in Tokens : Replayed(q) = 0
  <2>1. \A q \in Tokens : batch[q] \in Seq(Row)
    BY DEF Types
  <2>2. batch'[k] \in Seq(Row)
    BY <2>1, Concat DEF Grows
  <2> QED BY <2>1, <2>2 DEF Grows, Replayed
<1>1. PlaceInv'
  <2>1. \A q \in Tokens : Replayed(q)' <= Len(batch[q]')
    <3> TAKE q \in Tokens
    <3>1. CASE q = k
      BY <1>0, <3>1
    <3>2. CASE q # k
      BY <1>0, <3>2 DEF Grows
    <3> QED BY <3>1, <3>2
  <2> QED BY <2>1 DEF PlaceInv, Grows
<1>2. /\ \A i \in 1..Len(batch[k]) : batch'[k][i] = batch[k][i] /\ (i \in KeptIn(batch[k]) => i \in KeptIn(batch'[k]))
      /\ DOMAIN batch'[k] = 1..(Len(batch[k]) + Len(new)) /\ Len(new) \in Nat
      /\ \A i \in 1..Len(new) : batch'[k][Len(batch[k]) + i] = new[i]
      /\ batch'[k] \in Seq(Row)
      /\ DOMAIN batch[k] = 1..Len(batch[k]) /\ DOMAIN new = 1..Len(new)
  BY <1>0, Concat, KeptGrows DEF Grows
<1>3. ASSUME NEW i \in DOMAIN batch'[k], batch'[k][i].kind = "book", Plain(new)
      PROVE  first[k] # None
  <2>1. CASE i <= Len(batch[k])
    <3>1. i \in 1..Len(batch[k])
      BY <1>0, <1>2, <2>1
    <3> QED BY <1>2, <1>3, <3>1 DEF FirstInv
  <2>2. CASE i > Len(batch[k])
    <3>1. i - Len(batch[k]) \in 1..Len(new) /\ i = Len(batch[k]) + (i - Len(batch[k]))
      BY <1>0, <1>2, <2>2
    <3> QED BY <1>2, <1>3, <3>1 DEF Plain
  <2> QED BY <1>0, <1>2, <2>1, <2>2
<1>4. Opens(k, new) => first'[k] # None
  BY BookReplayAssumption DEF Opens, Types
<1>5. /\ \A q \in Tokens \ {k} : first'[q] = first[q]
      /\ first'[k] = first[k] \/ (first[k] = None /\ first'[k] = clock /\ Opens(k, new))
  BY DEF Opens, Types
<1>6. clock \in Nat
  BY BookReplayAssumption DEF Types
<1>7. ASSUME first'[k] # None, since[k] = None, k \notin conflict
      PROVE  \E i \in KeptIn(batch'[k]) : i > 0 /\ batch'[k][i].kind = "book"
  <2>1. CASE first[k] # None
    <3>1. PICK i \in Kept(k) : i > 0 /\ batch[k][i].kind = "book"
      BY <1>0, <1>7, <2>1 DEF FirstInv
    <3>2. i \in KeptIn(batch[k]) /\ i \in 1..Len(batch[k])
      BY <1>2, <3>1 DEF Kept, KeptIn
    <3> QED BY <1>2, <3>1, <3>2
  <2>2. CASE first[k] = None
    <3>1. Opens(k, new)
      BY <1>5, <1>7, <2>2
    <3>2. Len(new) = 1 /\ new[1].kind = "book"
      BY <3>1 DEF Opens
    <3>3. Len(batch[k]) + 1 \in DOMAIN batch'[k] /\ batch'[k][Len(batch[k]) + 1].kind = "book"
      BY <1>0, <1>2, <3>2
    <3>4. PICK j \in KeptIn(batch'[k]) : batch'[k][j] = batch'[k][Len(batch[k]) + 1]
      BY <1>2, <3>3, KeptFirst
    <3>5. j > 0
      BY <1>2, <3>4 DEF KeptIn
    <3> QED BY <3>3, <3>4, <3>5
  <2> QED BY <2>1, <2>2
<1>8. FirstInv'
  <2> SUFFICES ASSUME NEW q \in Tokens
      PROVE  /\ \A i \in DOMAIN batch'[q] : batch'[q][i].kind = "book" => first'[q] # None
             /\ since'[q] # None => first'[q] # None
             /\ first'[q] # None => first'[q] <= clock'
             /\ first'[q] # None /\ since'[q] = None /\ q \notin conflict' =>
                  \E i \in Kept(q)' : i > Replayed(q)' /\ batch'[q][i].kind = "book"
    BY DEF FirstInv
  <2>0. UNCHANGED <<since, conflict, clock>> /\ Kept(q)' = KeptIn(batch'[q])
    BY DEF Grows, Kept, KeptIn
  <2>1. CASE q = k
    <3>1. \A i \in DOMAIN batch'[k] : batch'[k][i].kind = "book" => first'[k] # None
      BY <1>3, <1>4, <1>5
    <3>2. since[k] # None => first'[k] # None
      BY <1>4, <1>5 DEF FirstInv
    <3>3. first'[k] # None => first'[k] <= clock
      BY <1>5, <1>6 DEF FirstInv
    <3> QED BY <1>0, <1>7, <2>0, <2>1, <3>1, <3>2, <3>3
  <2>2. CASE q # k
    <3>1. batch'[q] = batch[q] /\ first'[q] = first[q] /\ Kept(q) = KeptIn(batch[q])
      BY <1>5, <2>2 DEF Grows, Kept, KeptIn
    <3> QED BY <1>0, <2>0, <3>1 DEF FirstInv
  <2> QED BY <2>1, <2>2
<1> QED BY <1>1, <1>8

LEMMA PlaceReplay ==
  ASSUME Types, PlaceInv, FirstInv, NEW k \in Tokens, Reconstruct(k)
  PROVE  PlaceInv' /\ FirstInv'
<1>0. /\ pc = "replay" /\ pc' = "replay" /\ Event(k) \in Row /\ k \notin conflict
      /\ next[k] \in 1..Len(batch[k])
      /\ UNCHANGED <<clock, batch, first, outcome>>
      /\ Passed(k) \/ Applied(k) \/ Failed(k)
  BY ReplayStep DEF archive
<1>1. /\ \A q \in Tokens : next[q] \in Nat \ {0} /\ Len(batch[q]) \in Nat /\ batch[q] \in Seq(Row)
      /\ \A q \in Tokens : Replayed(q) = next[q] - 1 /\ Replayed(q)' = next'[q] - 1
      /\ \A q \in Tokens : Kept(q)' = Kept(q) /\ Kept(q) \subseteq 1..Len(batch[q])
  BY <1>0 DEF Types, Replayed, Kept
<1>2. clock \in Nat
  BY BookReplayAssumption DEF Types
<1>3. \A q \in Tokens \ {k} :
        next'[q] = next[q] /\ book'[q] = book[q] /\ since'[q] = since[q] /\ (q \in conflict' <=> q \in conflict)
  BY <1>0 DEF Passed, Applied, Failed, Types
<1>4. /\ Replayed(k)' <= Len(batch'[k])
      /\ book'[k] = None <=> since'[k] = None
  <2>1. CASE Failed(k)
    BY <1>0, <1>1, <2>1 DEF Failed, PlaceInv
  <2>2. CASE Passed(k)
    BY <1>0, <1>1, <2>2 DEF Passed, PlaceInv, Types
  <2>3. CASE Applied(k)
    <3>1. Result(k) \in Book
      BY <1>0, <2>3, ResultType DEF Applied
    <3>2. book'[k] = Result(k) /\ since'[k] = clock /\ next'[k] = next[k] + 1
      BY <2>3 DEF Applied, Types
    <3>3. Result(k) # None /\ clock # None
      BY <1>2, <3>1, BookReplayAssumption
    <3> QED BY <1>0, <1>1, <3>2, <3>3
  <2> QED BY <1>0, <2>1, <2>2, <2>3
<1>5. PlaceInv'
  <2>1. \A q \in Tokens : Replayed(q)' <= Len(batch'[q])
    <3> TAKE q \in Tokens
    <3>1. CASE q # k
      BY <1>0, <1>1, <1>3, <3>1 DEF PlaceInv
    <3> QED BY <1>4, <3>1
  <2>2. \A q \in Tokens : book'[q] = None <=> since'[q] = None
    BY <1>3, <1>4 DEF PlaceInv
  <2> QED BY <1>0, <2>1, <2>2 DEF PlaceInv
<1>6. next[k] \in Kept(k) /\ Event(k).kind = "book" => Usable(k)
  BY DEF Usable
<1>7. /\ since'[k] # None => first[k] # None
      /\ first[k] # None /\ since'[k] = None /\ k \notin conflict' =>
           \E i \in Kept(k) : i > Replayed(k)' /\ batch[k][i].kind = "book"
  <2>1. CASE Failed(k)
    BY <1>0, <2>1 DEF Failed, FirstInv
  <2>2. CASE Passed(k)
    <3>1. since'[k] = since[k] /\ next'[k] = next[k] + 1 /\ ~Usable(k)
      BY <2>2 DEF Passed, Types
    <3>2. ASSUME first[k] # None, since[k] = None
          PROVE  \E i \in Kept(k) : i > Replayed(k)' /\ batch[k][i].kind = "book"
      <4>1. PICK i \in Kept(k) : i > Replayed(k) /\ batch[k][i].kind = "book"
        BY <1>0, <3>2 DEF FirstInv
      <4>2. i # next[k]
        BY <1>6, <3>1, <4>1 DEF Event
      <4>3. i > Replayed(k)'
        BY <1>1, <3>1, <4>1, <4>2
      <4> QED BY <4>1, <4>3
    <3> QED BY <3>1, <3>2 DEF FirstInv
  <2>3. CASE Applied(k)
    <3>1. Usable(k) /\ since'[k] # None
      BY <1>2, <2>3, BookReplayAssumption DEF Applied, Types
    <3>2. CASE Event(k).kind = "book"
      BY <1>0, <1>1, <3>1, <3>2 DEF FirstInv, Event
    <3>3. CASE book[k] # None
      BY <3>1, <3>3 DEF FirstInv, PlaceInv
    <3> QED BY <3>1, <3>2, <3>3 DEF Usable
  <2> QED BY <1>0, <2>1, <2>2, <2>3
<1>8. FirstInv'
  <2> SUFFICES ASSUME NEW q \in Tokens
      PROVE  /\ \A i \in DOMAIN batch'[q] : batch'[q][i].kind = "book" => first'[q] # None
             /\ since'[q] # None => first'[q] # None
             /\ first'[q] # None => first'[q] <= clock'
             /\ first'[q] # None /\ since'[q] = None /\ q \notin conflict' =>
                  \E i \in Kept(q)' : i > Replayed(q)' /\ batch'[q][i].kind = "book"
    BY DEF FirstInv
  <2>1. CASE q = k
    BY <1>0, <1>1, <1>7, <2>1 DEF FirstInv
  <2>2. CASE q # k
    BY <1>0, <1>1, <1>3, <2>2 DEF FirstInv
  <2> QED BY <2>1, <2>2
<1> QED BY <1>5, <1>8

LEMMA PlaceNext == Types /\ PlaceInv /\ FirstInv /\ [Next]_vars => PlaceInv' /\ FirstInv'
<1> SUFFICES ASSUME Types, PlaceInv, FirstInv, [Next]_vars PROVE PlaceInv' /\ FirstInv'
  OBVIOUS
<1>0. /\ Busy \subseteq Tokens
      /\ \A q \in Tokens : next[q] \in Nat \ {0} /\ batch[q] \in Seq(Row) /\ Len(batch[q]) \in Nat
  BY BookReplayAssumption DEF Types
<1>1. CASE Deliver
  <2>1. /\ pc = "recording" /\ pc' = "replay" /\ \A q \in Tokens : next'[q] = 1
        /\ UNCHANGED <<clock, batch, first, book, since, conflict, outcome>>
    BY <1>1 DEF Deliver, archive
  <2>2. \A q \in Tokens : Replayed(q) = 0 /\ Replayed(q)' = 0 /\ Kept(q)' = Kept(q)
    BY <2>1 DEF Replayed, Kept
  <2> QED BY <1>0, <2>1, <2>2 DEF PlaceInv, FirstInv
<1>2. CASE \E k \in Tokens : Snapshot(k) \/ Message(k) \/ TickSize(k) \/ Trade(k)
  <2>1. PICK k \in Tokens : Snapshot(k) \/ Message(k) \/ TickSize(k) \/ Trade(k)
    BY <1>2
  <2>2. PICK new \in Seq(Row) : Grows(k, new) /\ (Opens(k, new) \/ (Plain(new) /\ first' = first))
    BY <2>1, LiveStep
  <2> QED BY <2>2, PlaceGrows
<1>3. CASE Sample
  <2>1. /\ pc = "replay" /\ pc' = "sampled" /\ \A q \in Tokens : ~Replaying(q)
        /\ UNCHANGED <<clock, batch, first, next, book, since, conflict, outcome>>
    BY <1>3 DEF Sample, archive, replay
  <2>2. \A q \in Tokens : Replayed(q)' = Replayed(q) /\ Kept(q)' = Kept(q) /\ Replayed(q) = next[q] - 1
    BY <2>1 DEF Replayed, Kept
  <2>3. \A q \in Tokens \ conflict : Replayed(q) = Len(batch[q])
    <3> TAKE q \in Tokens \ conflict
    <3>1. next[q] \notin 1..Len(batch[q])
      BY <1>0, <2>1 DEF Replaying
    <3> QED BY <1>0, <2>2, <3>1 DEF PlaceInv
  <2> QED BY <2>1, <2>2, <2>3 DEF PlaceInv, FirstInv
<1>4. CASE Pass
  <2>1. /\ pc = "sampled" /\ pc' = "recording" /\ \A q \in Tokens : batch'[q] = <<>>
        /\ UNCHANGED <<first, book, since, conflict, outcome>> /\ clock' = clock + 1 /\ clock \in Nat
    BY <1>4, BookReplayAssumption DEF Pass, replay, Types
  <2>2. \A q \in Tokens : Replayed(q)' = 0
    BY <2>1 DEF Replayed
  <2>3. \A q \in Tokens : ~(first[q] # None /\ since[q] = None /\ q \notin conflict)
    <3> TAKE q \in Tokens
    <3>1. Kept(q) \subseteq 1..Len(batch[q])
      BY <1>0 DEF Kept
    <3>2. q \notin conflict => Replayed(q) = Len(batch[q])
      BY <2>1 DEF PlaceInv
    <3> QED BY <1>0, <3>1, <3>2 DEF FirstInv
  <2>4. PlaceInv'
    BY <2>1, <2>2 DEF PlaceInv
  <2>5. \A q \in Tokens : first[q] # None => first[q] \in Nat /\ first[q] <= clock
    BY DEF FirstInv, Types
  <2>6. FirstInv'
    BY <2>1, <2>3, <2>5 DEF FirstInv
  <2> QED BY <2>4, <2>6
<1>5. CASE Conclude
  <2>1. /\ pc = "sampled" /\ pc' = "done"
        /\ UNCHANGED <<clock, batch, first, next, book, since, conflict>>
    BY <1>5 DEF Conclude, archive, replay
  <2>2. \A q \in Tokens : Replayed(q)' = Replayed(q) /\ Kept(q)' = Kept(q)
    BY <2>1 DEF Replayed, Kept
  <2> QED BY <2>1, <2>2 DEF PlaceInv, FirstInv
<1>6. CASE \E k \in Tokens : Reconstruct(k)
  BY <1>6, PlaceReplay
<1>7. CASE UNCHANGED vars
  BY <1>7 DEF vars, venue, archive, replay, resample, PlaceInv, FirstInv, Replayed, Kept
<1> QED BY <1>0, <1>1, <1>2, <1>3, <1>4, <1>5, <1>6, <1>7 DEF Next, Live, Transform

LEMMA Placed == Spec => [](Types /\ PlaceInv /\ FirstInv)
<1>1. Init => Types /\ PlaceInv /\ FirstInv
  BY TypesInit, PlaceInit
<1>2. Types /\ PlaceInv /\ FirstInv /\ [Next]_vars => (Types /\ PlaceInv /\ FirstInv)'
  BY TypesNext, PlaceNext
<1> QED BY <1>1, <1>2, PTL DEF Spec

-----------------------------------------------------------------------------
(***************************************************************************)
(* The gaps.                                                               *)
(***************************************************************************)

\* The grid points sampled so far, and those of G at which a token has a book.
Sampled == {g \in Grid : g < clock \/ (g = clock /\ pc \in {"sampled", "done"})}

Shown(k, G) == {g \in G : first[k] # None /\ first[k] <= g}

\* g ends the gap that token k has had since the beginning.
Closes(k, g, G) ==
  /\ g \in Shown(k, G) /\ first[k] > Begin
  /\ \A h \in Shown(k, G) : g <= h

\* A gap is open as long as a token has no book, and closed ones are the
\* intervals from the beginning to the first grid point with a book.
GapInv ==
  conflict = {} /\ pc # "done" =>
    /\ \A k \in Tokens : gap[k] = IF Sampled # {} /\ Shown(k, Sampled) = {} THEN Begin ELSE None
    /\ \A x : x \in gaps <=> \E k \in Tokens : \E g \in Sampled : x = <<k, Begin, g>> /\ Closes(k, g, Sampled)

GapsInv == GapInv /\ GapsAreExact

LEMMA GridFacts ==
  /\ Begin \in Nat /\ End \in Nat /\ Begin < End /\ None \notin Nat /\ Begin \in Grid
  /\ \A g \in Grid : g \in Nat /\ Begin <= g /\ g < End
<1>1. (Begin - Begin) % Interval = 0
  BY BookReplayAssumption
<1> QED BY <1>1, BookReplayAssumption DEF Grid

LEMMA GapInit == Init => GapsInv
<1> SUFFICES ASSUME Init PROVE GapsInv
  OBVIOUS
<1>0. clock = 0 /\ pc = "recording"
  BY DEF Init
<1>1. Sampled = {}
  <2> SUFFICES ASSUME NEW g \in Sampled PROVE FALSE
    OBVIOUS
  <2>1. g \in Grid /\ g < 0
    BY <1>0 DEF Sampled
  <2> QED BY <2>1, GridFacts
<1>2. outcome = "none" /\ gaps = {} /\ \A k \in Tokens : gap[k] = None
  BY DEF Init
<1> QED BY <1>1, <1>2 DEF GapsInv, GapInv, GapsAreExact

\* A snapshot comes after the grid points sampled before it.
LEMMA GapGrows ==
  ASSUME Types, PlaceInv, GapsInv, NEW k \in Tokens, NEW new \in Seq(Row),
         Grows(k, new), Opens(k, new) \/ (Plain(new) /\ first' = first)
  PROVE  GapsInv'
<1>0. UNCHANGED <<clock, pc, conflict, gap, gaps, outcome>> /\ pc = "recording"
  BY DEF Grows
<1>1. Sampled' = Sampled /\ \A g \in Sampled : g \in Nat /\ g < clock /\ clock \in Nat
  BY <1>0, GridFacts DEF Sampled, Types
<1>2. \A q \in Tokens : first'[q] = first[q] \/ (first[q] = None /\ first'[q] = clock)
  BY DEF Opens, Types
<1>3. \A q \in Tokens : \A g \in Sampled :
        (first'[q] # None /\ first'[q] <= g) <=> (first[q] # None /\ first[q] <= g)
  <2> TAKE q \in Tokens
  <2> TAKE g \in Sampled
  <2>1. CASE first'[q] = first[q]
    BY <2>1
  <2>2. CASE first[q] = None /\ first'[q] = clock
    BY <1>1, <2>2
  <2> QED BY <1>2, <2>1, <2>2
<1>4. \A q \in Tokens : Shown(q, Sampled)' = Shown(q, Sampled)
  BY <1>1, <1>3 DEF Shown
<1>5. \A q \in Tokens : \A g \in Sampled : Closes(q, g, Sampled)' <=> Closes(q, g, Sampled)
  <2> TAKE q \in Tokens
  <2> TAKE g \in Sampled
  <2>1. g \in Shown(q, Sampled) => first'[q] = first[q]
    BY <1>2 DEF Shown
  <2> QED BY <1>4, <2>1 DEF Closes
<1>6. GapInv'
  BY <1>0, <1>1, <1>4, <1>5 DEF GapsInv, GapInv
<1>7. GapsAreExact'
  BY <1>0 DEF GapsAreExact, PlaceInv
<1> QED BY <1>6, <1>7 DEF GapsInv

LEMMA GapSample ==
  ASSUME Types, PlaceInv, FirstInv, PlaceInv', GapsInv, Sample, clock \in Grid, conflict = {}
  PROVE  GapInv'
<1>a. PICK S : S = Sampled
  OBVIOUS
<1>b. PICK T : T = S \cup {clock}
  OBVIOUS
<1>0. /\ pc = "replay" /\ pc' = "sampled"
      /\ gap' = [k \in Tokens |-> IF Covered(k) THEN None ELSE IF gap[k] = None THEN clock ELSE gap[k]]
      /\ gaps' = gaps \cup {<<k, gap[k], clock>> : k \in {k \in Tokens : Covered(k) /\ gap[k] # None}}
      /\ UNCHANGED <<clock, first, since, conflict, batch, next>>
  BY DEF Sample, archive, replay
<1>1. /\ clock \in Nat /\ Begin \in Nat /\ Begin <= clock /\ None \notin Nat
      /\ S \subseteq Nat /\ \A g \in S : Begin <= g /\ g < clock
      /\ Sampled' = T /\ clock \notin S
      /\ S = {} => clock = Begin
      /\ S # {} => Begin \in S
  <2>1. Sampled = {g \in Grid : g < clock} /\ Sampled' = {g \in Grid : g < clock \/ g = clock}
    BY <1>0 DEF Sampled
  <2>2. /\ S = {g \in Grid : g < clock} /\ Sampled' = T /\ clock \notin S
    <3>1. S = {g \in Grid : g < clock} /\ clock \notin S
      BY <1>a, <2>1, GridFacts
    <3> QED BY <1>b, <2>1, <3>1
  <2>3. clock \in Nat /\ Begin \in Nat /\ None \notin Nat /\ Begin <= clock
    BY GridFacts
  <2>4. S \subseteq Nat /\ \A g \in S : Begin <= g /\ g < clock
    BY <2>2, GridFacts
  <2>5. Begin < clock => Begin \in S
    BY <2>2, GridFacts
  <2>6. S = {} => clock = Begin
    BY <2>3, <2>5
  <2>7. ASSUME S # {} PROVE Begin < clock
    <3>1. PICK g \in S : g \in Nat /\ Begin <= g /\ g < clock
      BY <2>4, <2>7
    <3> QED BY <2>3, <3>1
  <2> QED BY <2>2, <2>3, <2>4, <2>5, <2>6, <2>7
<1>2. \A k \in Tokens : /\ Covered(k) <=> first[k] # None
                        /\ first[k] # None => first[k] \in Nat /\ first[k] <= clock
  <2> TAKE k \in Tokens
  <2>1. Replayed(k)' = Len(batch[k]) /\ batch[k] \in Seq(Row) /\ Len(batch[k]) \in Nat
    BY <1>0 DEF PlaceInv, Types
  <2>2. Replayed(k) = Len(batch[k])
    BY <1>0, <2>1 DEF Replayed
  <2>3. \A i \in Kept(k) : ~(i > Replayed(k))
    BY <2>1, <2>2 DEF Kept
  <2> QED BY <2>3 DEF FirstInv, Types, Covered
<1>3. /\ \A k \in Tokens : gap[k] = IF S # {} /\ Shown(k, S) = {} THEN Begin ELSE None
      /\ \A x : x \in gaps <=> \E k \in Tokens : \E g \in S : x = <<k, Begin, g>> /\ Closes(k, g, S)
  BY <1>0, <1>a DEF GapsInv, GapInv
<1>4. \A k \in Tokens :
        /\ Shown(k, T)' = {g \in T : first[k] # None /\ first[k] <= g}
        /\ Shown(k, T)' = IF first[k] = None THEN {} ELSE Shown(k, S) \cup {clock}
        /\ first[k] = None => Shown(k, S) = {}
        /\ Shown(k, S) \subseteq S
  <2> TAKE k \in Tokens
  <2>1. /\ Shown(k, T)' = {g \in T : first[k] # None /\ first[k] <= g}
        /\ Shown(k, S) = {g \in S : first[k] # None /\ first[k] <= g}
    BY <1>0 DEF Shown
  <2> QED BY <1>2, <1>b, <2>1
<1>5. ASSUME NEW k \in Tokens
      PROVE  gap'[k] = IF T # {} /\ Shown(k, T)' = {} THEN Begin ELSE None
  <2>1. CASE first[k] # None
    <3>1. gap'[k] = None /\ Shown(k, T)' # {}
      BY <1>0, <1>2, <1>4, <2>1
    <3> QED BY <3>1
  <2>2. CASE first[k] = None
    <3>1. gap'[k] = IF gap[k] = None THEN clock ELSE gap[k]
      BY <1>0, <1>2, <2>2
    <3>2. Shown(k, S) = {} /\ Shown(k, T)' = {}
      BY <1>4, <2>2
    <3>3. gap'[k] = Begin
      BY <1>1, <1>3, <3>1, <3>2
    <3> QED BY <1>b, <3>2, <3>3
  <2> QED BY <2>1, <2>2
<1>6. ASSUME NEW k \in Tokens, NEW g \in S
      PROVE  Closes(k, g, T)' <=> Closes(k, g, S)
  <2>1. g \in Shown(k, T)' <=> g \in Shown(k, S)
    BY <1>0, <1>1, <1>4 DEF Shown
  <2>2. Closes(k, g, T)' <=> g \in Shown(k, T)' /\ first[k] > Begin /\ \A h \in Shown(k, T)' : g <= h
    BY <1>0 DEF Closes
  <2>3. g <= clock
    BY <1>1
  <2> QED BY <1>4, <2>1, <2>2, <2>3 DEF Closes
<1>7. ASSUME NEW k \in Tokens
      PROVE  Closes(k, clock, T)' <=> Covered(k) /\ gap[k] # None
  <2>1. Closes(k, clock, T)' <=> clock \in Shown(k, T)' /\ first[k] > Begin /\ \A h \in Shown(k, T)' : clock <= h
    BY <1>0 DEF Closes
  <2>2. CASE first[k] = None
    BY <1>2, <1>4, <2>1, <2>2
  <2>3. CASE first[k] # None
    <3>1. clock \in Shown(k, T)' /\ Covered(k) /\ first[k] \in Nat /\ first[k] <= clock
      BY <1>2, <1>4, <2>3
    <3>2. (\A h \in Shown(k, T)' : clock <= h) <=> Shown(k, S) = {}
      <4>1. Shown(k, T)' = Shown(k, S) \cup {clock} /\ Shown(k, S) \subseteq S
        BY <1>4, <2>3
      <4>2. ASSUME NEW h \in Shown(k, S) PROVE ~(clock <= h)
        <5>1. h \in S /\ h \in Nat /\ h < clock
          BY <1>1, <4>1
        <5> QED BY <1>1, <5>1
      <4> QED BY <1>1, <4>1, <4>2
    <3>3. ASSUME Shown(k, S) = {}
          PROVE  first[k] > Begin <=> S # {}
      <4>1. CASE S = {}
        BY <1>1, <3>1, <4>1
      <4>2. CASE S # {}
        <5>1. Begin \in S /\ Begin \notin Shown(k, S)
          BY <1>1, <3>3, <4>2
        <5> QED BY <1>1, <2>3, <3>1, <4>2, <5>1 DEF Shown
      <4> QED BY <4>1, <4>2
    <3>4. gap[k] # None <=> S # {} /\ Shown(k, S) = {}
      BY <1>1, <1>3
    <3> QED BY <2>1, <3>1, <3>2, <3>3, <3>4
  <2> QED BY <2>2, <2>3
<1>8. \A k \in Tokens : gap[k] # None => gap[k] = Begin
  BY <1>3
<1>9. ASSUME NEW x
      PROVE  x \in gaps' <=> \E k \in Tokens : \E g \in T : x = <<k, Begin, g>> /\ Closes(k, g, T)'
  <2>1. x \in gaps' <=> \/ x \in gaps
                        \/ \E k \in Tokens : Covered(k) /\ gap[k] # None /\ x = <<k, gap[k], clock>>
    BY <1>0
  <2>2. x \in gaps <=> \E k \in Tokens : \E g \in S : x = <<k, Begin, g>> /\ Closes(k, g, T)'
    BY <1>3, <1>6
  <2>3. (\E k \in Tokens : Covered(k) /\ gap[k] # None /\ x = <<k, gap[k], clock>>)
          <=> \E k \in Tokens : x = <<k, Begin, clock>> /\ Closes(k, clock, T)'
    BY <1>7, <1>8
  <2> DEFINE P(k, g) == x = <<k, Begin, g>> /\ Closes(k, g, T)'
  <2>4. T = S \cup {clock}
    BY <1>b
  <2>5. (\E k \in Tokens : \E g \in T : P(k, g))
          <=> (\E k \in Tokens : \E g \in S : P(k, g)) \/ (\E k \in Tokens : P(k, clock))
    <3> HIDE DEF P
    <3> QED BY <2>4, Zenon
  <2> QED BY <2>1, <2>2, <2>3, <2>5
<1>10. Sampled' = T
  BY <1>1
<1>11. ASSUME NEW k \in Tokens
       PROVE  /\ Shown(k, Sampled)' = Shown(k, T)'
              /\ \A g \in T : Closes(k, g, Sampled)' <=> Closes(k, g, T)'
  <2>1. Shown(k, Sampled)' = {g \in T : first[k] # None /\ first[k] <= g}
    BY <1>0, <1>10 DEF Shown
  <2>2. Shown(k, Sampled)' = Shown(k, T)'
    BY <1>4, <2>1
  <2> QED BY <2>2 DEF Closes
<1> QED BY <1>5, <1>9, <1>10, <1>11 DEF GapInv

\* At the end all grid points are sampled.
LEMMA GapConclude ==
  ASSUME Types, GapsInv, Conclude
  PROVE  GapsAreExact'
<1> SUFFICES ASSUME conflict = {}, outcome' = Classified(gaps')
             PROVE  GapsAreExact'
  <2>1. conflict # {} => outcome' = "EVENT_CONFLICT" \/ outcome' = "NO_INITIAL_SNAPSHOT"
    BY DEF Conclude
  <2>2. outcome' \in {"EVENT_CONFLICT", "NO_INITIAL_SNAPSHOT"} \/ outcome' = Classified(gaps')
    BY DEF Conclude
  <2>3. outcome' \in {"EVENT_CONFLICT", "NO_INITIAL_SNAPSHOT"} => GapsAreExact'
    BY DEF GapsAreExact
  <2> QED BY <2>1, <2>2, <2>3
<1> DEFINE late == {k \in Tokens : first[k] = None \/ first[k] > Begin}
           closed(k) == {g \in Grid : first[k] # None /\ first[k] <= g}
           final(k) == Min({End} \cup closed(k))
<1>0. /\ pc = "sampled" /\ clock \in Nat /\ clock < End /\ clock + 1 >= End
      /\ gaps' = gaps \cup Remaining /\ first' = first
  BY GridFacts DEF Conclude, Types, archive
<1>1. Sampled = Grid
  <2>1. ASSUME NEW g \in Grid PROVE g < clock \/ g = clock
    <3>1. g \in Nat /\ g < End /\ End \in Nat
      BY GridFacts
    <3> QED BY <1>0, <3>1
  <2> QED BY <1>0, <2>1 DEF Sampled
<1>2. Begin \in Grid /\ Begin \in Nat /\ End \in Nat /\ None \notin Nat
      /\ \A g \in Grid : g \in Nat /\ Begin <= g /\ g < End
  BY GridFacts
<1>3. /\ \A k \in Tokens : gap[k] = IF closed(k) = {} THEN Begin ELSE None
      /\ \A x : x \in gaps <=> \E k \in Tokens : \E g \in Grid : x = <<k, Begin, g>> /\ Closes(k, g, Grid)
  BY <1>0, <1>1, <1>2 DEF GapsInv, GapInv, Shown
<1>4. ASSUME NEW k \in Tokens
      PROVE  /\ closed(k) = {} => k \in late /\ final(k) = End
             /\ k \in late /\ closed(k) # {} => Closes(k, final(k), Grid) /\ final(k) \in Grid
             /\ \A g \in Grid : Closes(k, g, Grid) => k \in late /\ g = final(k) /\ closed(k) # {}
  <2>0. first[k] \in Nat \cup {None} /\ closed(k) = Shown(k, Grid) /\ closed(k) \subseteq Grid
    BY DEF Types, Shown
  <2>1. ASSUME closed(k) = {}
        PROVE  k \in late /\ final(k) = End
    <3>1. Begin \notin closed(k)
      BY <2>1
    <3>2. first[k] = None \/ first[k] > Begin
      BY <1>2, <2>0, <3>1
    <3>3. Min({End}) = End
      BY <1>2 DEF Min
    <3> QED BY <2>1, <3>2, <3>3
  <2>2. ASSUME NEW g \in closed(k), \A h \in closed(k) : g <= h
        PROVE  g = final(k)
    <3> DEFINE E == {End} \cup closed(k)
    <3>1. g \in E /\ \A h \in E : g <= h
      BY <1>2, <2>0, <2>2
    <3>2. E \subseteq Nat
      BY <1>2, <2>0
    <3> HIDE DEF E
    <3>3. Min(E) \in E /\ \A h \in E : Min(E) <= h
      BY <3>1 DEF Min
    <3>4. g <= Min(E) /\ Min(E) <= g /\ g \in Nat /\ Min(E) \in Nat
      BY <3>1, <3>2, <3>3
    <3>5. g = Min(E)
      BY <3>4
    <3> QED BY <3>5 DEF E
  <2>3. ASSUME k \in late, closed(k) # {}
        PROVE  Closes(k, final(k), Grid) /\ final(k) \in Grid
    <3>1. closed(k) \in SUBSET Nat
      BY <1>2, <2>0
    <3>2. PICK g \in closed(k) : \A h \in closed(k) : g <= h
      <4> HIDE DEF closed
      <4> QED BY <2>3, <3>1, Least
    <3>3. first[k] > Begin
      BY <2>3
    <3> QED BY <2>0, <2>2, <3>2, <3>3 DEF Closes
  <2>4. ASSUME NEW g \in Grid, Closes(k, g, Grid)
        PROVE  k \in late /\ g = final(k) /\ closed(k) # {}
    <3> HIDE DEF closed, final
    <3> QED BY <2>0, <2>2, <2>4 DEF Closes
  <2> QED BY <2>1, <2>3, <2>4
<1> HIDE DEF late, closed, final
<1>5. ASSUME NEW x
      PROVE  x \in gaps' <=> \E k \in late : x = <<k, Begin, final(k)>>
  <2>1. x \in gaps' <=> x \in gaps \/ \E k \in Tokens : gap[k] # None /\ x = <<k, gap[k], End>>
    BY <1>0 DEF Remaining
  <2>2. ASSUME x \in gaps
        PROVE  \E k \in late : x = <<k, Begin, final(k)>>
    BY <1>3, <1>4, <2>2
  <2>3. ASSUME NEW k \in Tokens, gap[k] # None, x = <<k, gap[k], End>>
        PROVE  \E q \in late : x = <<q, Begin, final(q)>>
    BY <1>3, <1>4, <2>3
  <2>4. ASSUME NEW k \in late, x = <<k, Begin, final(k)>>
        PROVE  x \in gaps \/ \E q \in Tokens : gap[q] # None /\ x = <<q, gap[q], End>>
    <3>0. k \in Tokens
      BY DEF late
    <3>1. CASE closed(k) = {}
      BY <1>2, <1>3, <1>4, <2>4, <3>0, <3>1
    <3>2. CASE closed(k) # {}
      BY <1>3, <1>4, <2>4, <3>0, <3>2
    <3> QED BY <3>1, <3>2
  <2> QED BY <2>1, <2>2, <2>3, <2>4
<1>6. gaps' = {<<k, Begin, final(k)>> : k \in late}
  BY <1>5
<1>7. outcome' = "TIER_A" <=> late = {}
  <2>1. outcome' = "TIER_A" <=> gaps' = {}
    BY DEF Classified
  <2>2. gaps' = {} <=> late = {}
    BY <1>6
  <2> QED BY <2>1, <2>2
<1>8. /\ late = {k \in Tokens : first'[k] = None \/ first'[k] > Begin}
      /\ \A k \in late : final(k) = Min({End} \cup {g \in Grid : first'[k] # None /\ first'[k] <= g})
  BY <1>0 DEF late, final, closed
<1> QED BY <1>6, <1>7, <1>8 DEF GapsAreExact

LEMMA GapNext ==
  Types /\ PlaceInv /\ FirstInv /\ PlaceInv' /\ GapsInv /\ [Next]_vars => GapsInv'
<1> SUFFICES ASSUME Types, PlaceInv, FirstInv, PlaceInv', GapsInv, [Next]_vars PROVE GapsInv'
  OBVIOUS
<1>0. Busy \subseteq Tokens
  BY BookReplayAssumption
<1>a. ASSUME UNCHANGED <<first, gap, gaps, outcome>>, conflict' = {} /\ pc' # "done" => conflict = {} /\ pc # "done",
             conflict' = {} => Sampled' = Sampled
      PROVE  GapsInv'
  <2>1. ASSUME NEW q \in Tokens, NEW G
        PROVE  Shown(q, G)' = Shown(q, G) /\ \A g : Closes(q, g, G)' <=> Closes(q, g, G)
    BY <1>a DEF Shown, Closes
  <2>2. GapInv'
    <3> SUFFICES ASSUME conflict' = {}, pc' # "done"
                 PROVE  /\ \A q \in Tokens : gap[q] = IF Sampled # {} /\ Shown(q, Sampled)' = {} THEN Begin ELSE None
                        /\ \A x : x \in gaps <=> \E q \in Tokens : \E g \in Sampled : x = <<q, Begin, g>> /\ Closes(q, g, Sampled)'
      BY <1>a DEF GapInv
    <3> QED BY <1>a, <2>1 DEF GapsInv, GapInv
  <2>3. GapsAreExact'
    BY <1>a DEF GapsInv, GapsAreExact
  <2> QED BY <2>2, <2>3 DEF GapsInv
<1>1. CASE Deliver
  <2>1. /\ pc = "recording" /\ pc' = "replay"
        /\ UNCHANGED <<clock, first, conflict, gap, gaps, outcome>>
    BY <1>1 DEF Deliver, archive, resample
  <2>2. Sampled' = Sampled
    BY <2>1 DEF Sampled
  <2> QED BY <1>a, <2>1, <2>2
<1>2. CASE \E k \in Tokens : Snapshot(k) \/ Message(k) \/ TickSize(k) \/ Trade(k)
  <2>1. PICK k \in Tokens : Snapshot(k) \/ Message(k) \/ TickSize(k) \/ Trade(k)
    BY <1>2
  <2>2. PICK new \in Seq(Row) : Grows(k, new) /\ (Opens(k, new) \/ (Plain(new) /\ first' = first))
    BY <2>1, LiveStep
  <2> QED BY <2>2, GapGrows
<1>3. CASE Sample
  <2>1. /\ pc = "replay" /\ pc' = "sampled" /\ outcome = "none"
        /\ UNCHANGED <<clock, first, conflict, outcome>>
    BY <1>3 DEF Sample, archive, replay, PlaceInv
  <2>2. GapsAreExact'
    BY <2>1 DEF GapsAreExact
  <2>3. CASE clock \in Grid /\ conflict = {}
    BY <1>3, <2>2, <2>3, GapSample DEF GapsInv
  <2>4. CASE conflict # {}
    BY <2>1, <2>2, <2>4 DEF GapsInv, GapInv
  <2>5. CASE clock \notin Grid
    <3>1. Sampled' = Sampled
      BY <2>1, <2>5 DEF Sampled
    <3>2. UNCHANGED <<gap, gaps>>
      BY <1>3, <2>5 DEF Sample, resample
    <3> QED BY <1>a, <2>1, <3>1, <3>2
  <2> QED BY <2>3, <2>4, <2>5
<1>4. CASE Pass
  <2>1. /\ pc = "sampled" /\ pc' = "recording" /\ clock' = clock + 1 /\ clock \in Nat
        /\ UNCHANGED <<first, conflict, gap, gaps, outcome>>
    BY <1>4, GridFacts DEF Pass, replay, resample, Types
  <2>2. Sampled' = Sampled
    <3>1. ASSUME NEW g \in Grid PROVE g < clock + 1 <=> g < clock \/ g = clock
      <4>1. g \in Nat
        BY GridFacts
      <4> QED BY <2>1, <4>1
    <3>2. Sampled = {g \in Grid : g < clock \/ g = clock} /\ Sampled' = {g \in Grid : g < clock + 1}
      BY <2>1 DEF Sampled
    <3> QED BY <3>1, <3>2
  <2> QED BY <1>a, <2>1, <2>2
<1>5. CASE Conclude
  <2>1. pc' = "done"
    BY <1>5 DEF Conclude
  <2> QED BY <1>5, <2>1, GapConclude DEF GapsInv, GapInv
<1>6. CASE \E k \in Tokens : Reconstruct(k)
  <2>1. PICK k \in Tokens : Reconstruct(k)
    BY <1>6
  <2>2. /\ UNCHANGED <<clock, pc, first, gap, gaps, outcome>> /\ conflict \subseteq conflict'
    BY <2>1, ReplayStep DEF archive, resample, Passed, Applied, Failed
  <2>3. Sampled' = Sampled
    BY <2>2 DEF Sampled
  <2> QED BY <1>a, <2>2, <2>3
<1>7. CASE UNCHANGED vars
  <2>1. UNCHANGED <<clock, pc, first, conflict, gap, gaps, outcome>>
    BY <1>7 DEF vars, archive, replay, resample
  <2>2. Sampled' = Sampled
    BY <2>1 DEF Sampled
  <2> QED BY <1>a, <2>1, <2>2
<1> QED BY <1>0, <1>1, <1>2, <1>3, <1>4, <1>5, <1>6, <1>7 DEF Next, Live, Transform

\* classify and resample_200ms: a market is accepted only with a book at its
\* first grid point, and its gaps are the exact intervals without one, whatever
\* rows were lost.
THEOREM GapsExact == Spec => []GapsAreExact
<1>1. Init => GapsInv
  BY GapInit
<1>2. GapsInv => GapsAreExact
  BY DEF GapsInv
<1>3. (Types /\ PlaceInv /\ FirstInv) /\ (Types /\ PlaceInv /\ FirstInv)' /\ GapsInv /\ [Next]_vars => GapsInv'
  BY GapNext
<1> QED BY <1>1, <1>2, <1>3, Placed, PTL DEF Spec

-----------------------------------------------------------------------------
(***************************************************************************)
(* What a batch claims.                                                    *)
(***************************************************************************)

\* i is the last row that counts, and the rows that count but trades.
IsLast(rows, i) == i \in KeptIn(rows) /\ \A j \in KeptIn(rows) : j <= i

Solid(rows) == {i \in KeptIn(rows) : rows[i].kind # "trade"}

\* What the last row of a batch claims is claimed, unless it is a trade.
ClaimInv ==
  \A k \in Tokens : \A i : IsLast(batch[k], i) =>
    /\ batch[k][i].kind # "trade" => claimed[k] = ClaimOf(batch[k][i])
    /\ batch[k][i].kind = "trade" /\ Solid(batch[k]) # {} => traded[k]

Plausible(k) == ~Crossed(book[k]) /\ Agrees(claimed[k], book[k])

\* A book is plausible as soon as the rows but trades are replayed.
AgreeInv ==
  \A k \in Tokens \ conflict :
    since[k] # None /\ ~traded[k] /\ (\A i \in Solid(batch[k]) : i <= Replayed(k)) => Plausible(k)

\* The grid point just sampled shows the books.
SampleInv ==
  pc \in {"sampled", "done"} /\ clock \in Grid =>
    \A k \in Tokens : sample[k] = IF since[k] # None THEN book[k] ELSE None

ClaimsInv == ClaimInv /\ AgreeInv /\ SampleInv

\* Rows that make a claim, unless all are repeated; or a trade.
Claims(k, new, quotes) ==
  /\ \A i \in DOMAIN new : new[i].kind # "trade" /\ ClaimOf(new[i]) = quotes
  /\ Range(new) \subseteq Range(batch[k]) => claimed' = claimed /\ traded' = traded
  /\ ~(Range(new) \subseteq Range(batch[k])) => claimed'[k] = quotes
  /\ \A q \in Tokens \ {k} : claimed'[q] = claimed[q] /\ traded'[q] = traded[q]

Trades(k, new) ==
  /\ new = <<[kind |-> "trade"]>> /\ claimed' = claimed
  /\ traded'[k] <=> traded[k] \/ \E r \in Range(batch[k]) : r.kind # "trade"
  /\ \A q \in Tokens \ {k} : traded'[q] = traded[q]

LEMMA MessageClaims ==
  ASSUME NEW m \in Messages, NEW quotes \in Claim,
         NEW got \in {m.changes, Tail(m.changes), Front(m.changes), <<>>}
  PROVE  \A i \in DOMAIN ChangeRows(got, quotes) :
           /\ ChangeRows(got, quotes)[i].kind = "change"
           /\ ClaimOf(ChangeRows(got, quotes)[i]) = quotes
<1> DEFINE new == ChangeRows(got, quotes)
<1>1. quotes = [bid |-> quotes.bid, ask |-> quotes.ask]
  BY DEF Claim
<1>2. ASSUME NEW i \in DOMAIN new
      PROVE  new[i].kind = "change" /\ ClaimOf(new[i]) = quotes
  <2>1. new[i] = [kind |-> "change", change |-> got[i], bid |-> quotes.bid, ask |-> quotes.ask]
    BY <1>2 DEF ChangeRows
  <2> HIDE DEF new
  <2>2. new[i].kind = "change" /\ new[i].bid = quotes.bid /\ new[i].ask = quotes.ask
    BY <2>1
  <2>3. ClaimOf(new[i]) = [bid |-> new[i].bid, ask |-> new[i].ask]
    BY <2>2 DEF ClaimOf
  <2> QED BY <1>1, <2>2, <2>3
<1> QED BY <1>2

LEMMA ClaimStep ==
  ASSUME Types, NEW k \in Tokens, Snapshot(k) \/ Message(k) \/ TickSize(k) \/ Trade(k)
  PROVE  \E new \in Seq(Row) : Grows(k, new) /\ (Trades(k, new) \/ \E quotes \in Claim : Claims(k, new, quotes))
<1>0. ASSUME NEW new \in Seq(Row), NEW insync \in BOOLEAN, Add(k, new, insync)
      PROVE  Grows(k, new)
  BY <1>0, AddType DEF Grows, replay, resample
<1>a. ASSUME NEW new \in Seq(Row), NEW insync \in BOOLEAN, NEW quotes \in Claim, Record(k, new, insync, quotes),
             \A i \in DOMAIN new : new[i].kind # "trade" /\ ClaimOf(new[i]) = quotes
      PROVE  Grows(k, new) /\ Claims(k, new, quotes)
  <2>1. Add(k, new, insync)
    BY <1>a DEF Record
  <2>2. /\ \A q \in Tokens \ {k} : claimed'[q] = claimed[q] /\ traded'[q] = traded[q]
        /\ Range(new) \subseteq Range(batch[k]) => claimed' = claimed /\ traded' = traded
        /\ ~(Range(new) \subseteq Range(batch[k])) => claimed'[k] = quotes
    <3>1. /\ IF Range(new) \subseteq Range(batch[k]) THEN UNCHANGED <<claimed, traded>>
             ELSE /\ claimed' = [claimed EXCEPT ![k] = quotes]
                  /\ traded' = [traded EXCEPT ![k] = FALSE]
          /\ claimed \in [Tokens -> Claim] /\ traded \in [Tokens -> BOOLEAN]
      BY <1>a DEF Record, Types
    <3> QED BY <3>1
  <2>3. Claims(k, new, quotes)
    BY <1>a, <2>2, Zenon DEF Claims
  <2> QED BY <1>0, <2>1, <2>3
<1>1. CASE Snapshot(k)
  <2> DEFINE new == <<[kind |-> "book", book |-> real[k]]>>
             insync == synced[k] \/ Fresh(k, new)
  <2>1. new \in Seq(Row) /\ Unquoted \in Claim
    BY DEF Types, Row, BookRow, Unquoted, Claim
  <2>2. Record(k, new, insync, Unquoted) /\ insync \in BOOLEAN
    BY <1>1 DEF Snapshot
  <2>3. \A i \in DOMAIN new : new[i].kind # "trade" /\ ClaimOf(new[i]) = Unquoted
    BY DEF ClaimOf
  <2> HIDE DEF new, insync
  <2> QED BY <1>a, <2>1, <2>2, <2>3
<1>2. CASE Message(k)
  <2>1. PICK m \in Messages : \E got \in {m.changes, Tail(m.changes), Front(m.changes), <<>>} :
          LET after  == After(real[k], m.changes)
              quotes == Quotes(after, m.quoted)
              new    == ChangeRows(got, quotes)
          IN /\ after \in Book /\ quotes \in Claim /\ new \in Seq(Row)
             /\ ~Crossed(after) /\ real' = [real EXCEPT ![k] = after]
             /\ Record(k, new, synced[k] /\ got = m.changes /\ Fresh(k, new), quotes)
             /\ Lose(Len(m.changes) - Len(got))
             /\ UNCHANGED <<venueTick, first>>
    BY <1>2, MessageStep
  <2>2. PICK got \in {m.changes, Tail(m.changes), Front(m.changes), <<>>} :
          LET quotes == Quotes(After(real[k], m.changes), m.quoted)
              new    == ChangeRows(got, quotes)
          IN /\ quotes \in Claim /\ new \in Seq(Row)
             /\ Record(k, new, synced[k] /\ got = m.changes /\ Fresh(k, new), quotes)
    BY <2>1
  <2> DEFINE quotes == Quotes(After(real[k], m.changes), m.quoted)
             new == ChangeRows(got, quotes)
             insync == synced[k] /\ got = m.changes /\ Fresh(k, new)
  <2>3. quotes \in Claim /\ new \in Seq(Row) /\ Record(k, new, insync, quotes) /\ insync \in BOOLEAN
    BY <2>2
  <2>4. \A i \in DOMAIN new : new[i].kind # "trade" /\ ClaimOf(new[i]) = quotes
    <3> HIDE DEF quotes
    <3>1. \A i \in DOMAIN ChangeRows(got, quotes) :
            /\ ChangeRows(got, quotes)[i].kind = "change"
            /\ ClaimOf(ChangeRows(got, quotes)[i]) = quotes
      BY <2>3, MessageClaims
    <3> HIDE DEF new
    <3> QED BY <3>1 DEF new
  <2> HIDE DEF quotes, new, insync
  <2> QED BY <1>a, <2>3, <2>4
<1>3. CASE TickSize(k)
  <2>1. PICK n \in Ticks \ {venueTick[k]} : \E got \in 0..1 :
          LET new == [i \in 1..got |-> [kind |-> "tick", old |-> venueTick[k], new |-> n]] IN
             /\ new \in Seq(Row) /\ Len(new) = got /\ venueTick' = [venueTick EXCEPT ![k] = n]
             /\ Record(k, new, synced[k], Unquoted) /\ Unquoted \in Claim
             /\ lost' = lost + (1 - got)
             /\ UNCHANGED <<real, first>>
    BY <1>3, TickStep
  <2>2. PICK got \in 0..1 :
          LET new == [i \in 1..got |-> [kind |-> "tick", old |-> venueTick[k], new |-> n]] IN
             new \in Seq(Row) /\ Record(k, new, synced[k], Unquoted) /\ Unquoted \in Claim
    BY <2>1
  <2> DEFINE new == [i \in 1..got |-> [kind |-> "tick", old |-> venueTick[k], new |-> n]]
  <2>3. new \in Seq(Row) /\ Record(k, new, synced[k], Unquoted) /\ Unquoted \in Claim
    BY <2>2
  <2>4. \A i \in DOMAIN new : new[i].kind # "trade" /\ ClaimOf(new[i]) = Unquoted
    BY DEF ClaimOf
  <2>5. synced[k] \in BOOLEAN
    BY DEF Types
  <2> HIDE DEF new
  <2> QED BY <1>a, <2>3, <2>4, <2>5
<1>4. CASE Trade(k)
  <2> DEFINE new == <<[kind |-> "trade"]>>
  <2>1. new \in Seq(Row) /\ Add(k, new, synced[k])
    BY <1>4, TradeStep
  <2>2. synced[k] \in BOOLEAN
    BY DEF Types
  <2>3. Trades(k, new)
    BY <1>4, TradeStep DEF Trades
  <2> HIDE DEF new
  <2> QED BY <1>0, <2>1, <2>2, <2>3
<1> QED BY <1>1, <1>2, <1>3, <1>4

-----------------------------------------------------------------------------
\* Adding rows to a batch, for the rows that count.
Joined(u, s, t) == s \in Seq(Row) /\ t \in Seq(Row) /\ u = s \o t

LEMMA LastGrows ==
  ASSUME NEW s, NEW t, NEW u, Joined(u, s, t)
  PROVE  /\ Range(t) \subseteq Range(s) =>
              /\ Solid(u) = Solid(s)
              /\ \A i : IsLast(u, i) <=> IsLast(s, i)
              /\ \A i \in KeptIn(s) : u[i] = s[i]
         /\ ~(Range(t) \subseteq Range(s)) =>
              /\ \E i \in KeptIn(u) : i > Len(s)
              /\ \A i : IsLast(u, i) => i - Len(s) \in 1..Len(t) /\ u[i] = t[i - Len(s)]
         /\ \A i \in KeptIn(u) : i \in 1..Len(s) \/ (i - Len(s) \in 1..Len(t) /\ u[i] = t[i - Len(s)])
         /\ \A i \in 1..Len(s) : u[i] = s[i] /\ s[i] \in Range(s)
         /\ DOMAIN t = 1..Len(t) /\ KeptIn(u) \subseteq Nat
<1>j. s \in Seq(Row) /\ t \in Seq(Row) /\ u = s \o t
  BY DEF Joined
<1>0. /\ u \in Seq(Row) /\ Len(s) \in Nat /\ Len(t) \in Nat
      /\ DOMAIN s = 1..Len(s) /\ DOMAIN t = 1..Len(t) /\ DOMAIN u = 1..(Len(s) + Len(t))
      /\ \A i \in 1..Len(s) : u[i] = s[i] /\ s[i] \in Range(s)
      /\ \A i \in 1..Len(t) : u[Len(s) + i] = t[i]
  BY <1>j, Concat DEF Range
<1>1. Range(t) \subseteq Range(s) => KeptIn(u) = KeptIn(s)
  BY <1>j, KeptGrows
<1>7. KeptIn(u) \subseteq Nat
  BY <1>0 DEF KeptIn
<1>2. \A i \in KeptIn(s) : u[i] = s[i]
  BY <1>0 DEF KeptIn
<1>3. ASSUME NEW i \in KeptIn(u), i \notin 1..Len(s)
      PROVE  i - Len(s) \in 1..Len(t) /\ u[i] = t[i - Len(s)]
  <2>1. i \in 1..(Len(s) + Len(t))
    BY <1>0 DEF KeptIn
  <2>2. i - Len(s) \in 1..Len(t) /\ i = Len(s) + (i - Len(s))
    BY <1>0, <1>3, <2>1
  <2> QED BY <1>0, <2>2
<1>4. ASSUME ~(Range(t) \subseteq Range(s))
      PROVE  \E i \in KeptIn(u) : i > Len(s)
  <2>1. PICK n \in 1..Len(t) : t[n] \notin Range(s)
    BY <1>0, <1>4 DEF Range
  <2>2. Len(s) + n \in DOMAIN u /\ u[Len(s) + n] = t[n]
    BY <1>0
  <2>3. PICK j \in KeptIn(u) : u[j] = t[n]
    BY <1>0, <1>j, <2>2, KeptFirst
  <2>4. j \in 1..(Len(s) + Len(t))
    BY <1>0 DEF KeptIn
  <2>5. j \notin 1..Len(s)
    BY <1>0, <2>1, <2>3 DEF Range
  <2> QED BY <1>0, <2>3, <2>4, <2>5
<1>5. ASSUME ~(Range(t) \subseteq Range(s)), NEW i, IsLast(u, i)
      PROVE  i - Len(s) \in 1..Len(t) /\ u[i] = t[i - Len(s)]
  <2>1. PICK j \in KeptIn(u) : j > Len(s)
    BY <1>4, <1>5
  <2>2. i \in KeptIn(u) /\ j <= i /\ i \in Nat /\ j \in Nat
    BY <1>5, <1>7, <2>1 DEF IsLast
  <2>3. i \notin 1..Len(s)
    BY <1>0, <2>1, <2>2
  <2> QED BY <1>3, <2>2, <2>3
<1>6. Range(t) \subseteq Range(s) => Solid(u) = Solid(s) /\ \A i : IsLast(u, i) <=> IsLast(s, i)
  BY <1>1, <1>2 DEF Solid, IsLast
<1> QED BY <1>0, <1>2, <1>3, <1>4, <1>5, <1>6, <1>7

LEMMA ClaimsInit == Init => ClaimsInv
<1> SUFFICES ASSUME Init PROVE ClaimsInv
  OBVIOUS
<1>1. pc = "recording" /\ \A k \in Tokens : since[k] = None /\ batch[k] = <<>>
  BY DEF Init
<1>2. \A k \in Tokens : KeptIn(batch[k]) = {}
  BY <1>1 DEF KeptIn
<1> QED BY <1>1, <1>2 DEF ClaimsInv, ClaimInv, AgreeInv, SampleInv, IsLast

LEMMA ClaimsGrow ==
  ASSUME Types, ClaimsInv, NEW k \in Tokens, NEW new \in Seq(Row), Grows(k, new),
         Trades(k, new) \/ \E quotes \in Claim : Claims(k, new, quotes)
  PROVE  ClaimsInv'
<1> DEFINE s == batch[k]
           u == batch'[k]
<1>0. /\ s \in Seq(Row) /\ u = s \o new /\ Len(s) \in Nat
      /\ \A q \in Tokens : Replayed(q) = 0 /\ Replayed(q)' = 0
      /\ \A q \in Tokens \ {k} : batch'[q] = batch[q] /\ claimed'[q] = claimed[q] /\ traded'[q] = traded[q]
      /\ UNCHANGED <<book, since, conflict>> /\ pc' = "recording"
  BY DEF Types, Grows, Replayed, Trades, Claims
<1>1. /\ Range(new) \subseteq Range(s) =>
           /\ Solid(u) = Solid(s)
           /\ \A i : IsLast(u, i) <=> IsLast(s, i)
           /\ \A i \in KeptIn(s) : u[i] = s[i]
      /\ ~(Range(new) \subseteq Range(s)) =>
           /\ \E i \in KeptIn(u) : i > Len(s)
           /\ \A i : IsLast(u, i) => i - Len(s) \in 1..Len(new) /\ u[i] = new[i - Len(s)]
      /\ \A i \in KeptIn(u) : i \in 1..Len(s) \/ (i - Len(s) \in 1..Len(new) /\ u[i] = new[i - Len(s)])
      /\ \A i \in 1..Len(s) : u[i] = s[i] /\ s[i] \in Range(s)
      /\ DOMAIN new = 1..Len(new) /\ KeptIn(u) \subseteq Nat
  <2>1. PICK v, w : v = u /\ w = s
    OBVIOUS
  <2>2. Joined(v, w, new)
    BY <1>0, <2>1 DEF Joined
  <2> HIDE DEF s, u
  <2>3. /\ Range(new) \subseteq Range(w) =>
             /\ Solid(v) = Solid(w)
             /\ \A i : IsLast(v, i) <=> IsLast(w, i)
             /\ \A i \in KeptIn(w) : v[i] = w[i]
        /\ ~(Range(new) \subseteq Range(w)) =>
             /\ \E i \in KeptIn(v) : i > Len(w)
             /\ \A i : IsLast(v, i) => i - Len(w) \in 1..Len(new) /\ v[i] = new[i - Len(w)]
        /\ \A i \in KeptIn(v) : i \in 1..Len(w) \/ (i - Len(w) \in 1..Len(new) /\ v[i] = new[i - Len(w)])
        /\ \A i \in 1..Len(w) : v[i] = w[i] /\ w[i] \in Range(w)
        /\ DOMAIN new = 1..Len(new) /\ KeptIn(v) \subseteq Nat
    BY <2>2, LastGrows
  <2> QED BY <2>1, <2>3
<1>2. /\ \A i \in Solid(s) : i \in 1..Len(s) /\ s[i] \in Range(s) /\ s[i].kind # "trade"
  BY <1>0 DEF Solid, KeptIn, Range
<1> HIDE DEF s, u
<1>3. \A i : IsLast(u, i) =>
        /\ u[i].kind # "trade" => claimed'[k] = ClaimOf(u[i])
        /\ u[i].kind = "trade" /\ Solid(u) # {} => traded'[k]
  <2> TAKE i
  <2> HAVE IsLast(u, i)
  <2>1. CASE Range(new) \subseteq Range(s)
    <3>1. IsLast(s, i) /\ u[i] = s[i] /\ Solid(u) = Solid(s)
      BY <1>1, <2>1 DEF IsLast
    <3>2. claimed'[k] = claimed[k] /\ (traded[k] => traded'[k])
      BY <2>1 DEF s, Trades, Claims
    <3> QED BY <3>1, <3>2 DEF s, ClaimsInv, ClaimInv
  <2>2. CASE ~(Range(new) \subseteq Range(s))
    <3>1. i - Len(s) \in DOMAIN new /\ u[i] = new[i - Len(s)]
      BY <1>1, <2>2
    <3>2. ASSUME NEW quotes \in Claim, Claims(k, new, quotes)
          PROVE  u[i].kind # "trade" /\ claimed'[k] = ClaimOf(u[i])
      BY <2>2, <3>1, <3>2 DEF s, Claims
    <3>3. ASSUME Trades(k, new), Solid(u) # {}
          PROVE  traded'[k]
      <4>1. PICK j \in KeptIn(u) : u[j].kind # "trade"
        BY <3>3 DEF Solid
      <4>2. \A x \in DOMAIN new : new[x].kind = "trade"
        BY <3>3 DEF Trades
      <4>3. j \in 1..Len(s)
        BY <1>1, <4>1, <4>2
      <4>4. s[j] \in Range(s) /\ s[j].kind # "trade"
        BY <1>1, <4>1, <4>3
      <4> QED BY <3>3, <4>4 DEF Trades, s
    <3>4. Trades(k, new) => u[i].kind = "trade"
      BY <3>1 DEF Trades
    <3> QED BY <3>2, <3>3, <3>4
  <2> QED BY <2>1, <2>2
<1>4. ASSUME k \notin conflict, since[k] # None, ~traded'[k], \A i \in Solid(u) : i <= 0
      PROVE  Plausible(k)'
  <2>1. CASE Range(new) \subseteq Range(s)
    <3>1. claimed'[k] = claimed[k] /\ ~traded[k] /\ Solid(u) = Solid(s)
      BY <1>1, <1>4, <2>1 DEF s, Trades, Claims
    <3>2. Plausible(k)
      BY <1>0, <1>4, <3>1 DEF ClaimsInv, AgreeInv, s
    <3> QED BY <1>0, <3>1, <3>2 DEF Plausible
  <2>2. CASE Trades(k, new)
    <3>1. claimed'[k] = claimed[k] /\ ~traded[k] /\ \A r \in Range(s) : ~(r.kind # "trade")
      BY <1>4, <2>2 DEF Trades, s
    <3>2. Solid(s) = {}
      BY <1>2, <3>1
    <3>3. Plausible(k)
      BY <1>0, <1>4, <3>1, <3>2 DEF ClaimsInv, AgreeInv, s
    <3> QED BY <1>0, <3>1, <3>3 DEF Plausible
  <2>3. CASE ~(Range(new) \subseteq Range(s)) /\ \E quotes \in Claim : Claims(k, new, quotes)
    <3>1. PICK i \in KeptIn(u) : i > Len(s)
      BY <1>1, <2>3
    <3>2. i - Len(s) \in DOMAIN new /\ u[i] = new[i - Len(s)]
      BY <1>0, <1>1, <3>1
    <3>3. i \in Solid(u)
      BY <2>3, <3>1, <3>2 DEF Solid, Claims
    <3>4. i > 0
      BY <1>0, <1>1, <3>1, <3>2
    <3> QED BY <1>0, <1>1, <1>4, <3>1, <3>2, <3>3, <3>4
  <2> QED BY <2>1, <2>2, <2>3
<1>5. ClaimInv'
  <2> SUFFICES ASSUME NEW q \in Tokens, NEW i, IsLast(batch'[q], i)
               PROVE  /\ batch'[q][i].kind # "trade" => claimed'[q] = ClaimOf(batch'[q][i])
                      /\ batch'[q][i].kind = "trade" /\ Solid(batch'[q]) # {} => traded'[q]
    BY DEF ClaimInv
  <2>1. CASE q = k
    BY <1>3, <2>1 DEF u
  <2>2. CASE q # k
    <3>1. batch'[q] = batch[q] /\ claimed'[q] = claimed[q] /\ traded'[q] = traded[q]
      BY <1>0, <2>2
    <3>2. IsLast(batch[q], i)
      BY <3>1
    <3>3. /\ batch[q][i].kind # "trade" => claimed[q] = ClaimOf(batch[q][i])
          /\ batch[q][i].kind = "trade" /\ Solid(batch[q]) # {} => traded[q]
      BY <3>2, Zenon DEF ClaimsInv, ClaimInv
    <3> QED BY <3>1, <3>3
  <2> QED BY <2>1, <2>2
<1>6. AgreeInv'
  <2> SUFFICES ASSUME NEW q \in Tokens \ conflict', since'[q] # None, ~traded'[q],
                      \A i \in Solid(batch'[q]) : i <= Replayed(q)'
               PROVE  Plausible(q)'
    BY DEF AgreeInv
  <2>1. CASE q = k
    BY <1>0, <1>4, <2>1 DEF u
  <2>2. CASE q # k
    BY <1>0, <2>2 DEF ClaimsInv, AgreeInv, Plausible
  <2> QED BY <2>1, <2>2
<1>7. SampleInv'
  BY <1>0 DEF SampleInv
<1> QED BY <1>5, <1>6, <1>7 DEF ClaimsInv

\* The last row that counts is judged with its own book.
LEMMA ClaimsReplay ==
  ASSUME Types, PlaceInv, ClaimsInv, NEW k \in Tokens, Reconstruct(k)
  PROVE  ClaimsInv'
<1>0. /\ pc = "replay" /\ pc' = "replay" /\ Event(k) \in Row /\ k \notin conflict
      /\ next[k] \in 1..Len(batch[k]) /\ Event(k) = batch[k][next[k]]
      /\ UNCHANGED <<clock, batch, claimed, traded>>
      /\ Passed(k) \/ Applied(k) \/ Failed(k)
  BY ReplayStep DEF archive, Event
<1>1. /\ \A q \in Tokens : next[q] \in Nat \ {0} /\ batch[q] \in Seq(Row) /\ KeptIn(batch[q]) = Kept(q)
      /\ \A q \in Tokens : Replayed(q) = next[q] - 1 /\ Replayed(q)' = next'[q] - 1
      /\ \A q \in Tokens : KeptIn(batch[q]) \subseteq Nat
  BY <1>0 DEF Types, Replayed, Kept, KeptIn
<1>2. \A q \in Tokens \ {k} :
        next'[q] = next[q] /\ book'[q] = book[q] /\ since'[q] = since[q] /\ (q \in conflict' <=> q \in conflict)
  BY <1>0 DEF Passed, Applied, Failed, Types
<1>3. ASSUME k \notin conflict', since'[k] # None, ~traded[k], \A i \in Solid(batch[k]) : i <= Replayed(k)'
      PROVE  ~Crossed(book'[k]) /\ Agrees(claimed[k], book'[k])
  <2>1. ~Failed(k)
    BY <1>3 DEF Failed
  <2>2. CASE Passed(k)
    <3>1. ~Usable(k) /\ since'[k] = since[k] /\ book'[k] = book[k] /\ next'[k] = next[k] + 1
      BY <2>2 DEF Passed, Types
    <3>2. book[k] # None
      BY <1>3, <3>1 DEF PlaceInv
    <3>3. next[k] \notin Solid(batch[k])
      BY <1>0, <1>1, <3>1, <3>2 DEF Usable, Solid
    <3>4. \A i \in Solid(batch[k]) : i \in Nat /\ i # next[k] /\ i <= next[k]
      BY <1>1, <1>3, <3>1, <3>3 DEF Solid
    <3>5. \A i \in Solid(batch[k]) : i <= Replayed(k)
      BY <1>1, <3>4
    <3>6. Plausible(k)
      BY <1>0, <1>3, <3>1, <3>5 DEF ClaimsInv, AgreeInv
    <3> QED BY <3>1, <3>6 DEF Plausible
  <2>3. CASE Applied(k)
    <3>0. /\ Usable(k) /\ ~Implausible(k, Result(k)) /\ book'[k] = Result(k) /\ next'[k] = next[k] + 1
      BY <2>3 DEF Applied, Types
    <3>1. next[k] \in Solid(batch[k])
      BY <1>0, <1>1, <3>0 DEF Usable, Solid
    <3>2. PICK i \in KeptIn(batch[k]) : \A j \in KeptIn(batch[k]) : j <= i
      BY <1>1, <3>1, KeptLast DEF Solid
    <3>3. IsLast(batch[k], i)
      BY <3>2 DEF IsLast
    <3>4. i \in Solid(batch[k])
      BY <1>3, <3>1, <3>2, <3>3 DEF ClaimsInv, ClaimInv, Solid
    <3>5. i = next[k]
      <4>1. i <= next[k] /\ next[k] <= i /\ i \in Nat /\ next[k] \in Nat
        BY <1>1, <1>3, <3>0, <3>1, <3>2, <3>4 DEF Solid
      <4> QED BY <4>1
    <3>6. claimed[k] = ClaimOf(Event(k))
      BY <1>0, <3>1, <3>3, <3>5 DEF ClaimsInv, ClaimInv, Solid
    <3>7. BatchEnd(k)
      BY <1>1, <3>2, <3>5 DEF BatchEnd
    <3>8. ~Crossed(Result(k)) /\ (Event(k).kind = "change" => Agrees(Event(k), Result(k)))
      BY <3>0, <3>7 DEF Implausible
    <3>9. CASE Event(k).kind = "change"
      <4>1. claimed[k].bid = Event(k).bid /\ claimed[k].ask = Event(k).ask
        BY <3>6, <3>9 DEF ClaimOf
      <4> QED BY <3>0, <3>8, <3>9, <4>1 DEF Agrees
    <3>10. CASE Event(k).kind # "change"
      <4>1. claimed[k].bid = None /\ claimed[k].ask = None
        BY <3>6, <3>10 DEF ClaimOf, Unquoted
      <4> QED BY <3>0, <3>8, <4>1 DEF Agrees
    <3> QED BY <3>9, <3>10
  <2> QED BY <1>0, <2>1, <2>2, <2>3
<1>4. AgreeInv'
  <2> SUFFICES ASSUME NEW q \in Tokens \ conflict', since'[q] # None, ~traded'[q],
                      \A i \in Solid(batch'[q]) : i <= Replayed(q)'
               PROVE  ~Crossed(book'[q]) /\ Agrees(claimed'[q], book'[q])
    BY DEF AgreeInv, Plausible
  <2>1. CASE q = k
    BY <1>0, <1>3, <2>1
  <2>2. CASE q # k
    <3>1. q \in Tokens \ conflict /\ since[q] # None /\ ~traded[q] /\ Replayed(q)' = Replayed(q) /\ batch'[q] = batch[q]
      BY <1>0, <1>1, <1>2, <2>2
    <3>2. Plausible(q)
      BY <3>1 DEF ClaimsInv, AgreeInv
    <3> QED BY <1>0, <1>2, <2>2, <3>2 DEF Plausible
  <2> QED BY <2>1, <2>2
<1>5. ClaimInv'
  BY <1>0 DEF ClaimsInv, ClaimInv
<1>6. SampleInv'
  BY <1>0 DEF SampleInv
<1> QED BY <1>4, <1>5, <1>6 DEF ClaimsInv

LEMMA ClaimsNext == Types /\ PlaceInv /\ ClaimsInv /\ [Next]_vars => ClaimsInv'
<1> SUFFICES ASSUME Types, PlaceInv, ClaimsInv, [Next]_vars PROVE ClaimsInv'
  OBVIOUS
<1>0. /\ Busy \subseteq Tokens
      /\ \A q \in Tokens : next[q] \in Nat \ {0} /\ batch[q] \in Seq(Row) /\ Len(batch[q]) \in Nat
  BY BookReplayAssumption DEF Types
<1>1. CASE Deliver
  <2>1. /\ pc = "recording" /\ pc' = "replay" /\ \A q \in Tokens : next'[q] = 1
        /\ UNCHANGED <<clock, batch, claimed, traded, book, since, conflict>>
    BY <1>1 DEF Deliver, archive
  <2>2. \A q \in Tokens : Replayed(q) = 0 /\ Replayed(q)' = 0 /\ (Plausible(q)' <=> Plausible(q))
    BY <2>1 DEF Replayed, Plausible
  <2> QED BY <2>1, <2>2 DEF ClaimsInv, ClaimInv, AgreeInv, SampleInv
<1>2. CASE \E k \in Tokens : Snapshot(k) \/ Message(k) \/ TickSize(k) \/ Trade(k)
  BY <1>2, ClaimStep, ClaimsGrow
<1>3. CASE Sample
  <2>1. /\ pc = "replay" /\ pc' = "sampled"
        /\ UNCHANGED <<clock, batch, claimed, traded, next, book, since, conflict>>
    BY <1>3 DEF Sample, archive, replay
  <2>2. \A q \in Tokens : Replayed(q)' = Replayed(q) /\ (Plausible(q)' <=> Plausible(q))
    BY <2>1 DEF Replayed, Plausible
  <2>3. SampleInv'
    BY <1>3, <2>1 DEF Sample, SampleInv, Covered
  <2> QED BY <2>1, <2>2, <2>3 DEF ClaimsInv, ClaimInv, AgreeInv
<1>4. CASE Pass
  <2>1. /\ pc = "sampled" /\ pc' = "recording" /\ \A q \in Tokens : batch'[q] = <<>>
        /\ UNCHANGED <<claimed, traded, book, since, conflict>>
    BY <1>4 DEF Pass, replay
  <2>2. \A q \in Tokens : KeptIn(batch'[q]) = {}
    BY <2>1 DEF KeptIn
  <2>3. \A q \in Tokens \ conflict : \A i \in Solid(batch[q]) : i <= Replayed(q)
    <3> TAKE q \in Tokens \ conflict
    <3>1. Replayed(q) = Len(batch[q])
      BY <2>1 DEF PlaceInv
    <3>2. \A i \in Solid(batch[q]) : i \in 1..Len(batch[q])
      BY <1>0 DEF Solid, KeptIn
    <3> QED BY <1>0, <3>1, <3>2
  <2>4. AgreeInv'
    BY <2>1, <2>3 DEF ClaimsInv, AgreeInv, Plausible
  <2>5. ClaimInv' /\ SampleInv'
    BY <2>1, <2>2 DEF ClaimInv, SampleInv, IsLast
  <2> QED BY <2>4, <2>5 DEF ClaimsInv
<1>5. CASE Conclude
  <2>1. /\ pc = "sampled" /\ pc' = "done"
        /\ UNCHANGED <<clock, batch, claimed, traded, next, book, since, conflict, sample>>
    BY <1>5 DEF Conclude, archive, replay
  <2>2. \A q \in Tokens : Replayed(q)' = Replayed(q) /\ (Plausible(q)' <=> Plausible(q))
    BY <2>1 DEF Replayed, Plausible
  <2> QED BY <2>1, <2>2 DEF ClaimsInv, ClaimInv, AgreeInv, SampleInv
<1>6. CASE \E k \in Tokens : Reconstruct(k)
  BY <1>6, ClaimsReplay
<1>7. CASE UNCHANGED vars
  <2>1. UNCHANGED <<clock, pc, batch, claimed, traded, next, book, since, conflict, sample>>
    BY <1>7 DEF vars, archive, replay, resample
  <2>2. \A q \in Tokens : Replayed(q)' = Replayed(q) /\ (Plausible(q)' <=> Plausible(q))
    BY <2>1 DEF Replayed, Plausible
  <2> QED BY <2>1, <2>2 DEF ClaimsInv, ClaimInv, AgreeInv, SampleInv
<1> QED BY <1>0, <1>1, <1>2, <1>3, <1>4, <1>5, <1>6, <1>7 DEF Next, Live, Transform

LEMMA GridShowsBooks ==
  ASSUME PlaceInv, ClaimsInv, Types
  PROVE  UntradedBatchAgrees
<1> SUFFICES ASSUME pc = "sampled", clock \in Grid, NEW k \in Tokens \ conflict, sample[k] # None, ~traded[k]
             PROVE  ~Crossed(sample[k]) /\ Agrees(claimed[k], sample[k])
  BY DEF UntradedBatchAgrees, AtGrid
<1>1. since[k] # None /\ sample[k] = book[k]
  BY DEF ClaimsInv, SampleInv
<1>2. Replayed(k) = Len(batch[k]) /\ batch[k] \in Seq(Row)
  BY DEF PlaceInv, Types
<1>3. \A i \in Solid(batch[k]) : i <= Replayed(k)
  BY <1>2 DEF Solid, KeptIn
<1>4. Plausible(k)
  BY <1>1, <1>3 DEF ClaimsInv, AgreeInv
<1> QED BY <1>1, <1>4 DEF Plausible

\* BookReconstructor and resample_200ms: whatever rows are lost or repeated, the
\* grid shows an uncrossed book with the quotes claimed last, unless a trade
\* ends the batch.
THEOREM UntradedAgrees == Spec => []UntradedBatchAgrees
<1>1. Init => ClaimsInv
  BY ClaimsInit
<1>2. (Types /\ PlaceInv /\ FirstInv) /\ ClaimsInv /\ [Next]_vars => ClaimsInv'
  BY ClaimsNext
<1>3. (Types /\ PlaceInv /\ FirstInv) /\ ClaimsInv => UntradedBatchAgrees
  BY GridShowsBooks
<1> QED BY <1>1, <1>2, <1>3, Placed, PTL DEF Spec

-----------------------------------------------------------------------------
(***************************************************************************)
(* The books of the venue along the rows of a batch.                       *)
(***************************************************************************)

\* The first n changes of a message.
Upto(cs, n) == [i \in 1..n |-> cs[i]]

LEMMA AfterNone ==
  ASSUME NEW b \in Book, NEW cs
  PROVE  After(b, Upto(cs, 0)) = b
<1>1. b = [bids |-> b.bids, asks |-> b.asks] /\ b.bids \subseteq Price /\ b.asks \subseteq Price
  BY DEF Book
<1>2. \A sd, p : Touching(Upto(cs, 0), sd, p) = {}
  BY DEF Touching, Upto
<1>3. \A sd : \A old \in SUBSET Price : Level(old, Upto(cs, 0), sd) = old
  BY <1>2 DEF Level
<1> QED BY <1>1, <1>3 DEF After

LEMMA AfterAll ==
  ASSUME NEW b, NEW cs \in Seq(Change)
  PROVE  After(b, Upto(cs, Len(cs))) = After(b, cs)
<1>1. Upto(cs, Len(cs)) = cs
  BY DEF Upto
<1> QED BY <1>1

\* One change more, for one side.
OneMore(level, c, side) ==
  IF c.side # side THEN level ELSE IF c.present THEN level \cup {c.price} ELSE level \ {c.price}

LEMMA LevelStep ==
  ASSUME NEW old \in SUBSET Price, NEW cs \in Seq(Change), NEW n \in Nat, n + 1 \in 1..Len(cs),
         NEW sd
  PROVE  Level(old, Upto(cs, n + 1), sd) = OneMore(Level(old, Upto(cs, n), sd), cs[n + 1], sd)
<1> DEFINE c == cs[n + 1]
           F(p) == Touching(Upto(cs, n), sd, p)
           T(p) == Touching(Upto(cs, n + 1), sd, p)
<1>0. c \in Change /\ c.price \in Price /\ c.present \in BOOLEAN
  <2>1. cs[n + 1] \in Change
    OBVIOUS
  <2>2. \A x \in Change : x.price \in Price /\ x.present \in BOOLEAN
    BY DEF Change
  <2> QED BY <2>1, <2>2
<1>1. ASSUME NEW p
      PROVE  /\ \A i \in F(p) : i \in 1..n /\ i \in T(p) /\ Upto(cs, n + 1)[i] = Upto(cs, n)[i]
             /\ ~(c.side = sd /\ c.price = p) => T(p) = F(p)
             /\ c.side = sd /\ c.price = p => n + 1 \in T(p) /\ \A i \in T(p) : i <= n + 1
  <2>1. F(p) = {i \in 1..n : cs[i].side = sd /\ cs[i].price = p}
    BY DEF Touching, Upto
  <2>2. T(p) = {i \in 1..(n + 1) : cs[i].side = sd /\ cs[i].price = p}
    BY DEF Touching, Upto
  <2>3. \A i \in 1..n : i \in 1..(n + 1) /\ Upto(cs, n + 1)[i] = Upto(cs, n)[i]
    BY DEF Upto
  <2>4. \A i \in 1..(n + 1) : i \in 1..n \/ i = n + 1
    OBVIOUS
  <2>5. n + 1 \in 1..(n + 1) /\ \A i \in 1..(n + 1) : i <= n + 1
    OBVIOUS
  <2> HIDE DEF F, T
  <2> QED BY <2>1, <2>2, <2>3, <2>4, <2>5
<1>2. Upto(cs, n + 1)[n + 1] = c
  BY DEF Upto
<1> DEFINE Was(p) == (p \in old /\ F(p) = {}) \/ \E i \in F(p) : Upto(cs, n)[i].present /\ \A j \in F(p) : j <= i
           Is(p)  == (p \in old /\ T(p) = {}) \/ \E i \in T(p) : Upto(cs, n + 1)[i].present /\ \A j \in T(p) : j <= i
<1>3. /\ Level(old, Upto(cs, n), sd) = {p \in Price : Was(p)}
      /\ Level(old, Upto(cs, n + 1), sd) = {p \in Price : Is(p)}
  BY DEF Level
<1> HIDE DEF F, T, c
<1>4. ASSUME NEW p, ~(c.side = sd /\ c.price = p)
      PROVE  Is(p) <=> Was(p)
  <2>1. T(p) = F(p) /\ \A i \in F(p) : Upto(cs, n + 1)[i] = Upto(cs, n)[i]
    BY <1>1, <1>4
  <2> QED BY <2>1
<1>5. ASSUME NEW p, c.side = sd, c.price = p
      PROVE  Is(p) <=> c.present
  <2>1. n + 1 \in T(p) /\ \A i \in T(p) : i <= n + 1
    BY <1>1, <1>5
  <2>2. \A i \in T(p) : (\A j \in T(p) : j <= i) => i = n + 1
    <3> SUFFICES ASSUME NEW i \in T(p), n + 1 <= i, i <= n + 1 PROVE i = n + 1
      BY <2>1
    <3>1. T(p) \subseteq Int
      BY DEF T, Touching, Upto
    <3> QED BY <3>1
  <2> QED BY <1>2, <2>1, <2>2
<1> HIDE DEF Was, Is
<1>6. CASE c.side # sd
  BY <1>3, <1>4, <1>6 DEF c, OneMore
<1>7. CASE c.side = sd /\ c.present
  <2>1. \A p \in Price : Is(p) <=> Was(p) \/ p = c.price
    BY <1>4, <1>5, <1>7
  <2>2. {p \in Price : Is(p)} = {p \in Price : Was(p)} \cup {c.price}
    BY <1>0, <2>1
  <2> QED BY <1>3, <1>7, <2>2 DEF c, OneMore
<1>8. CASE c.side = sd /\ ~c.present
  <2>1. \A p \in Price : Is(p) <=> Was(p) /\ p # c.price
    BY <1>4, <1>5, <1>8
  <2>2. {p \in Price : Is(p)} = {p \in Price : Was(p)} \ {c.price}
    BY <1>0, <2>1
  <2> QED BY <1>3, <1>8, <2>2 DEF c, OneMore
<1> QED BY <1>6, <1>7, <1>8

LEMMA AfterStep ==
  ASSUME NEW b \in Book, NEW cs \in Seq(Change), NEW n \in Nat, n + 1 \in 1..Len(cs)
  PROVE  After(b, Upto(cs, n + 1)) = SetLevel(After(b, Upto(cs, n)), cs[n + 1])
<1> DEFINE a == After(b, Upto(cs, n))
           c == cs[n + 1]
<1>0. b.bids \in SUBSET Price /\ b.asks \in SUBSET Price /\ c \in Change /\ c.side \in {"bids", "asks"}
  <2>1. cs[n + 1] \in Change
    OBVIOUS
  <2>2. \A x \in Change : x.side \in {"bids", "asks"}
    BY DEF Change
  <2>3. b.bids \in SUBSET Price /\ b.asks \in SUBSET Price
    BY DEF Book
  <2> QED BY <2>1, <2>2, <2>3
<1>1. a \in Book /\ a.bids = Level(b.bids, Upto(cs, n), "bids") /\ a.asks = Level(b.asks, Upto(cs, n), "asks")
  <2>1. a \in Book
    BY AfterType
  <2> QED BY <2>1 DEF After
<1>2. After(b, Upto(cs, n + 1)) = [bids |-> Level(b.bids, Upto(cs, n + 1), "bids"),
                                   asks |-> Level(b.asks, Upto(cs, n + 1), "asks")]
  BY DEF After
<1>3. Level(b.bids, Upto(cs, n + 1), "bids") = OneMore(a.bids, c, "bids")
  BY <1>0, <1>1, LevelStep
<1>4. Level(b.asks, Upto(cs, n + 1), "asks") = OneMore(a.asks, c, "asks")
  BY <1>0, <1>1, LevelStep
<1> HIDE DEF a, c
<1>5. CASE c.side = "bids"
  <2>1. SetLevel(a, c) = [bids |-> IF c.present THEN a.bids \cup {c.price} ELSE a.bids \ {c.price}, asks |-> a.asks]
    BY <1>0, <1>1, <1>5, SetLevelType
  <2> QED BY <1>2, <1>3, <1>4, <1>5, <2>1 DEF a, c, OneMore
<1>6. CASE c.side = "asks"
  <2>1. SetLevel(a, c) = [bids |-> a.bids, asks |-> IF c.present THEN a.asks \cup {c.price} ELSE a.asks \ {c.price}]
    BY <1>0, <1>1, <1>6, SetLevelType
  <2> QED BY <1>2, <1>3, <1>4, <1>6, <2>1 DEF a, c, OneMore
<1> QED BY <1>0, <1>5, <1>6

\* h has the venue's books from the row s of a batch on, where s is a snapshot,
\* or the beginning: after the last change it is the book now.
Traces(rows, s, h, now) ==
  /\ s \in 0..Len(rows) /\ h \in [s..Len(rows) -> Book]
  /\ s > 0 => s \in KeptIn(rows) /\ rows[s].kind = "book" /\ h[s] = rows[s].book
  /\ \A i \in (s + 1)..Len(rows) :
       /\ rows[i].kind = "change" => i \in KeptIn(rows) /\ h[i] = SetLevel(h[i - 1], rows[i].change)
       /\ rows[i].kind = "book" => h[i] = rows[i].book
       /\ rows[i].kind # "change" => h[i] = h[i - 1]
  /\ \A i \in s..Len(rows) :
       (\A j \in (i + 1)..Len(rows) : rows[j].kind # "change") => h[i] = now

LEMMA JoinedFacts ==
  ASSUME NEW u, NEW s, NEW t, Joined(u, s, t)
  PROVE  /\ Len(s) \in Nat /\ Len(t) \in Nat /\ Len(u) = Len(s) + Len(t)
         /\ \A i \in 1..Len(s) : u[i] = s[i] /\ (i \in KeptIn(s) => i \in KeptIn(u))
         /\ \A i \in 1..Len(t) : u[Len(s) + i] = t[i]
         /\ \A i \in (Len(s) + 1)..Len(u) : i - Len(s) \in 1..Len(t) /\ u[i] = t[i - Len(s)]
         /\ IsInjective(t) /\ Range(t) \cap Range(s) = {} => \A i \in (Len(s) + 1)..Len(u) : i \in KeptIn(u)
<1>0. s \in Seq(Row) /\ t \in Seq(Row) /\ u = s \o t
  BY DEF Joined
<1>1. /\ Len(s) \in Nat /\ Len(t) \in Nat /\ Len(u) = Len(s) + Len(t)
      /\ \A i \in 1..Len(s) : u[i] = s[i]
      /\ \A i \in 1..Len(t) : u[Len(s) + i] = t[i]
  BY <1>0, Concat
<1>2. /\ \A i \in 1..Len(s) : i \in KeptIn(u) <=> i \in KeptIn(s)
      /\ IsInjective(t) /\ Range(t) \cap Range(s) = {} => \A i \in 1..Len(t) : Len(s) + i \in KeptIn(u)
  BY <1>0, KeptGrows
<1>3. \A i \in (Len(s) + 1)..Len(u) : i - Len(s) \in 1..Len(t) /\ i = Len(s) + (i - Len(s))
  BY <1>1
<1>4. \A i \in (Len(s) + 1)..Len(u) : u[i] = t[i - Len(s)]
  BY <1>1, <1>3
<1>5. IsInjective(t) /\ Range(t) \cap Range(s) = {} => \A i \in (Len(s) + 1)..Len(u) : i \in KeptIn(u)
  BY <1>2, <1>3
<1> QED BY <1>1, <1>2, <1>3, <1>4, <1>5

\* Rows t are added to a batch, along which the books of the venue are g.
Leads(u, rows, t, g, now, then) ==
  /\ g \in [0..Len(t) -> Book] /\ g[0] = now
  /\ \A n \in 1..Len(t) :
       /\ t[n].kind = "change" => Len(rows) + n \in KeptIn(u) /\ g[n] = SetLevel(g[n - 1], t[n].change)
       /\ t[n].kind = "book" => g[n] = t[n].book
       /\ t[n].kind # "change" => g[n] = g[n - 1]
  /\ \A n \in 0..Len(t) : (\A j \in (n + 1)..Len(t) : t[j].kind # "change") => g[n] = then

LEMMA TraceGrows ==
  ASSUME NEW u, NEW rows, NEW t, Joined(u, rows, t), NEW s, NEW h, NEW now, Traces(rows, s, h, now),
         NEW then, NEW g, Leads(u, rows, t, g, now, then)
  PROVE  \E f : Traces(u, s, f, then) /\ \A i \in s..Len(rows) : f[i] = h[i]
<1> DEFINE f == [i \in s..Len(u) |-> IF i <= Len(rows) THEN h[i] ELSE g[i - Len(rows)]]
<1>0. /\ Len(rows) \in Nat /\ Len(t) \in Nat /\ Len(u) = Len(rows) + Len(t)
      /\ \A i \in 1..Len(rows) : u[i] = rows[i] /\ (i \in KeptIn(rows) => i \in KeptIn(u))
      /\ \A i \in 1..Len(t) : u[Len(rows) + i] = t[i]
      /\ \A i \in (Len(rows) + 1)..Len(u) : i - Len(rows) \in 1..Len(t) /\ u[i] = t[i - Len(rows)]
  BY JoinedFacts
<1>a. /\ g \in [0..Len(t) -> Book] /\ g[0] = now
      /\ \A n \in 1..Len(t) :
           /\ t[n].kind = "change" => Len(rows) + n \in KeptIn(u) /\ g[n] = SetLevel(g[n - 1], t[n].change)
           /\ t[n].kind = "book" => g[n] = t[n].book
           /\ t[n].kind # "change" => g[n] = g[n - 1]
      /\ \A n \in 0..Len(t) : (\A j \in (n + 1)..Len(t) : t[j].kind # "change") => g[n] = then
  BY DEF Leads
<1>1. /\ s \in 0..Len(rows) /\ h \in [s..Len(rows) -> Book]
      /\ s > 0 => s \in KeptIn(rows) /\ rows[s].kind = "book" /\ h[s] = rows[s].book
      /\ \A i \in (s + 1)..Len(rows) :
           /\ rows[i].kind = "change" => i \in KeptIn(rows) /\ h[i] = SetLevel(h[i - 1], rows[i].change)
           /\ rows[i].kind = "book" => h[i] = rows[i].book
           /\ rows[i].kind # "change" => h[i] = h[i - 1]
      /\ \A i \in s..Len(rows) : (\A j \in (i + 1)..Len(rows) : rows[j].kind # "change") => h[i] = now
  BY DEF Traces
<1>2. h[Len(rows)] = now
  <2>1. Len(rows) \in s..Len(rows) /\ \A j \in (Len(rows) + 1)..Len(rows) : rows[j].kind # "change"
    BY <1>0, <1>1
  <2> QED BY <1>1, <2>1
<1>3. \A i \in s..Len(rows) : f[i] = h[i]
  BY <1>0, <1>1
<1>4. \A i \in Len(rows)..Len(u) : i - Len(rows) \in 0..Len(t) /\ f[i] = g[i - Len(rows)]
  <2> TAKE i \in Len(rows)..Len(u)
  <2>1. i - Len(rows) \in 0..Len(t) /\ i \in s..Len(u)
    BY <1>0, <1>1
  <2>2. CASE i = Len(rows)
    BY <1>0, <1>2, <1>a, <2>1, <2>2
  <2>3. CASE i # Len(rows)
    BY <1>0, <2>1, <2>3
  <2> QED BY <2>1, <2>2, <2>3
<1>5. f \in [s..Len(u) -> Book]
  <2> SUFFICES ASSUME NEW i \in s..Len(u)
               PROVE  (IF i <= Len(rows) THEN h[i] ELSE g[i - Len(rows)]) \in Book
    OBVIOUS
  <2>1. CASE i <= Len(rows)
    <3>1. i \in s..Len(rows)
      BY <1>0, <1>1, <2>1
    <3> QED BY <1>1, <2>1, <3>1
  <2>2. CASE ~(i <= Len(rows))
    <3>1. i - Len(rows) \in 0..Len(t)
      BY <1>0, <1>1, <2>2
    <3> QED BY <1>a, <2>2, <3>1
  <2> QED BY <2>1, <2>2
<1> HIDE DEF f
<1>6. s > 0 => s \in KeptIn(u) /\ u[s].kind = "book" /\ f[s] = u[s].book
  <2> HAVE s > 0
  <2>1. s \in 1..Len(rows) /\ s \in s..Len(rows)
    BY <1>0, <1>1
  <2> QED BY <1>0, <1>1, <1>3, <2>1
<1>7. ASSUME NEW i \in (s + 1)..Len(u)
      PROVE  /\ u[i].kind = "change" => i \in KeptIn(u) /\ f[i] = SetLevel(f[i - 1], u[i].change)
             /\ u[i].kind = "book" => f[i] = u[i].book
             /\ u[i].kind # "change" => f[i] = f[i - 1]
  <2>1. CASE i <= Len(rows)
    <3>1. i \in 1..Len(rows) /\ i \in s..Len(rows) /\ i - 1 \in s..Len(rows) /\ i \in (s + 1)..Len(rows)
      BY <1>0, <1>1, <2>1
    <3>2. u[i] = rows[i] /\ f[i] = h[i] /\ f[i - 1] = h[i - 1] /\ (i \in KeptIn(rows) => i \in KeptIn(u))
      BY <1>0, <1>3, <3>1
    <3> QED BY <1>1, <3>1, <3>2
  <2>2. CASE ~(i <= Len(rows))
    <3>1. /\ i \in (Len(rows) + 1)..Len(u) /\ i \in Len(rows)..Len(u) /\ i - 1 \in Len(rows)..Len(u)
          /\ i - 1 - Len(rows) = (i - Len(rows)) - 1 /\ Len(rows) + (i - Len(rows)) = i
      BY <1>0, <1>1, <2>2
    <3>2. PICK n : n = i - Len(rows)
      OBVIOUS
    <3>3. n \in 1..Len(t) /\ u[i] = t[n] /\ f[i] = g[n] /\ f[i - 1] = g[n - 1] /\ Len(rows) + n = i
      BY <1>0, <1>4, <3>1, <3>2
    <3> QED BY <1>a, <3>3
  <2> QED BY <2>1, <2>2
<1>8. ASSUME NEW i \in s..Len(u), \A j \in (i + 1)..Len(u) : u[j].kind # "change"
      PROVE  f[i] = then
  <2>1. CASE i <= Len(rows)
    <3>1. \A j \in 1..Len(t) : t[j].kind # "change"
      <4> TAKE j \in 1..Len(t)
      <4>1. Len(rows) + j \in (i + 1)..Len(u) /\ u[Len(rows) + j] = t[j]
        BY <1>0, <1>1, <2>1
      <4> QED BY <1>8, <4>1
    <3>2. 0 \in 0..Len(t) /\ \A j \in (0 + 1)..Len(t) : t[j].kind # "change"
      BY <1>0, <3>1
    <3>3. now = then
      BY <1>a, <3>2
    <3>4. i \in s..Len(rows) /\ \A j \in (i + 1)..Len(rows) : rows[j].kind # "change"
      <4>1. i \in s..Len(rows)
        BY <1>0, <1>1, <2>1
      <4>2. \A j \in (i + 1)..Len(rows) : j \in (i + 1)..Len(u) /\ j \in 1..Len(rows)
        BY <1>0, <1>1, <4>1
      <4> QED BY <1>0, <1>8, <4>1, <4>2
    <3> QED BY <1>1, <1>3, <3>3, <3>4
  <2>2. CASE ~(i <= Len(rows))
    <3>1. i \in Len(rows)..Len(u) /\ i \in Int
      BY <1>0, <1>1, <2>2
    <3>2. PICK n : n = i - Len(rows)
      OBVIOUS
    <3>3. n \in 0..Len(t) /\ f[i] = g[n]
      BY <1>4, <3>1, <3>2
    <3>4. \A j \in (n + 1)..Len(t) : t[j].kind # "change"
      <4> TAKE j \in (n + 1)..Len(t)
      <4>1. Len(rows) + j \in (i + 1)..Len(u) /\ j \in 1..Len(t)
        BY <1>0, <3>1, <3>2, <3>3
      <4> QED BY <1>0, <1>8, <4>1
    <3> QED BY <1>a, <3>3, <3>4
  <2> QED BY <2>1, <2>2
<1>9. s \in 0..Len(u)
  BY <1>0, <1>1
<1>10. Traces(u, s, f, then)
  BY <1>5, <1>6, <1>7, <1>8, <1>9 DEF Traces
<1> QED BY <1>3, <1>10

\* A snapshot that counts begins anew.
Shows(t, now) == Len(t) = 1 /\ t[1].kind = "book" /\ t[1].book = now

LEMMA TraceStart ==
  ASSUME NEW u, NEW rows, NEW t, Joined(u, rows, t), NEW now \in Book, Shows(t, now), Len(rows) + 1 \in KeptIn(u)
  PROVE  Traces(u, Len(rows) + 1, [i \in (Len(rows) + 1)..(Len(rows) + 1) |-> now], now)
<1>0. /\ Len(rows) \in Nat /\ Len(u) = Len(rows) + Len(t)
      /\ \A i \in 1..Len(t) : u[Len(rows) + i] = t[i]
  BY JoinedFacts
<1>1. PICK s : s = Len(rows) + 1
  OBVIOUS
<1>2. s \in Nat /\ s > 0 /\ u[s] = t[1] /\ Len(u) = s /\ s \in KeptIn(u)
  BY <1>0, <1>1 DEF Shows
<1> DEFINE f == [i \in s..s |-> now]
<1>3. f \in [s..s -> Book] /\ f[s] = now /\ s..s = {s} /\ (s + 1)..s = {}
  BY <1>2
<1> HIDE DEF f
<1>4. Traces(u, s, f, now)
  BY <1>2, <1>3 DEF Traces, Shows
<1> QED BY <1>1, <1>4 DEF f

\* Rows that change nothing.
LEMMA TraceStays ==
  ASSUME NEW u, NEW rows, NEW t, Joined(u, rows, t), NEW s, NEW h, NEW now \in Book, Traces(rows, s, h, now),
         \A n \in 1..Len(t) : t[n].kind # "change" /\ (t[n].kind = "book" => t[n].book = now)
  PROVE  \E f : Traces(u, s, f, now) /\ \A i \in s..Len(rows) : f[i] = h[i]
<1> DEFINE g == [n \in 0..Len(t) |-> now]
<1>0. Len(t) \in Nat
  BY JoinedFacts
<1>1. g \in [0..Len(t) -> Book] /\ \A n \in 0..Len(t) : g[n] = now
  OBVIOUS
<1>2. \A n \in 1..Len(t) : n \in 0..Len(t) /\ n - 1 \in 0..Len(t)
  BY <1>0
<1>3. 0 \in 0..Len(t)
  BY <1>0
<1> HIDE DEF g
<1>4. g[0] = now
  BY <1>1, <1>3
<1>5. \A n \in 1..Len(t) :
           /\ t[n].kind = "change" => Len(rows) + n \in KeptIn(u) /\ g[n] = SetLevel(g[n - 1], t[n].change)
           /\ t[n].kind = "book" => g[n] = t[n].book
           /\ t[n].kind # "change" => g[n] = g[n - 1]
  BY <1>1, <1>2
<1>6. \A n \in 0..Len(t) : (\A j \in (n + 1)..Len(t) : t[j].kind # "change") => g[n] = now
  BY <1>1
<1>7. Leads(u, rows, t, g, now, now)
  BY <1>1, <1>4, <1>5, <1>6 DEF Leads
<1> QED BY <1>7, TraceGrows

\* The rows of a message, all of which count.
LEMMA TraceMoves ==
  ASSUME NEW u, NEW rows, NEW t, Joined(u, rows, t), NEW s, NEW h, NEW now \in Book, Traces(rows, s, h, now),
         NEW cs \in Seq(Change), Len(t) = Len(cs), IsInjective(t), Range(t) \cap Range(rows) = {},
         \A n \in 1..Len(cs) : t[n].kind = "change" /\ t[n].change = cs[n]
  PROVE  \E f : Traces(u, s, f, After(now, cs)) /\ \A i \in s..Len(rows) : f[i] = h[i]
<1> DEFINE g == [n \in 0..Len(t) |-> After(now, Upto(cs, n))]
<1>0. Len(t) \in Nat /\ Len(cs) = Len(t)
  BY JoinedFacts
<1>1. g \in [0..Len(t) -> Book] /\ \A n \in 0..Len(t) : g[n] = After(now, Upto(cs, n))
  BY AfterType
<1>2. \A n \in 1..Len(t) : n \in 0..Len(t) /\ n - 1 \in 0..Len(t)
  BY <1>0
<1> HIDE DEF g
<1>4. g[0] = now
  <2>1. 0 \in 0..Len(t)
    BY <1>0
  <2> QED BY <1>1, <2>1, AfterNone
<1>5. \A n \in 1..Len(t) : Len(rows) + n \in KeptIn(u)
  <2>1. Len(rows) \in Nat /\ Len(u) = Len(rows) + Len(t) /\ \A i \in (Len(rows) + 1)..Len(u) : i \in KeptIn(u)
    BY JoinedFacts
  <2>2. \A n \in 1..Len(t) : Len(rows) + n \in (Len(rows) + 1)..Len(u)
    BY <1>0, <2>1
  <2> QED BY <2>1, <2>2
<1>6. \A n \in 1..Len(t) : g[n] = SetLevel(g[n - 1], cs[n])
  <2> TAKE n \in 1..Len(t)
  <2>1. PICK m : m = n - 1
    OBVIOUS
  <2>2. m \in Nat /\ m + 1 = n /\ m + 1 \in 1..Len(cs) /\ m \in 0..Len(t) /\ n \in 0..Len(t)
    BY <1>0, <2>1
  <2>3. After(now, Upto(cs, m + 1)) = SetLevel(After(now, Upto(cs, m)), cs[m + 1])
    BY <2>2, AfterStep
  <2> QED BY <1>1, <2>1, <2>2, <2>3
<1>7. \A n \in 1..Len(t) :
           /\ t[n].kind = "change" => Len(rows) + n \in KeptIn(u) /\ g[n] = SetLevel(g[n - 1], t[n].change)
           /\ t[n].kind = "book" => g[n] = t[n].book
           /\ t[n].kind # "change" => g[n] = g[n - 1]
  BY <1>0, <1>5, <1>6
<1>8. \A n \in 0..Len(t) : (\A j \in (n + 1)..Len(t) : t[j].kind # "change") => g[n] = After(now, cs)
  <2> SUFFICES ASSUME NEW n \in 0..Len(t), \A j \in (n + 1)..Len(t) : t[j].kind # "change"
               PROVE  g[n] = After(now, cs)
    OBVIOUS
  <2>1. CASE n = Len(t)
    BY <1>0, <1>1, <2>1, AfterAll
  <2>2. CASE n # Len(t)
    <3>1. n + 1 \in (n + 1)..Len(t) /\ n + 1 \in 1..Len(cs)
      BY <1>0, <2>2
    <3> QED BY <3>1
  <2> QED BY <2>1, <2>2
<1>9. Leads(u, rows, t, g, now, After(now, cs))
  BY <1>1, <1>4, <1>7, <1>8 DEF Leads
<1> QED BY <1>9, TraceGrows

\* After the last row that counts it is the book now.
LEMMA EndOfBatch ==
  ASSUME NEW rows \in Seq(Row), NEW s, NEW h, NEW now, Traces(rows, s, h, now),
         NEW n \in 1..Len(rows), \A i \in KeptIn(rows) : i <= n
  PROVE  n \in s..Len(rows) /\ h[n] = now
<1>1. s \in 0..Len(rows) /\ (s > 0 => s \in KeptIn(rows))
  BY DEF Traces
<1>2. n \in s..Len(rows)
  BY <1>1
<1>3. \A j \in (n + 1)..Len(rows) : rows[j].kind # "change"
  <2> SUFFICES ASSUME NEW j \in (n + 1)..Len(rows), rows[j].kind = "change" PROVE FALSE
    OBVIOUS
  <2>1. j \in (s + 1)..Len(rows) /\ j > n /\ ~(j <= n)
    BY <1>1, <1>2
  <2>2. j \in KeptIn(rows)
    BY <2>1 DEF Traces
  <2> QED BY <2>1, <2>2
<1> QED BY <1>2, <1>3 DEF Traces

-----------------------------------------------------------------------------
(***************************************************************************)
(* The tick sizes of the venue along the rows of a batch.                  *)
(***************************************************************************)
Paces(rows, w, now) ==
  /\ w \in [0..Len(rows) -> Ticks] /\ w[Len(rows)] = now
  /\ \A i \in 1..Len(rows) :
       /\ rows[i].kind = "tick" => rows[i].old = w[i - 1] /\ rows[i].new = w[i]
       /\ rows[i].kind # "tick" => w[i] = w[i - 1]

\* The rows t lead from the tick size now to then: at most one row does it.
Steps(t, now, then) ==
  /\ Len(t) \in 0..1 \/ \A i \in 1..Len(t) : t[i].kind # "tick"
  /\ \A i \in 1..Len(t) : t[i].kind = "tick" => t[i].old = now /\ t[i].new = then
  /\ (\A i \in 1..Len(t) : t[i].kind # "tick") => then = now

LEMMA PacesGrow ==
  ASSUME NEW u, NEW rows, NEW t, Joined(u, rows, t), NEW w, NEW now, Paces(rows, w, now),
         NEW then \in Ticks, Steps(t, now, then)
  PROVE  \E f : Paces(u, f, then) /\ f[0] = w[0]
<1> DEFINE f == [i \in 0..Len(u) |-> IF i <= Len(rows) THEN w[i] ELSE then]
<1>0. /\ Len(rows) \in Nat /\ Len(t) \in Nat /\ Len(u) = Len(rows) + Len(t)
      /\ \A i \in 1..Len(rows) : u[i] = rows[i]
      /\ \A i \in (Len(rows) + 1)..Len(u) : i - Len(rows) \in 1..Len(t) /\ u[i] = t[i - Len(rows)]
  BY JoinedFacts
<1>1. /\ w \in [0..Len(rows) -> Ticks] /\ w[Len(rows)] = now
      /\ \A i \in 1..Len(rows) :
           /\ rows[i].kind = "tick" => rows[i].old = w[i - 1] /\ rows[i].new = w[i]
           /\ rows[i].kind # "tick" => w[i] = w[i - 1]
  BY DEF Paces
<1>a. \A i \in 0..Len(u) : f[i] = IF i <= Len(rows) THEN w[i] ELSE then
  OBVIOUS
<1>2. f \in [0..Len(u) -> Ticks]
  <2> SUFFICES ASSUME NEW i \in 0..Len(u)
               PROVE  (IF i <= Len(rows) THEN w[i] ELSE then) \in Ticks
    OBVIOUS
  <2>1. i <= Len(rows) => i \in 0..Len(rows)
    BY <1>0
  <2> QED BY <1>1, <2>1
<1> HIDE DEF f
<1>3. \A i \in 0..Len(rows) : i \in 0..Len(u) /\ f[i] = w[i]
  <2> TAKE i \in 0..Len(rows)
  <2>1. i \in 0..Len(u) /\ i <= Len(rows)
    BY <1>0
  <2> QED BY <1>a, <2>1
<1>4. \A i \in (Len(rows) + 1)..Len(u) : f[i] = then
  <2> TAKE i \in (Len(rows) + 1)..Len(u)
  <2>1. i \in 0..Len(u) /\ ~(i <= Len(rows))
    BY <1>0
  <2> QED BY <1>a, <2>1
<1>5. f[Len(rows)] = now
  BY <1>0, <1>1, <1>3
<1>6. CASE Len(t) = 0
  <2>1. Len(u) = Len(rows) /\ then = now
    BY <1>0, <1>6 DEF Steps
  <2>2. \A i \in 1..Len(u) : i \in 0..Len(rows) /\ i - 1 \in 0..Len(rows) /\ i \in 1..Len(rows)
    BY <1>0, <2>1
  <2>3. \A i \in 1..Len(u) : u[i] = rows[i] /\ f[i] = w[i] /\ f[i - 1] = w[i - 1]
    BY <1>0, <1>3, <2>2
  <2>4. Paces(u, f, then)
    BY <1>1, <1>2, <1>5, <2>1, <2>2, <2>3 DEF Paces
  <2> QED BY <1>0, <1>3, <2>4
<1>7. CASE Len(t) # 0
  <2>1. f[Len(u)] = then
    BY <1>0, <1>4, <1>7
  <2>2. ASSUME NEW i \in 1..Len(u)
        PROVE  /\ u[i].kind = "tick" => u[i].old = f[i - 1] /\ u[i].new = f[i]
               /\ u[i].kind # "tick" => f[i] = f[i - 1]
    <3>1. CASE i <= Len(rows)
      <4>1. i \in 1..Len(rows) /\ i \in 0..Len(rows) /\ i - 1 \in 0..Len(rows)
        BY <1>0, <3>1
      <4> QED BY <1>0, <1>1, <1>3, <4>1
    <3>2. CASE ~(i <= Len(rows))
      <4>1. PICK n : n = i - Len(rows)
        OBVIOUS
      <4>2. i \in (Len(rows) + 1)..Len(u) /\ n \in 1..Len(t) /\ u[i] = t[n] /\ f[i] = then
        BY <1>0, <1>4, <3>2, <4>1
      <4>3. i - 1 = Len(rows) \/ i - 1 \in (Len(rows) + 1)..Len(u)
        BY <1>0, <4>2
      <4>4. f[i - 1] = now \/ f[i - 1] = then
        BY <1>4, <1>5, <4>3
      <4>5. CASE \A j \in 1..Len(t) : t[j].kind # "tick"
        <5>1. then = now
          BY <4>5 DEF Steps
        <5> QED BY <4>2, <4>4, <4>5, <5>1
      <4>6. CASE ~(\A j \in 1..Len(t) : t[j].kind # "tick")
        <5>1. Len(t) = 1
          BY <1>7, <4>6 DEF Steps
        <5>2. n = 1 /\ i - 1 = Len(rows)
          BY <1>0, <4>1, <4>2, <5>1
        <5>3. t[n].kind = "tick"
          BY <4>6, <5>1, <5>2
        <5> QED BY <1>5, <4>2, <5>2, <5>3 DEF Steps
      <4> QED BY <4>5, <4>6
    <3> QED BY <3>1, <3>2
  <2>3. Paces(u, f, then)
    BY <1>2, <2>1, <2>2 DEF Paces
  <2> QED BY <1>0, <1>3, <2>3
<1> QED BY <1>6, <1>7

\* No row is repeated if the new ones are fresh.
LEMMA InjectiveGrows ==
  ASSUME NEW u, NEW rows, NEW t, Joined(u, rows, t), IsInjective(rows), IsInjective(t),
         Range(t) \cap Range(rows) = {}
  PROVE  IsInjective(u)
<1>0. /\ rows \in Seq(Row) /\ t \in Seq(Row) /\ u \in Seq(Row)
      /\ DOMAIN u = 1..Len(u) /\ DOMAIN rows = 1..Len(rows) /\ DOMAIN t = 1..Len(t)
  <2>1. rows \in Seq(Row) /\ t \in Seq(Row) /\ u = rows \o t
    BY DEF Joined
  <2>2. u \in Seq(Row)
    BY <2>1, Concat
  <2> HIDE <2>1
  <2> QED BY <2>1, <2>2
<1>1. /\ Len(rows) \in Nat /\ Len(t) \in Nat /\ Len(u) = Len(rows) + Len(t)
      /\ \A i \in 1..Len(rows) : u[i] = rows[i]
      /\ \A i \in (Len(rows) + 1)..Len(u) : i - Len(rows) \in 1..Len(t) /\ u[i] = t[i - Len(rows)]
  BY JoinedFacts
<1>2. \A i \in 1..Len(u) : i \in 1..Len(rows) \/ i \in (Len(rows) + 1)..Len(u)
  BY <1>1
<1>3. ASSUME NEW i \in 1..Len(u), NEW j \in 1..Len(u), u[i] = u[j]
      PROVE  i = j
  <2>1. CASE i \in 1..Len(rows) /\ j \in 1..Len(rows)
    BY <1>0, <1>1, <1>3, <2>1 DEF IsInjective
  <2>2. CASE i \in (Len(rows) + 1)..Len(u) /\ j \in (Len(rows) + 1)..Len(u)
    <3>1. PICK x, y : x = i - Len(rows) /\ y = j - Len(rows)
      OBVIOUS
    <3>2. x \in DOMAIN t /\ y \in DOMAIN t /\ t[x] = t[y]
      BY <1>0, <1>1, <1>3, <2>2, <3>1
    <3>3. x = y
      BY <3>2 DEF IsInjective
    <3> QED BY <1>1, <2>2, <3>1, <3>3
  <2>3. CASE i \in 1..Len(rows) /\ j \in (Len(rows) + 1)..Len(u)
    <3>1. u[i] \in Range(rows) /\ u[j] \in Range(t)
      BY <1>0, <1>1, <2>3 DEF Range
    <3> QED BY <1>3, <3>1
  <2>4. CASE j \in 1..Len(rows) /\ i \in (Len(rows) + 1)..Len(u)
    <3>1. u[j] \in Range(rows) /\ u[i] \in Range(t)
      BY <1>0, <1>1, <2>4 DEF Range
    <3> QED BY <1>3, <3>1
  <2> QED BY <1>2, <2>1, <2>2, <2>3, <2>4
<1> QED BY <1>0, <1>3 DEF IsInjective

-----------------------------------------------------------------------------
(***************************************************************************)
(* What the archive knows.                                                 *)
(***************************************************************************)

\* The archive knows the book of token k: from some row of the batch on its rows
\* tell the books of the venue, and the replay has the same.
Known(k) ==
  /\ Agrees(claimed[k], real[k])
  /\ \E s, h : /\ Traces(batch[k], s, h, real[k])
               /\ k \notin conflict /\ Replayed(k) >= s => book[k] = h[Replayed(k)]

SyncInv == \A k \in Tokens : synced[k] => Known(k)

PlainInv ==
  /\ \A k \in Tokens : ~Crossed(real[k])
  /\ \A k \in Tokens : book[k] = None => tick[k] = None
  /\ ~repeated => \A k \in Tokens : IsInjective(batch[k])

\* The rows tell the tick sizes of the venue, and the replay has the same.
Paced(k) == \E w : Paces(batch[k], w, venueTick[k]) /\ tick[k] \in {None, w[Replayed(k)]}

\* Nothing was lost or repeated.
Undamaged == lost = 0 /\ ~repeated

WholeInv ==
  Undamaged =>
    /\ conflict = {}
    /\ \A k \in Tokens : first[k] # None => synced[k]
    /\ \A k \in Tokens : Paced(k)

FaithInv == SyncInv /\ PlainInv /\ WholeInv

\* A book is what it was if its quotes prune it.
LEMMA PrunedBest ==
  ASSUME NEW k, NEW b \in Book, BatchEnd(k) => Agrees(Event(k), b)
  PROVE  Pruned(k, b) = b
<1>1. b = [bids |-> b.bids, asks |-> b.asks]
  BY DEF Book
<1>2. \A p \in b.bids : BatchEnd(k) /\ Event(k).bid # None => p <= Event(k).bid
  BY BestFacts DEF Agrees
<1>3. \A p \in b.asks : BatchEnd(k) /\ Event(k).ask # None => p >= Event(k).ask
  <2> SUFFICES ASSUME NEW p \in b.asks, BatchEnd(k), Event(k).ask # None PROVE p >= Event(k).ask
    OBVIOUS
  <2>1. Event(k).ask = BestAsk(b)
    BY DEF Agrees
  <2>2. BestAsk(b) <= p /\ BestAsk(b) \in Nat /\ p \in Nat
    BY BestFacts, BookReplayAssumption DEF Asks, Book, Price
  <2> QED BY <2>1, <2>2
<1> QED BY <1>1, <1>2, <1>3 DEF Pruned

\* The row in turn leads to the book of the venue, and is found plausible.
LEMMA ResultFollows ==
  ASSUME Types, ClaimsInv, NEW k \in Tokens, ~Crossed(real[k]), Agrees(claimed[k], real[k]),
         next[k] \in 1..Len(batch[k]), Event(k) \in Row, Usable(k),
         NEW s, NEW h, Traces(batch[k], s, h, real[k]), next[k] >= s,
         next[k] > s => book[k] = h[next[k] - 1]
  PROVE  Result(k) = h[next[k]] /\ ~Implausible(k, Result(k))
<1> DEFINE n == next[k]
           rows == batch[k]
<1>0. /\ n \in 1..Len(rows) /\ n \in Nat \ {0} /\ rows \in Seq(Row) /\ Len(rows) \in Nat
      /\ Event(k) = rows[n] /\ n \in KeptIn(rows) /\ rows[n].kind # "trade" /\ Kept(k) = KeptIn(rows)
  BY DEF Types, Event, Usable, Kept, KeptIn
<1>1. /\ s \in 0..Len(rows) /\ h \in [s..Len(rows) -> Book]
      /\ s > 0 => s \in KeptIn(rows) /\ rows[s].kind = "book" /\ h[s] = rows[s].book
      /\ \A i \in (s + 1)..Len(rows) :
           /\ rows[i].kind = "change" => i \in KeptIn(rows) /\ h[i] = SetLevel(h[i - 1], rows[i].change)
           /\ rows[i].kind = "book" => h[i] = rows[i].book
           /\ rows[i].kind # "change" => h[i] = h[i - 1]
  BY DEF Traces
<1>2. n \in s..Len(rows) /\ h[n] \in Book
  BY <1>0, <1>1
<1>3. BatchEnd(k) => h[n] = real[k] /\ (rows[n].kind = "change" => Agrees(Event(k), real[k]))
  <2> SUFFICES ASSUME BatchEnd(k)
               PROVE  h[n] = real[k] /\ (rows[n].kind = "change" => Agrees(Event(k), real[k]))
    OBVIOUS
  <2>1. \A i \in KeptIn(rows) : i <= n
    BY <1>0 DEF BatchEnd
  <2>2. h[n] = real[k]
    BY <1>0, <2>1, EndOfBatch
  <2>3. IsLast(rows, n)
    BY <1>0, <2>1 DEF IsLast
  <2>4. claimed[k] = ClaimOf(rows[n])
    BY <1>0, <2>3 DEF ClaimsInv, ClaimInv
  <2>5. rows[n].kind = "change" => claimed[k].bid = rows[n].bid /\ claimed[k].ask = rows[n].ask
    BY <2>4 DEF ClaimOf
  <2> QED BY <1>0, <2>2, <2>5 DEF Agrees
<1>4. Result(k) = h[n]
  <2>1. CASE rows[n].kind = "book"
    <3>1. Result(k) = rows[n].book
      BY <1>0, <2>1 DEF Result
    <3>2. n = s \/ n \in (s + 1)..Len(rows)
      BY <1>0, <1>1, <1>2
    <3> QED BY <1>0, <1>1, <2>1, <3>1, <3>2
  <2>2. CASE rows[n].kind # "book"
    <3>0. n # s
      BY <1>0, <1>1, <2>2
    <3>1. n > s /\ n \in (s + 1)..Len(rows) /\ n - 1 \in s..Len(rows)
      BY <1>0, <1>1, <1>2, <3>0
    <3>2. book[k] = h[n - 1] /\ h[n - 1] \in Book
      BY <1>1, <3>1
    <3>3. CASE rows[n].kind = "change"
      <4>1. Result(k) = Pruned(k, SetLevel(book[k], Event(k).change))
        BY <1>0, <3>3 DEF Result
      <4>2. h[n] = SetLevel(book[k], Event(k).change)
        BY <1>0, <1>1, <3>1, <3>2, <3>3
      <4>3. Pruned(k, h[n]) = h[n]
        BY <1>2, <1>3, <3>3, PrunedBest
      <4> QED BY <4>1, <4>2, <4>3
    <3>4. CASE rows[n].kind # "change"
      <4>1. Result(k) = book[k]
        BY <1>0, <2>2, <3>4 DEF Result
      <4> QED BY <1>1, <3>1, <3>2, <3>4, <4>1
    <3> QED BY <3>3, <3>4
  <2> QED BY <2>1, <2>2
<1>5. ~Implausible(k, Result(k))
  BY <1>0, <1>3, <1>4 DEF Implausible
<1> QED BY <1>4, <1>5

\* Rows that are passed over leave the book as it is.
LEMMA PassedFollows ==
  ASSUME Types, NEW k \in Tokens, next[k] \in 1..Len(batch[k]), Event(k) \in Row, ~Usable(k),
         NEW s, NEW h, Traces(batch[k], s, h, real[k]), next[k] >= s,
         next[k] > s => book[k] = h[next[k] - 1]
  PROVE  book[k] = h[next[k]]
<1> DEFINE n == next[k]
           rows == batch[k]
<1>0. /\ n \in 1..Len(rows) /\ n \in Nat \ {0} /\ rows \in Seq(Row) /\ Len(rows) \in Nat
      /\ Event(k) = rows[n] /\ Kept(k) = KeptIn(rows)
  BY DEF Types, Event, Kept, KeptIn
<1>1. /\ s \in 0..Len(rows) /\ h \in [s..Len(rows) -> Book]
      /\ s > 0 => s \in KeptIn(rows) /\ rows[s].kind = "book"
      /\ \A i \in (s + 1)..Len(rows) :
           /\ rows[i].kind = "change" => i \in KeptIn(rows)
           /\ rows[i].kind # "change" => h[i] = h[i - 1]
  BY DEF Traces
<1>2. n # s
  <2>1. ~(n \in KeptIn(rows) /\ rows[n].kind = "book")
    BY <1>0 DEF Usable
  <2> QED BY <1>0, <1>1, <2>1
<1>3. n > s /\ n \in (s + 1)..Len(rows) /\ n - 1 \in s..Len(rows)
  BY <1>0, <1>1, <1>2
<1>4. book[k] = h[n - 1] /\ h[n - 1] \in Book
  BY <1>1, <1>3
<1>5. book[k] # None
  BY <1>4, BookReplayAssumption
<1>6. rows[n].kind # "change"
  <2>1. rows[n].kind = "change" => n \in KeptIn(rows)
    BY <1>1, <1>3
  <2> QED BY <1>0, <1>5, <2>1 DEF Usable
<1> QED BY <1>1, <1>3, <1>4, <1>6

\* A row replayed keeps what is known of its token.
LEMMA KnownReplay ==
  ASSUME Types, ClaimsInv, PlaceInv, NEW k \in Tokens, ~Crossed(real[k]), Reconstruct(k), Known(k)
  PROVE  Known(k)'
<1>0. /\ pc = "replay" /\ pc' = "replay" /\ Event(k) \in Row /\ k \notin conflict
      /\ next[k] \in 1..Len(batch[k]) /\ next[k] \in Nat \ {0}
      /\ UNCHANGED <<batch, claimed, real>>
      /\ Passed(k) \/ Applied(k) \/ Failed(k)
  BY ReplayStep DEF archive, venue, Types
<1>1. PICK s : \E h : /\ Traces(batch[k], s, h, real[k])
                      /\ k \notin conflict /\ Replayed(k) >= s => book[k] = h[Replayed(k)]
  BY DEF Known
<1>2. PICK h : /\ Traces(batch[k], s, h, real[k])
               /\ k \notin conflict /\ Replayed(k) >= s => book[k] = h[Replayed(k)]
  BY <1>1
<1>3. Replayed(k) = next[k] - 1 /\ Replayed(k)' = next'[k] - 1 /\ s \in Nat
  <2>1. s \in 0..Len(batch[k]) /\ batch[k] \in Seq(Row)
    BY <1>2 DEF Traces, Types
  <2> QED BY <1>0, <2>1 DEF Replayed
<1>4. Agrees(claimed[k], real[k])
  BY DEF Known
<1>5. next[k] > s => book[k] = h[next[k] - 1]
  BY <1>0, <1>2, <1>3
<1>6. k \notin conflict' /\ Replayed(k)' >= s => book'[k] = h[Replayed(k)']
  <2> SUFFICES ASSUME k \notin conflict', Replayed(k)' >= s PROVE book'[k] = h[Replayed(k)']
    OBVIOUS
  <2>1. ~Failed(k)
    BY DEF Failed
  <2>2. next'[k] = next[k] + 1
    BY <1>0, <2>1 DEF Passed, Applied, Types
  <2>3. Replayed(k)' = next[k] /\ next[k] >= s
    BY <1>0, <1>3, <2>2
  <2>4. CASE Passed(k)
    <3>1. book[k] = h[next[k]]
      BY <1>0, <1>2, <1>5, <2>3, <2>4, PassedFollows DEF Passed
    <3> QED BY <2>3, <2>4, <3>1 DEF Passed
  <2>5. CASE Applied(k)
    <3>1. Result(k) = h[next[k]]
      BY <1>0, <1>2, <1>4, <1>5, <2>3, <2>5, ResultFollows DEF Applied
    <3>2. book'[k] = Result(k)
      BY <2>5 DEF Applied, Types
    <3> QED BY <2>3, <3>1, <3>2
  <2> QED BY <1>0, <2>1, <2>4, <2>5
<1>7. Traces(batch'[k], s, h, real'[k]) /\ Agrees(claimed'[k], real'[k])
  BY <1>0, <1>2, <1>4
<1> QED BY <1>6, <1>7 DEF Known

\* Where nothing is damaged no row contradicts itself.
LEMMA NothingFails ==
  ASSUME Types, ClaimsInv, PlaceInv, FirstInv, FaithInv, Undamaged, NEW k \in Tokens, Reconstruct(k)
  PROVE  ~Failed(k)
<1>0. /\ pc = "replay" /\ Event(k) \in Row /\ k \notin conflict
      /\ next[k] \in 1..Len(batch[k]) /\ next[k] \in Nat \ {0} /\ Len(batch[k]) \in Nat
      /\ Event(k) = batch[k][next[k]] /\ DOMAIN batch[k] = 1..Len(batch[k])
      /\ Replayed(k) = next[k] - 1
  BY ReplayStep DEF Types, Event, Replayed
<1> SUFFICES ASSUME Usable(k) PROVE ~Implausible(k, Result(k)) /\ ~WrongTick(k)
  BY DEF Failed
<1>1. first[k] # None
  <2>1. CASE Event(k).kind = "book"
    BY <1>0, <2>1 DEF FirstInv
  <2>2. CASE book[k] # None
    BY <2>2 DEF FirstInv, PlaceInv
  <2> QED BY <2>1, <2>2 DEF Usable
<1>2. Known(k) /\ ~Crossed(real[k])
  BY <1>1 DEF FaithInv, WholeInv, SyncInv, PlainInv
<1>3. PICK s : \E h : /\ Traces(batch[k], s, h, real[k])
                      /\ k \notin conflict /\ Replayed(k) >= s => book[k] = h[Replayed(k)]
  BY <1>2 DEF Known
<1>4. PICK h : /\ Traces(batch[k], s, h, real[k])
               /\ k \notin conflict /\ Replayed(k) >= s => book[k] = h[Replayed(k)]
  BY <1>3
<1>5. s \in 0..Len(batch[k]) /\ (s > 0 => s \in KeptIn(batch[k]))
  BY <1>4 DEF Traces
<1>6. next[k] > s => book[k] = h[next[k] - 1]
  BY <1>0, <1>4, <1>5
<1>7. ~Implausible(k, Result(k))
  <2>1. CASE next[k] >= s
    <3>1. Agrees(claimed[k], real[k])
      BY <1>2 DEF Known
    <3> QED BY <1>0, <1>2, <1>4, <1>6, <2>1, <3>1, ResultFollows
  <2>2. CASE ~(next[k] >= s)
    <3>1. s \in Kept(k) /\ ~(s <= next[k])
      BY <1>0, <1>5, <2>2, KeptOf
    <3> QED BY <3>1 DEF Implausible, BatchEnd
  <2> QED BY <2>1, <2>2
<1>8. ~WrongTick(k)
  <2>1. PICK w : Paces(batch[k], w, venueTick[k]) /\ tick[k] \in {None, w[Replayed(k)]}
    BY DEF FaithInv, WholeInv, Paced
  <2>2. Event(k).kind = "tick" => Event(k).old = w[next[k] - 1]
    BY <1>0, <2>1 DEF Paces
  <2> QED BY <1>0, <2>1, <2>2 DEF WrongTick
<1> QED BY <1>7, <1>8

\* What is replayed keeps the tick sizes.
LEMMA PacedReplay ==
  ASSUME Types, PlainInv, NEW k \in Tokens, Reconstruct(k), ~Failed(k), ~repeated, Paced(k)
  PROVE  Paced(k)'
<1>0. /\ pc = "replay" /\ pc' = "replay" /\ Event(k) \in Row
      /\ next[k] \in 1..Len(batch[k]) /\ next[k] \in Nat \ {0} /\ Len(batch[k]) \in Nat
      /\ Event(k) = batch[k][next[k]] /\ DOMAIN batch[k] = 1..Len(batch[k])
      /\ Replayed(k) = next[k] - 1 /\ Replayed(k)' = next'[k] - 1
      /\ UNCHANGED <<batch, venueTick>> /\ (Passed(k) \/ Applied(k))
  BY ReplayStep DEF Types, Event, Replayed, archive, venue
<1>1. PICK w : Paces(batch[k], w, venueTick[k]) /\ tick[k] \in {None, w[Replayed(k)]}
  BY DEF Paced
<1>2. next'[k] = next[k] + 1 /\ Replayed(k)' = next[k]
  <2>1. next'[k] = next[k] + 1
    BY <1>0 DEF Passed, Applied, Types
  <2> QED BY <1>0, <2>1
<1>3. /\ Event(k).kind = "tick" => Event(k).new = w[next[k]]
      /\ Event(k).kind # "tick" => w[next[k]] = w[next[k] - 1]
  BY <1>0, <1>1 DEF Paces
<1>4. next[k] \in Kept(k)
  <2>1. IsInjective(batch[k])
    BY DEF PlainInv
  <2>2. \A j \in 1..(next[k] - 1) : j \in DOMAIN batch[k] /\ j # next[k]
    BY <1>0
  <2> QED BY <1>0, <2>1, <2>2 DEF Kept, IsInjective
<1>5. tick'[k] \in {None, w[next[k]]}
  <2>1. CASE Passed(k)
    <3>1. tick'[k] = tick[k] /\ ~Usable(k)
      BY <2>1 DEF Passed
    <3>2. CASE Event(k).kind = "tick"
      BY <1>4, <3>1, <3>2 DEF Usable, PlainInv
    <3>3. CASE Event(k).kind # "tick"
      BY <1>0, <1>1, <1>3, <3>1, <3>3
    <3> QED BY <3>2, <3>3
  <2>2. CASE Applied(k)
    <3>1. tick'[k] = IF Event(k).kind = "tick" THEN Event(k).new ELSE tick[k]
      BY <2>2 DEF Applied, Types
    <3> QED BY <1>0, <1>1, <1>3, <3>1
  <2> QED BY <1>0, <2>1, <2>2
<1>6. Paces(batch'[k], w, venueTick'[k])
  BY <1>0, <1>1
<1> QED BY <1>2, <1>5, <1>6 DEF Paced

LEMMA FaithReplay ==
  ASSUME Types, ClaimsInv, PlaceInv, FirstInv, FaithInv, NEW k \in Tokens, Reconstruct(k)
  PROVE  FaithInv'
<1>0. /\ pc = "replay" /\ pc' = "replay" /\ Event(k) \in Row /\ k \notin conflict
      /\ UNCHANGED <<batch, claimed, synced, first, lost, repeated, real, venueTick>>
      /\ Passed(k) \/ Applied(k) \/ Failed(k)
  BY ReplayStep DEF archive, venue
<1>1. \A q \in Tokens \ {k} :
        /\ next'[q] = next[q] /\ book'[q] = book[q] /\ tick'[q] = tick[q]
        /\ (q \in conflict' <=> q \in conflict) /\ Replayed(q)' = Replayed(q)
  BY <1>0 DEF Passed, Applied, Failed, Types, Replayed
<1>2. SyncInv'
  <2> SUFFICES ASSUME NEW q \in Tokens, synced'[q] PROVE Known(q)'
    BY DEF SyncInv
  <2>1. CASE q = k
    BY <1>0, <2>1, KnownReplay DEF FaithInv, SyncInv, PlainInv
  <2>2. CASE q # k
    <3>1. Known(q)
      BY <1>0 DEF FaithInv, SyncInv
    <3>2. /\ Replayed(q)' = Replayed(q) /\ book'[q] = book[q] /\ (q \in conflict' <=> q \in conflict)
          /\ UNCHANGED <<batch, claimed, real>>
      BY <1>0, <1>1, <2>2
    <3> QED BY <3>1, <3>2 DEF Known
  <2> QED BY <2>1, <2>2
<1>3. PlainInv'
  <2>1. \A q \in Tokens : book'[q] = None => tick'[q] = None
    <3> TAKE q \in Tokens
    <3>1. CASE q # k
      BY <1>1, <3>1 DEF FaithInv, PlainInv
    <3>2. CASE q = k /\ Applied(k)
      <4>1. Result(k) \in Book /\ book'[k] = Result(k)
        BY <1>0, <3>2, ResultType DEF Applied, Types
      <4> QED BY <3>2, <4>1, BookReplayAssumption
    <3>3. CASE q = k /\ ~Applied(k)
      BY <1>0, <3>3 DEF FaithInv, PlainInv, Passed, Failed
    <3> QED BY <3>1, <3>2, <3>3
  <2> QED BY <1>0, <2>1 DEF FaithInv, PlainInv
<1>4. WholeInv'
  <2> SUFFICES ASSUME Undamaged'
               PROVE  /\ conflict' = {}
                      /\ \A q \in Tokens : first'[q] # None => synced'[q]
                      /\ \A q \in Tokens : Paced(q)'
    BY DEF WholeInv
  <2>1. Undamaged
    BY <1>0 DEF Undamaged
  <2>2. ~Failed(k)
    BY <2>1, NothingFails
  <2>3. conflict' = conflict /\ conflict = {}
    BY <1>0, <2>1, <2>2 DEF Passed, Applied, FaithInv, WholeInv
  <2>4. \A q \in Tokens : first'[q] # None => synced'[q]
    BY <1>0, <2>1 DEF FaithInv, WholeInv
  <2>5. \A q \in Tokens : Paced(q)
    BY <2>1 DEF FaithInv, WholeInv
  <2>6. \A q \in Tokens : Paced(q)'
    <3> TAKE q \in Tokens
    <3>1. CASE q = k
      BY <2>1, <2>2, <2>5, <3>1, PacedReplay DEF FaithInv, Undamaged
    <3>2. CASE q # k
      <4>1. Replayed(q)' = Replayed(q) /\ tick'[q] = tick[q] /\ UNCHANGED <<batch, venueTick>>
        BY <1>0, <1>1, <3>2
      <4> QED BY <2>5, <4>1 DEF Paced
    <3> QED BY <3>1, <3>2
  <2> QED BY <2>3, <2>4, <2>6
<1> QED BY <1>2, <1>3, <1>4 DEF FaithInv

-----------------------------------------------------------------------------
(***************************************************************************)
(* What the archive knows when rows are recorded.                          *)
(***************************************************************************)
LEMMA GrowsFacts ==
  ASSUME Types, NEW k \in Tokens, NEW new \in Seq(Row), Grows(k, new)
  PROVE  /\ Joined(batch'[k], batch[k], new) /\ batch[k] \in Seq(Row) /\ Len(batch[k]) \in Nat
         /\ \A q \in Tokens : Replayed(q) = 0 /\ Replayed(q)' = 0
         /\ \A q \in Tokens \ {k} : batch'[q] = batch[q]
         /\ UNCHANGED <<book, tick, conflict>>
<1>1. batch[k] \in Seq(Row)
  BY DEF Types
<1>2. Joined(batch'[k], batch[k], new)
  BY <1>1 DEF Grows, Joined
<1> QED BY <1>1, <1>2 DEF Grows, Replayed

LEMMA KnownGrows ==
  ASSUME Types, NEW k \in Tokens, NEW new \in Seq(Row), Grows(k, new), Agrees(claimed'[k], real'[k]),
         NEW s, NEW h, NEW f, Traces(batch[k], s, h, real[k]),
         k \notin conflict /\ Replayed(k) >= s => book[k] = h[Replayed(k)],
         Traces(batch'[k], s, f, real'[k]), \A i \in s..Len(batch[k]) : f[i] = h[i]
  PROVE  Known(k)'
<1>1. s \in 0..Len(batch[k]) /\ Len(batch[k]) \in Nat
  BY GrowsFacts DEF Traces
<1>2. 0 >= s => f[0] = h[0]
  <2>1. 0 >= s => 0 \in s..Len(batch[k])
    BY <1>1
  <2> QED BY <2>1
<1>3. Replayed(k) = 0 /\ Replayed(k)' = 0 /\ book'[k] = book[k] /\ conflict' = conflict
  BY GrowsFacts
<1>4. k \notin conflict' /\ Replayed(k)' >= s => book'[k] = f[Replayed(k)']
  BY <1>2, <1>3
<1> QED BY <1>4 DEF Known

LEMMA KnownStays ==
  ASSUME Types, NEW k \in Tokens, NEW new \in Seq(Row), Grows(k, new), Known(k),
         real'[k] = real[k], Agrees(claimed'[k], real[k]),
         \A n \in 1..Len(new) : new[n].kind # "change" /\ (new[n].kind = "book" => new[n].book = real[k])
  PROVE  Known(k)'
<1>1. PICK s : \E h : /\ Traces(batch[k], s, h, real[k])
                      /\ k \notin conflict /\ Replayed(k) >= s => book[k] = h[Replayed(k)]
  BY DEF Known
<1>2. PICK h : /\ Traces(batch[k], s, h, real[k])
               /\ k \notin conflict /\ Replayed(k) >= s => book[k] = h[Replayed(k)]
  BY <1>1
<1>3. PICK u, v, now : u = batch'[k] /\ v = batch[k] /\ now = real[k]
  OBVIOUS
<1>4. Joined(u, v, new) /\ now \in Book /\ Traces(v, s, h, now)
  BY <1>2, <1>3, GrowsFacts DEF Types
<1>5. \A n \in 1..Len(new) : new[n].kind # "change" /\ (new[n].kind = "book" => new[n].book = now)
  BY <1>3
<1>6. PICK f : Traces(u, s, f, now) /\ \A i \in s..Len(v) : f[i] = h[i]
  BY <1>4, <1>5, TraceStays
<1>7. Traces(batch'[k], s, f, real'[k]) /\ \A i \in s..Len(batch[k]) : f[i] = h[i]
  BY <1>3, <1>6
<1>8. Agrees(claimed'[k], real'[k])
  OBVIOUS
<1> QED BY <1>2, <1>7, <1>8, KnownGrows

LEMMA KnownMoves ==
  ASSUME Types, NEW k \in Tokens, NEW new \in Seq(Row), Grows(k, new), Known(k), Fresh(k, new),
         NEW cs \in Seq(Change), real'[k] = After(real[k], cs), Agrees(claimed'[k], real'[k]),
         Len(new) = Len(cs), \A n \in 1..Len(cs) : new[n].kind = "change" /\ new[n].change = cs[n]
  PROVE  Known(k)'
<1>1. PICK s : \E h : /\ Traces(batch[k], s, h, real[k])
                      /\ k \notin conflict /\ Replayed(k) >= s => book[k] = h[Replayed(k)]
  BY DEF Known
<1>2. PICK h : /\ Traces(batch[k], s, h, real[k])
               /\ k \notin conflict /\ Replayed(k) >= s => book[k] = h[Replayed(k)]
  BY <1>1
<1>3. PICK u, v, now : u = batch'[k] /\ v = batch[k] /\ now = real[k]
  OBVIOUS
<1>4. Joined(u, v, new) /\ now \in Book /\ Traces(v, s, h, now)
  BY <1>2, <1>3, GrowsFacts DEF Types
<1>5. IsInjective(new) /\ Range(new) \cap Range(v) = {}
  BY <1>3 DEF Fresh
<1>6. PICK f : Traces(u, s, f, After(now, cs)) /\ \A i \in s..Len(v) : f[i] = h[i]
  BY <1>4, <1>5, TraceMoves
<1>7. Traces(batch'[k], s, f, real'[k]) /\ \A i \in s..Len(batch[k]) : f[i] = h[i]
  BY <1>3, <1>6
<1> QED BY <1>2, <1>7, KnownGrows

LEMMA KnownStart ==
  ASSUME Types, NEW k \in Tokens, NEW new \in Seq(Row), Grows(k, new), Fresh(k, new), Shows(new, real[k]),
         real'[k] = real[k], Agrees(claimed'[k], real[k])
  PROVE  Known(k)'
<1>3. PICK u, v, now : u = batch'[k] /\ v = batch[k] /\ now = real[k]
  OBVIOUS
<1>4. Joined(u, v, new) /\ now \in Book /\ Len(v) \in Nat /\ Shows(new, now)
  BY <1>3, GrowsFacts DEF Types
<1>5. IsInjective(new) /\ Range(new) \cap Range(v) = {}
  BY <1>3 DEF Fresh
<1>6. \A i \in (Len(v) + 1)..Len(u) : i \in KeptIn(u)
  BY <1>4, <1>5, JoinedFacts
<1>7. Len(v) + 1 \in KeptIn(u)
  <2>1. Len(u) = Len(v) + Len(new)
    BY <1>4, JoinedFacts
  <2>2. Len(v) + 1 \in (Len(v) + 1)..Len(u)
    BY <1>4, <2>1 DEF Shows
  <2> QED BY <1>6, <2>2
<1>8. PICK h : Traces(u, Len(v) + 1, h, now)
  BY <1>4, <1>7, TraceStart
<1>9. PICK s : s = Len(v) + 1
  OBVIOUS
<1>10. s > 0 /\ Traces(batch'[k], s, h, real'[k]) /\ Agrees(claimed'[k], real'[k])
  BY <1>3, <1>4, <1>8, <1>9
<1>11. ~(Replayed(k)' >= s)
  <2>1. Replayed(k)' = 0 /\ s \in Nat
    BY <1>4, <1>9, GrowsFacts
  <2> QED BY <1>10, <2>1
<1> QED BY <1>10, <1>11 DEF Known

LEMMA PacedGrows ==
  ASSUME Types, NEW k \in Tokens, NEW new \in Seq(Row), Grows(k, new), Paced(k),
         venueTick'[k] \in Ticks, Steps(new, venueTick[k], venueTick'[k])
  PROVE  Paced(k)'
<1>1. PICK w : Paces(batch[k], w, venueTick[k]) /\ tick[k] \in {None, w[Replayed(k)]}
  BY DEF Paced
<1>2. PICK u, v, now, then : u = batch'[k] /\ v = batch[k] /\ now = venueTick[k] /\ then = venueTick'[k]
  OBVIOUS
<1>3. Joined(u, v, new) /\ Paces(v, w, now) /\ then \in Ticks /\ Steps(new, now, then)
  BY <1>1, <1>2, GrowsFacts
<1>4. PICK f : Paces(u, f, then) /\ f[0] = w[0]
  BY <1>3, PacesGrow
<1>5. Replayed(k) = 0 /\ Replayed(k)' = 0 /\ tick'[k] = tick[k]
  BY GrowsFacts
<1>6. Paces(batch'[k], f, venueTick'[k]) /\ tick'[k] \in {None, f[Replayed(k)']}
  BY <1>1, <1>2, <1>4, <1>5
<1> QED BY <1>6 DEF Paced

\* What a step may not do to the tokens it is not about.
Others(k) ==
  \A q \in Tokens \ {k} :
    /\ synced'[q] = synced[q] /\ real'[q] = real[q] /\ claimed'[q] = claimed[q]
    /\ first'[q] = first[q] /\ venueTick'[q] = venueTick[q]

LEMMA FaithGrows ==
  ASSUME Types, FaithInv, NEW k \in Tokens, NEW new \in Seq(Row), Grows(k, new), Others(k),
         ~Crossed(real'[k]), repeated' <=> repeated \/ ~Fresh(k, new), lost' = 0 => lost = 0,
         synced'[k] => Known(k)',
         Undamaged' => (first'[k] # None => synced'[k]) /\ Paced(k)'
  PROVE  FaithInv'
<1>0. /\ \A q \in Tokens : Replayed(q) = 0 /\ Replayed(q)' = 0
      /\ \A q \in Tokens \ {k} : batch'[q] = batch[q]
      /\ UNCHANGED <<book, tick, conflict>>
  BY GrowsFacts
<1>1. SyncInv'
  <2> SUFFICES ASSUME NEW q \in Tokens, synced'[q] PROVE Known(q)'
    BY DEF SyncInv
  <2>1. CASE q # k
    <3>1. Known(q)
      BY <2>1 DEF Others, FaithInv, SyncInv
    <3>2. /\ claimed'[q] = claimed[q] /\ real'[q] = real[q] /\ batch'[q] = batch[q] /\ book'[q] = book[q]
          /\ conflict' = conflict /\ Replayed(q)' = Replayed(q)
      BY <1>0, <2>1 DEF Others
    <3> QED BY <3>1, <3>2 DEF Known
  <2> QED BY <2>1
<1>2. PlainInv'
  <2>1. \A q \in Tokens : ~Crossed(real'[q])
    <3> TAKE q \in Tokens
    <3>1. CASE q # k
      BY <3>1 DEF Others, FaithInv, PlainInv
    <3> QED BY <3>1
  <2>2. ASSUME ~repeated', NEW q \in Tokens
        PROVE  IsInjective(batch'[q])
    <3>1. CASE q # k
      BY <1>0, <2>2, <3>1 DEF FaithInv, PlainInv
    <3>2. CASE q = k
      <4>1. PICK u, v : u = batch'[k] /\ v = batch[k]
        OBVIOUS
      <4>2. Joined(u, v, new) /\ IsInjective(v) /\ IsInjective(new) /\ Range(new) \cap Range(v) = {}
        BY <2>2, <4>1, GrowsFacts DEF FaithInv, PlainInv, Fresh
      <4>3. IsInjective(u)
        BY <4>2, InjectiveGrows
      <4> QED BY <3>2, <4>1, <4>3
    <3> QED BY <3>1, <3>2
  <2>3. \A q \in Tokens : book'[q] = None => tick'[q] = None
    BY <1>0 DEF FaithInv, PlainInv
  <2> QED BY <2>1, <2>2, <2>3 DEF PlainInv
<1>3. WholeInv'
  <2> SUFFICES ASSUME Undamaged'
               PROVE  /\ conflict' = {}
                      /\ \A q \in Tokens : first'[q] # None => synced'[q]
                      /\ \A q \in Tokens : Paced(q)'
    BY DEF WholeInv
  <2>1. Undamaged
    BY DEF Undamaged
  <2>2. conflict' = {}
    BY <1>0, <2>1 DEF FaithInv, WholeInv
  <2>3. \A q \in Tokens : first'[q] # None => synced'[q]
    <3> TAKE q \in Tokens
    <3>1. CASE q # k
      BY <2>1, <3>1 DEF Others, FaithInv, WholeInv
    <3> QED BY <3>1
  <2>4. \A q \in Tokens : Paced(q)'
    <3> TAKE q \in Tokens
    <3>1. CASE q # k
      <4>1. Paced(q)
        BY <2>1 DEF FaithInv, WholeInv
      <4>2. batch'[q] = batch[q] /\ venueTick'[q] = venueTick[q] /\ tick'[q] = tick[q] /\ Replayed(q)' = Replayed(q)
        BY <1>0, <3>1 DEF Others
      <4> QED BY <4>1, <4>2 DEF Paced
    <3> QED BY <3>1
  <2> QED BY <2>2, <2>3, <2>4
<1> QED BY <1>1, <1>2, <1>3 DEF FaithInv

LEMMA RecordClaims ==
  ASSUME Types, NEW k \in Tokens, NEW new, NEW insync, NEW quotes, Record(k, new, insync, quotes)
  PROVE  /\ Add(k, new, insync)
         /\ \A q \in Tokens \ {k} : claimed'[q] = claimed[q]
         /\ Range(new) \subseteq Range(batch[k]) => claimed' = claimed
         /\ ~(Range(new) \subseteq Range(batch[k])) => claimed'[k] = quotes
<1>1. /\ Add(k, new, insync) /\ claimed \in [Tokens -> Claim]
      /\ IF Range(new) \subseteq Range(batch[k]) THEN UNCHANGED <<claimed, traded>>
         ELSE /\ claimed' = [claimed EXCEPT ![k] = quotes]
              /\ traded' = [traded EXCEPT ![k] = FALSE]
  BY DEF Record, Types
<1> QED BY <1>1

LEMMA FaithSnapshot ==
  ASSUME Types, FaithInv, NEW k \in Tokens, Snapshot(k)
  PROVE  FaithInv'
<1> DEFINE new == <<[kind |-> "book", book |-> real[k]]>>
<1>0. /\ Record(k, new, synced[k] \/ Fresh(k, new), Unquoted)
      /\ first' = [first EXCEPT ![k] = IF @ = None THEN clock ELSE @]
      /\ UNCHANGED <<real, venueTick, lost>>
  BY DEF Snapshot, venue
<1>1. new \in Seq(Row) /\ Unquoted \in Claim /\ real[k] \in Book
  BY DEF Types, Row, BookRow, Unquoted, Claim
<1>2. Len(new) = 1 /\ new[1].kind = "book" /\ new[1].book = real[k]
  OBVIOUS
<1>3. Shows(new, real[k])
  BY <1>2 DEF Shows
<1>4. \A n \in 1..Len(new) : new[n].kind = "book" /\ new[n].book = real[k]
  BY <1>2
<1>5. Range(new) # {}
  BY DEF Range
<1> HIDE DEF new
<1>6. PICK insync \in BOOLEAN : insync <=> synced[k] \/ Fresh(k, new)
  OBVIOUS
<1>a. synced[k] \in BOOLEAN /\ (synced[k] \/ Fresh(k, new)) \in BOOLEAN
  BY DEF Types
<1>b. insync = (synced[k] \/ Fresh(k, new))
  BY <1>6, <1>a, Zenon
<1>7. Record(k, new, insync, Unquoted)
  BY <1>0, <1>b
<1>8. /\ Add(k, new, insync)
      /\ \A q \in Tokens \ {k} : claimed'[q] = claimed[q]
      /\ Range(new) \subseteq Range(batch[k]) => claimed' = claimed
      /\ ~(Range(new) \subseteq Range(batch[k])) => claimed'[k] = Unquoted
  BY <1>7, RecordClaims
<1>9. /\ synced'[k] = insync /\ \A q \in Tokens \ {k} : synced'[q] = synced[q]
      /\ repeated' <=> repeated \/ ~Fresh(k, new)
      /\ UNCHANGED <<clock, pc, replay, resample, outcome>>
      /\ pc = "recording" /\ pc' = "recording" /\ batch'[k] = batch[k] \o new
      /\ \A q \in Tokens \ {k} : batch'[q] = batch[q]
  BY <1>1, <1>8, AddType
<1>10. Grows(k, new)
  BY <1>9 DEF Grows, replay, resample
<1>11. Others(k)
  BY <1>0, <1>8, <1>9 DEF Others, Types
<1>12. ~Crossed(real'[k])
  BY <1>0 DEF FaithInv, PlainInv
<1>13. \A b : Agrees(Unquoted, b)
  BY DEF Agrees, Unquoted
<1>14. synced'[k] => Known(k)'
  <2>1. CASE synced[k]
    <3>1. Known(k) /\ Agrees(claimed[k], real[k])
      BY <2>1 DEF FaithInv, SyncInv, Known
    <3>2. Agrees(claimed'[k], real[k])
      BY <1>8, <1>13, <3>1
    <3> QED BY <1>0, <1>1, <1>4, <1>10, <3>1, <3>2, KnownStays
  <2>2. CASE ~synced[k] /\ Fresh(k, new)
    <3>1. ~(Range(new) \subseteq Range(batch[k]))
      BY <1>5, <2>2 DEF Fresh
    <3>2. Agrees(claimed'[k], real[k])
      BY <1>8, <1>13, <3>1
    <3> QED BY <1>0, <1>1, <1>3, <1>10, <2>2, <3>2, KnownStart
  <2> QED BY <1>6, <1>9, <2>1, <2>2
<1>15. Undamaged' => (first'[k] # None => synced'[k]) /\ Paced(k)'
  <2> SUFFICES ASSUME Undamaged' PROVE synced'[k] /\ Paced(k)'
    OBVIOUS
  <2>1. Undamaged /\ Fresh(k, new)
    BY <1>0, <1>9 DEF Undamaged
  <2>2. synced'[k]
    BY <1>6, <1>9, <2>1
  <2>3. venueTick'[k] = venueTick[k] /\ venueTick[k] \in Ticks
    BY <1>0 DEF Types
  <2>4. Steps(new, venueTick[k], venueTick'[k])
    BY <1>4, <2>3 DEF Steps
  <2>5. Paced(k)
    BY <2>1 DEF FaithInv, WholeInv
  <2> QED BY <1>1, <1>10, <2>2, <2>3, <2>4, <2>5, PacedGrows
<1>16. lost' = 0 => lost = 0
  BY <1>0
<1> QED BY <1>1, <1>9, <1>10, <1>11, <1>12, <1>14, <1>15, <1>16, FaithGrows

LEMMA FaithTrade ==
  ASSUME Types, FaithInv, NEW k \in Tokens, Trade(k)
  PROVE  FaithInv'
<1> DEFINE new == <<[kind |-> "trade"]>>
<1>0. /\ new \in Seq(Row) /\ Add(k, new, synced[k])
      /\ UNCHANGED <<real, venueTick, first, lost, claimed>>
  BY TradeStep DEF venue
<1>1. synced[k] \in BOOLEAN
  BY DEF Types
<1>4. \A n \in 1..Len(new) : new[n].kind = "trade"
  OBVIOUS
<1> HIDE DEF new
<1>9. /\ synced'[k] = synced[k] /\ \A q \in Tokens \ {k} : synced'[q] = synced[q]
      /\ repeated' <=> repeated \/ ~Fresh(k, new)
      /\ UNCHANGED <<clock, pc, replay, resample, outcome>>
      /\ pc = "recording" /\ pc' = "recording" /\ batch'[k] = batch[k] \o new
      /\ \A q \in Tokens \ {k} : batch'[q] = batch[q]
  BY <1>0, <1>1, AddType
<1>10. Grows(k, new)
  BY <1>9 DEF Grows, replay, resample
<1>11. Others(k)
  BY <1>0, <1>9 DEF Others
<1>12. ~Crossed(real'[k])
  BY <1>0 DEF FaithInv, PlainInv
<1>14. synced'[k] => Known(k)'
  <2> SUFFICES ASSUME synced[k] PROVE Known(k)'
    BY <1>9
  <2>1. Known(k) /\ Agrees(claimed'[k], real[k]) /\ real'[k] = real[k]
    BY <1>0 DEF FaithInv, SyncInv, Known
  <2>2. \A n \in 1..Len(new) : new[n].kind # "change" /\ (new[n].kind = "book" => new[n].book = real[k])
    BY <1>4
  <2> QED BY <1>0, <1>10, <2>1, <2>2, KnownStays
<1>15. Undamaged' => (first'[k] # None => synced'[k]) /\ Paced(k)'
  <2> SUFFICES ASSUME Undamaged' PROVE (first'[k] # None => synced'[k]) /\ Paced(k)'
    OBVIOUS
  <2>1. Undamaged
    BY <1>0, <1>9 DEF Undamaged
  <2>2. first'[k] # None => synced'[k]
    BY <1>0, <1>9, <2>1 DEF FaithInv, WholeInv
  <2>3. venueTick'[k] = venueTick[k] /\ venueTick[k] \in Ticks
    BY <1>0 DEF Types
  <2>4. Steps(new, venueTick[k], venueTick'[k])
    BY <1>4, <2>3 DEF Steps
  <2>5. Paced(k)
    BY <2>1 DEF FaithInv, WholeInv
  <2> QED BY <1>0, <1>10, <2>2, <2>3, <2>4, <2>5, PacedGrows
<1>16. lost' = 0 => lost = 0
  BY <1>0
<1> QED BY <1>0, <1>9, <1>10, <1>11, <1>12, <1>14, <1>15, <1>16, FaithGrows

LEMMA FaithTick ==
  ASSUME Types, FaithInv, NEW k \in Tokens, TickSize(k)
  PROVE  FaithInv'
<1>a. PICK n \in Ticks \ {venueTick[k]} : \E got \in 0..1 :
        LET new == [i \in 1..got |-> [kind |-> "tick", old |-> venueTick[k], new |-> n]] IN
           /\ new \in Seq(Row) /\ Len(new) = got /\ venueTick' = [venueTick EXCEPT ![k] = n]
           /\ Record(k, new, synced[k], Unquoted) /\ Unquoted \in Claim
           /\ lost' = lost + (1 - got)
           /\ UNCHANGED <<real, first>>
  BY TickStep
<1>b. PICK got \in 0..1 :
        LET new == [i \in 1..got |-> [kind |-> "tick", old |-> venueTick[k], new |-> n]] IN
           /\ new \in Seq(Row) /\ Len(new) = got /\ venueTick' = [venueTick EXCEPT ![k] = n]
           /\ Record(k, new, synced[k], Unquoted) /\ Unquoted \in Claim
           /\ lost' = lost + (1 - got)
           /\ UNCHANGED <<real, first>>
  BY <1>a
<1> DEFINE new == [i \in 1..got |-> [kind |-> "tick", old |-> venueTick[k], new |-> n]]
<1>0. /\ new \in Seq(Row) /\ Len(new) = got /\ venueTick' = [venueTick EXCEPT ![k] = n]
      /\ Record(k, new, synced[k], Unquoted) /\ Unquoted \in Claim
      /\ lost' = lost + (1 - got)
      /\ UNCHANGED <<real, first>>
  BY <1>b
<1>1. synced[k] \in BOOLEAN /\ lost \in Nat
  BY DEF Types
<1>4. \A i \in 1..got : new[i].kind = "tick" /\ new[i].old = venueTick[k] /\ new[i].new = n
  OBVIOUS
<1> HIDE DEF new
<1>8. /\ Add(k, new, synced[k])
      /\ \A q \in Tokens \ {k} : claimed'[q] = claimed[q]
      /\ Range(new) \subseteq Range(batch[k]) => claimed' = claimed
      /\ ~(Range(new) \subseteq Range(batch[k])) => claimed'[k] = Unquoted
  BY <1>0, RecordClaims
<1>9. /\ synced'[k] = synced[k] /\ \A q \in Tokens \ {k} : synced'[q] = synced[q]
      /\ repeated' <=> repeated \/ ~Fresh(k, new)
      /\ UNCHANGED <<clock, pc, replay, resample, outcome>>
      /\ pc = "recording" /\ pc' = "recording" /\ batch'[k] = batch[k] \o new
      /\ \A q \in Tokens \ {k} : batch'[q] = batch[q]
  BY <1>0, <1>1, <1>8, AddType
<1>10. Grows(k, new)
  BY <1>9 DEF Grows, replay, resample
<1>c. venueTick'[k] = n /\ \A q \in Tokens \ {k} : venueTick'[q] = venueTick[q]
  BY <1>0 DEF Types
<1>11. Others(k)
  BY <1>0, <1>8, <1>9, <1>c DEF Others
<1>12. ~Crossed(real'[k])
  BY <1>0 DEF FaithInv, PlainInv
<1>13. \A b : Agrees(Unquoted, b)
  BY DEF Agrees, Unquoted
<1>14. synced'[k] => Known(k)'
  <2> SUFFICES ASSUME synced[k] PROVE Known(k)'
    BY <1>9
  <2>1. Known(k) /\ Agrees(claimed[k], real[k]) /\ real'[k] = real[k]
    BY <1>0 DEF FaithInv, SyncInv, Known
  <2>2. Agrees(claimed'[k], real[k])
    BY <1>8, <1>13, <2>1
  <2>3. \A i \in 1..Len(new) : new[i].kind # "change" /\ (new[i].kind = "book" => new[i].book = real[k])
    BY <1>0, <1>4
  <2> QED BY <1>0, <1>10, <2>1, <2>2, <2>3, KnownStays
<1>15. Undamaged' => (first'[k] # None => synced'[k]) /\ Paced(k)'
  <2> SUFFICES ASSUME Undamaged' PROVE (first'[k] # None => synced'[k]) /\ Paced(k)'
    OBVIOUS
  <2>1. Undamaged /\ got = 1
    BY <1>0, <1>1, <1>9 DEF Undamaged
  <2>2. first'[k] # None => synced'[k]
    BY <1>0, <1>9, <2>1 DEF FaithInv, WholeInv
  <2>3. venueTick'[k] = n /\ n \in Ticks
    BY <1>c
  <2>4. Steps(new, venueTick[k], venueTick'[k])
    <3>1. Len(new) = 1 /\ new[1].kind = "tick"
      BY <1>0, <1>4, <2>1
    <3> QED BY <1>0, <1>4, <2>3, <3>1 DEF Steps
  <2>5. Paced(k)
    BY <2>1 DEF FaithInv, WholeInv
  <2> QED BY <1>0, <1>10, <2>2, <2>3, <2>4, <2>5, PacedGrows
<1>16. lost' = 0 => lost = 0
  BY <1>0, <1>1
<1> QED BY <1>0, <1>9, <1>10, <1>11, <1>12, <1>14, <1>15, <1>16, FaithGrows

LEMMA FaithMessage ==
  ASSUME Types, FaithInv, NEW k \in Tokens, Message(k)
  PROVE  FaithInv'
<1>a. PICK m \in Messages : \E got \in {m.changes, Tail(m.changes), Front(m.changes), <<>>} :
        LET after  == After(real[k], m.changes)
            quotes == Quotes(after, m.quoted)
            new    == ChangeRows(got, quotes)
        IN /\ after \in Book /\ quotes \in Claim /\ new \in Seq(Row)
           /\ ~Crossed(after) /\ real' = [real EXCEPT ![k] = after]
           /\ Record(k, new, synced[k] /\ got = m.changes /\ Fresh(k, new), quotes)
           /\ Lose(Len(m.changes) - Len(got))
           /\ UNCHANGED <<venueTick, first>>
  BY MessageStep
<1>b. PICK got \in {m.changes, Tail(m.changes), Front(m.changes), <<>>} :
        LET after  == After(real[k], m.changes)
            quotes == Quotes(after, m.quoted)
            new    == ChangeRows(got, quotes)
        IN /\ after \in Book /\ quotes \in Claim /\ new \in Seq(Row)
           /\ ~Crossed(after) /\ real' = [real EXCEPT ![k] = after]
           /\ Record(k, new, synced[k] /\ got = m.changes /\ Fresh(k, new), quotes)
           /\ Lose(Len(m.changes) - Len(got))
           /\ UNCHANGED <<venueTick, first>>
  BY <1>a
<1> DEFINE after  == After(real[k], m.changes)
           quotes == Quotes(after, m.quoted)
           new    == ChangeRows(got, quotes)
<1>0. /\ after \in Book /\ quotes \in Claim /\ new \in Seq(Row)
      /\ ~Crossed(after) /\ real' = [real EXCEPT ![k] = after]
      /\ Record(k, new, synced[k] /\ got = m.changes /\ Fresh(k, new), quotes)
      /\ lost' = lost + (Len(m.changes) - Len(got))
      /\ UNCHANGED <<venueTick, first>>
  BY <1>b DEF Lose
<1>1. m.quoted \in BOOLEAN
  BY BookReplayAssumption
<1>2. quotes.bid \in {None, BestBid(after)} /\ quotes.ask \in {None, BestAsk(after)}
  BY <1>0, <1>1, QuotesType
<1> HIDE DEF quotes
<1>3. /\ m.changes \in Seq(Change) /\ Len(m.changes) \in Nat \ {0}
      /\ got \in Seq(Change) /\ Len(got) \in 0..Len(m.changes)
      /\ Len(got) = Len(m.changes) => got = m.changes
      /\ Len(new) = Len(got)
      /\ \A i \in 1..Len(got) : new[i].kind = "change" /\ new[i].change = got[i]
  <2>0. quotes \in Claim
    BY <1>0
  <2>1. /\ m.changes \in Seq(Change) /\ Len(m.changes) \in Nat \ {0} /\ m.quoted \in BOOLEAN
        /\ got \in Seq(Change) /\ Len(got) \in 0..Len(m.changes)
        /\ Len(got) = Len(m.changes) => got = m.changes
        /\ ChangeRows(got, quotes) \in Seq(Row) /\ Len(ChangeRows(got, quotes)) = Len(got)
        /\ \A i \in 1..Len(got) :
             /\ got[i] \in Change
             /\ ChangeRows(got, quotes)[i].kind = "change"
             /\ ChangeRows(got, quotes)[i].change = got[i]
             /\ ChangeRows(got, quotes)[i].bid = quotes.bid
             /\ ChangeRows(got, quotes)[i].ask = quotes.ask
             /\ ClaimOf(ChangeRows(got, quotes)[i]) = quotes
    BY <2>0, MessageRows
  <2> QED BY <2>1
<1> HIDE DEF after, new
<1>c. Agrees(quotes, after)
  BY <1>2 DEF Agrees
<1>5. synced[k] \in BOOLEAN /\ lost \in Nat
  BY DEF Types
<1>6. PICK insync \in BOOLEAN : insync <=> synced[k] /\ got = m.changes /\ Fresh(k, new)
  OBVIOUS
<1>d. insync = (synced[k] /\ got = m.changes /\ Fresh(k, new))
  <2>1. (synced[k] /\ got = m.changes /\ Fresh(k, new)) \in BOOLEAN
    BY <1>5
  <2> QED BY <1>6, <2>1, Zenon
<1>7. Record(k, new, insync, quotes)
  BY <1>0, <1>d
<1>8. /\ Add(k, new, insync)
      /\ \A q \in Tokens \ {k} : claimed'[q] = claimed[q]
      /\ Range(new) \subseteq Range(batch[k]) => claimed' = claimed
      /\ ~(Range(new) \subseteq Range(batch[k])) => claimed'[k] = quotes
  BY <1>7, RecordClaims
<1>9. /\ synced'[k] = insync /\ \A q \in Tokens \ {k} : synced'[q] = synced[q]
      /\ repeated' <=> repeated \/ ~Fresh(k, new)
      /\ UNCHANGED <<clock, pc, replay, resample, outcome>>
      /\ pc = "recording" /\ pc' = "recording" /\ batch'[k] = batch[k] \o new
      /\ \A q \in Tokens \ {k} : batch'[q] = batch[q]
  BY <1>0, <1>8, AddType
<1>10. Grows(k, new)
  BY <1>9 DEF Grows, replay, resample
<1>e. real'[k] = after /\ \A q \in Tokens \ {k} : real'[q] = real[q]
  BY <1>0 DEF Types
<1>11. Others(k)
  BY <1>0, <1>8, <1>9, <1>e DEF Others
<1>12. ~Crossed(real'[k])
  BY <1>0, <1>e
<1>14. synced'[k] => Known(k)'
  <2> SUFFICES ASSUME synced'[k] PROVE Known(k)'
    OBVIOUS
  <2>1. synced[k] /\ got = m.changes /\ Fresh(k, new)
    BY <1>6, <1>9
  <2>2. Known(k)
    BY <2>1 DEF FaithInv, SyncInv
  <2>3. ~(Range(new) \subseteq Range(batch[k]))
    <3>1. 1 \in DOMAIN new
      BY <1>0, <1>3, <2>1
    <3>2. new[1] \in Range(new)
      BY <3>1 DEF Range
    <3> QED BY <2>1, <3>2 DEF Fresh
  <2>4. Agrees(claimed'[k], real'[k])
    BY <1>8, <1>c, <1>e, <2>3
  <2>5. real'[k] = After(real[k], m.changes)
    BY <1>e DEF after
  <2>6. Len(new) = Len(m.changes) /\ \A n \in 1..Len(m.changes) : new[n].kind = "change" /\ new[n].change = m.changes[n]
    BY <1>3, <2>1
  <2> QED BY <1>0, <1>3, <1>10, <2>1, <2>2, <2>4, <2>5, <2>6, KnownMoves
<1>15. Undamaged' => (first'[k] # None => synced'[k]) /\ Paced(k)'
  <2> SUFFICES ASSUME Undamaged' PROVE (first'[k] # None => synced'[k]) /\ Paced(k)'
    OBVIOUS
  <2>1. lost = 0 /\ Len(got) = Len(m.changes) /\ ~repeated /\ Fresh(k, new)
    BY <1>0, <1>3, <1>5, <1>9 DEF Undamaged
  <2>a. Undamaged /\ got = m.changes
    BY <1>3, <2>1 DEF Undamaged
  <2>2. first'[k] # None => synced'[k]
    BY <1>0, <1>6, <1>9, <2>1, <2>a DEF FaithInv, WholeInv
  <2>3. venueTick'[k] = venueTick[k] /\ venueTick[k] \in Ticks
    BY <1>0 DEF Types
  <2>4. Steps(new, venueTick[k], venueTick'[k])
    <3>1. \A i \in 1..Len(new) : new[i].kind = "change"
      BY <1>3
    <3> QED BY <2>3, <3>1 DEF Steps
  <2>5. Paced(k)
    BY <2>a DEF FaithInv, WholeInv
  <2> QED BY <1>0, <1>10, <2>2, <2>3, <2>4, <2>5, PacedGrows
<1>16. lost' = 0 => lost = 0
  BY <1>0, <1>3, <1>5
<1> QED BY <1>0, <1>9, <1>10, <1>11, <1>12, <1>14, <1>15, <1>16, FaithGrows

-----------------------------------------------------------------------------
LEMMA FaithInit == Init => FaithInv
<1> SUFFICES ASSUME Init PROVE FaithInv
  OBVIOUS
<1>1. /\ real \in [Tokens -> {b \in Opening : ~Crossed(b)}] /\ venueTick \in [Tokens -> Ticks]
      /\ \A k \in Tokens : batch[k] = <<>> /\ first[k] = None /\ synced[k] = FALSE /\ tick[k] = None
      /\ conflict = {}
  BY DEF Init
<1>2. \A k \in Tokens : Paced(k)
  <2> TAKE k \in Tokens
  <2> DEFINE w == [i \in 0..0 |-> venueTick[k]]
  <2>1. w \in [0..0 -> Ticks] /\ w[0] = venueTick[k] /\ Len(batch[k]) = 0
    BY <1>1
  <2> HIDE DEF w
  <2>2. Paces(batch[k], w, venueTick[k])
    BY <2>1 DEF Paces
  <2> QED BY <1>1, <2>2 DEF Paced
<1>3. PlainInv
  <2>1. \A k \in Tokens : IsInjective(batch[k])
    BY <1>1 DEF IsInjective
  <2> QED BY <1>1, <2>1 DEF PlainInv
<1> QED BY <1>1, <1>2, <1>3 DEF FaithInv, SyncInv, WholeInv

\* With the next receive time the batch is empty; the replay is through.
LEMMA FaithPass ==
  ASSUME Types, PlaceInv, FaithInv, Pass
  PROVE  FaithInv'
<1>0. /\ pc = "sampled" /\ pc' = "recording" /\ \A q \in Tokens : batch'[q] = <<>>
      /\ UNCHANGED <<claimed, synced, first, lost, repeated, real, venueTick, book, tick, conflict>>
  BY DEF Pass, replay, venue
<1>1. /\ \A q \in Tokens : Replayed(q)' = 0 /\ Len(batch'[q]) = 0 /\ KeptIn(batch'[q]) = {}
      /\ \A q \in Tokens : batch[q] \in Seq(Row) /\ Len(batch[q]) \in Nat /\ real[q] \in Book /\ venueTick[q] \in Ticks
      /\ \A q \in Tokens \ conflict : Replayed(q) = Len(batch[q])
  BY <1>0 DEF Replayed, KeptIn, Types, PlaceInv
<1>2. SyncInv'
  <2> SUFFICES ASSUME NEW q \in Tokens, synced[q] PROVE Known(q)'
    BY <1>0 DEF SyncInv
  <2>0. Known(q)
    BY DEF FaithInv, SyncInv
  <2>1. PICK s : \E h : /\ Traces(batch[q], s, h, real[q])
                        /\ q \notin conflict /\ Replayed(q) >= s => book[q] = h[Replayed(q)]
    BY <2>0 DEF Known
  <2>2. PICK h : /\ Traces(batch[q], s, h, real[q])
                 /\ q \notin conflict /\ Replayed(q) >= s => book[q] = h[Replayed(q)]
    BY <2>1
  <2>3. q \notin conflict => book[q] = real[q]
    <3> HAVE q \notin conflict
    <3>1. s \in 0..Len(batch[q])
      BY <2>2 DEF Traces
    <3>2. Len(batch[q]) \in s..Len(batch[q]) /\ Len(batch[q]) >= s
          /\ \A j \in (Len(batch[q]) + 1)..Len(batch[q]) : batch[q][j].kind # "change"
      BY <1>1, <3>1
    <3>3. h[Len(batch[q])] = real[q]
      BY <2>2, <3>2 DEF Traces
    <3> QED BY <1>1, <2>2, <3>2, <3>3
  <2> DEFINE f == [i \in 0..0 |-> real[q]]
  <2>4. f \in [0..0 -> Book] /\ f[0] = real[q]
    BY <1>1
  <2> HIDE DEF f
  <2>5. Traces(batch'[q], 0, f, real'[q])
    BY <1>0, <1>1, <2>4 DEF Traces
  <2>6. q \notin conflict' /\ Replayed(q)' >= 0 => book'[q] = f[Replayed(q)']
    BY <1>0, <1>1, <2>3, <2>4
  <2>7. Agrees(claimed'[q], real'[q])
    BY <1>0, <2>0 DEF Known
  <2> QED BY <2>5, <2>6, <2>7 DEF Known
<1>3. PlainInv'
  <2>1. \A q \in Tokens : IsInjective(batch'[q])
    BY <1>0 DEF IsInjective
  <2> QED BY <1>0, <2>1 DEF FaithInv, PlainInv
<1>4. WholeInv'
  <2> SUFFICES ASSUME Undamaged PROVE \A q \in Tokens : Paced(q)'
    BY <1>0 DEF FaithInv, WholeInv, Undamaged
  <2> TAKE q \in Tokens
  <2>0. Paced(q) /\ conflict = {}
    BY DEF FaithInv, WholeInv
  <2>1. PICK w : Paces(batch[q], w, venueTick[q]) /\ tick[q] \in {None, w[Replayed(q)]}
    BY <2>0 DEF Paced
  <2>2. tick[q] \in {None, venueTick[q]}
    BY <1>1, <2>0, <2>1 DEF Paces
  <2> DEFINE v == [i \in 0..0 |-> venueTick[q]]
  <2>3. v \in [0..0 -> Ticks] /\ v[0] = venueTick[q]
    BY <1>1
  <2> HIDE DEF v
  <2>4. Paces(batch'[q], v, venueTick'[q])
    BY <1>0, <1>1, <2>3 DEF Paces
  <2> QED BY <1>0, <1>1, <2>2, <2>3, <2>4 DEF Paced
<1> QED BY <1>2, <1>3, <1>4 DEF FaithInv

\* Steps that only pass the turn.
LEMMA FaithKept ==
  ASSUME FaithInv, \A q \in Tokens : Replayed(q)' = Replayed(q),
         UNCHANGED <<batch, claimed, synced, first, lost, repeated, real, venueTick, book, tick, conflict>>
  PROVE  FaithInv'
<1>1. \A q \in Tokens : (Known(q)' <=> Known(q)) /\ (Paced(q)' <=> Paced(q))
  BY DEF Known, Paced
<1> QED BY <1>1 DEF FaithInv, SyncInv, PlainInv, WholeInv, Undamaged

LEMMA FaithNext ==
  Types /\ PlaceInv /\ FirstInv /\ ClaimsInv /\ FaithInv /\ [Next]_vars => FaithInv'
<1> SUFFICES ASSUME Types, PlaceInv, FirstInv, ClaimsInv, FaithInv, [Next]_vars PROVE FaithInv'
  OBVIOUS
<1>0. Busy \subseteq Tokens
  BY BookReplayAssumption
<1>1. CASE Deliver
  <2>1. /\ pc = "recording" /\ pc' = "replay" /\ \A q \in Tokens : next'[q] = 1
        /\ UNCHANGED <<batch, claimed, synced, first, lost, repeated, real, venueTick, book, tick, conflict>>
    BY <1>1 DEF Deliver, archive, venue
  <2>2. \A q \in Tokens : Replayed(q)' = Replayed(q)
    BY <2>1 DEF Replayed
  <2> QED BY <2>1, <2>2, FaithKept
<1>2. CASE Sample
  <2>1. /\ pc = "replay" /\ pc' = "sampled" /\ next' = next
        /\ UNCHANGED <<batch, claimed, synced, first, lost, repeated, real, venueTick, book, tick, conflict>>
    BY <1>2 DEF Sample, archive, venue, replay
  <2>2. \A q \in Tokens : Replayed(q)' = Replayed(q)
    BY <2>1 DEF Replayed
  <2> QED BY <2>1, <2>2, FaithKept
<1>3. CASE Conclude
  <2>1. /\ pc = "sampled" /\ pc' = "done" /\ next' = next
        /\ UNCHANGED <<batch, claimed, synced, first, lost, repeated, real, venueTick, book, tick, conflict>>
    BY <1>3 DEF Conclude, archive, venue, replay
  <2>2. \A q \in Tokens : Replayed(q)' = Replayed(q)
    BY <2>1 DEF Replayed
  <2> QED BY <2>1, <2>2, FaithKept
<1>4. CASE UNCHANGED vars
  <2>1. /\ pc' = pc /\ next' = next
        /\ UNCHANGED <<batch, claimed, synced, first, lost, repeated, real, venueTick, book, tick, conflict>>
    BY <1>4 DEF vars, archive, venue, replay
  <2>2. \A q \in Tokens : Replayed(q)' = Replayed(q)
    BY <2>1 DEF Replayed
  <2> QED BY <2>1, <2>2, FaithKept
<1>5. CASE Pass
  BY <1>5, FaithPass
<1>6. CASE \E k \in Tokens : Reconstruct(k)
  BY <1>6, FaithReplay
<1>7. CASE \E k \in Tokens : Snapshot(k) \/ Message(k) \/ TickSize(k) \/ Trade(k)
  BY <1>7, FaithSnapshot, FaithMessage, FaithTick, FaithTrade
<1> QED BY <1>0, <1>1, <1>2, <1>3, <1>4, <1>5, <1>6, <1>7 DEF Next, Live, Transform

LEMMA Faithful == Spec => [](Types /\ PlaceInv /\ ClaimsInv /\ FaithInv)
<1>1. Init => ClaimsInv /\ FaithInv
  BY ClaimsInit, FaithInit
<1>2. (Types /\ PlaceInv /\ FirstInv) /\ (ClaimsInv /\ FaithInv) /\ [Next]_vars => (ClaimsInv /\ FaithInv)'
  BY ClaimsNext, FaithNext
<1> QED BY <1>1, <1>2, Placed, PTL DEF Spec

LEMMA GridShowsVenue ==
  ASSUME Types, PlaceInv, ClaimsInv, FaithInv
  PROVE  GridIsFaithful
<1> SUFFICES ASSUME pc = "sampled", clock \in Grid, NEW k \in Tokens \ conflict, synced[k]
             PROVE  sample[k] = real[k]
  BY DEF GridIsFaithful, AtGrid
<1>0. batch[k] \in Seq(Row) /\ Len(batch[k]) \in Nat /\ real[k] \in Book /\ Replayed(k) = Len(batch[k])
  BY DEF Types, PlaceInv
<1>1. PICK s : \E h : /\ Traces(batch[k], s, h, real[k])
                      /\ k \notin conflict /\ Replayed(k) >= s => book[k] = h[Replayed(k)]
  BY DEF FaithInv, SyncInv, Known
<1>2. PICK h : /\ Traces(batch[k], s, h, real[k])
               /\ k \notin conflict /\ Replayed(k) >= s => book[k] = h[Replayed(k)]
  BY <1>1
<1>3. s \in 0..Len(batch[k])
  BY <1>2 DEF Traces
<1>4. Len(batch[k]) \in s..Len(batch[k]) /\ Len(batch[k]) >= s
      /\ \A j \in (Len(batch[k]) + 1)..Len(batch[k]) : batch[k][j].kind # "change"
  BY <1>0, <1>3
<1>5. h[Len(batch[k])] = real[k]
  BY <1>2, <1>4 DEF Traces
<1>6. book[k] = real[k] /\ book[k] # None
  BY <1>0, <1>2, <1>4, <1>5, BookReplayAssumption
<1>7. since[k] # None
  BY <1>6 DEF PlaceInv
<1> QED BY <1>6, <1>7 DEF ClaimsInv, SampleInv

\* BookReconstructor and resample_200ms: once the archive has a snapshot and all
\* that came after it, the grid shows the venue's own book, whatever was lost
\* before.
THEOREM GridFaithful == Spec => []GridIsFaithful
<1>1. Types /\ PlaceInv /\ ClaimsInv /\ FaithInv => GridIsFaithful
  BY GridShowsVenue
<1> QED BY <1>1, Faithful, PTL

\* BookReconstructor: a market is excluded as contradictory only if a row of it
\* was lost or repeated.
THEOREM ConflictsMeanDamage == Spec => []ConflictMeansDamage
<1>1. Types /\ PlaceInv /\ ClaimsInv /\ FaithInv => ConflictMeansDamage
  <2> SUFFICES ASSUME Types, WholeInv, conflict # {}, ~(lost > 0), ~repeated PROVE FALSE
    BY DEF ConflictMeansDamage, FaithInv
  <2>1. lost = 0
    BY DEF Types
  <2> QED BY <2>1 DEF WholeInv, Undamaged
<1> QED BY <1>1, Faithful, PTL
=============================================================================
