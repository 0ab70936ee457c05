-------------------------- MODULE StagedDay_proofs --------------------------
(***************************************************************************)
(* Proofs about StagedDay: what a staged market holds, which fragments     *)
(* wait, that the alarms of the lifecycle are silent and which breakers    *)
(* can bind, for every set of markets, archive, gap and length of the      *)
(* hour.                                                                   *)
(***************************************************************************)
EXTENDS StagedDay, FiniteSetTheorems, FunctionTheorems, WellFoundedInduction, TLAPS

-----------------------------------------------------------------------------
(***************************************************************************)
(* Arithmetic of the grid of the archive's hours, and least elements.      *)
(***************************************************************************)
LEMMA MulStep ==
  ASSUME NEW w \in Nat \ {0}, NEW p \in Int, NEW q \in Int, p < q
  PROVE  w * p + w <= w * q
<1>1. q - p - 1 >= 0
  OBVIOUS
<1>2. w * (q - p - 1) >= 0
  BY <1>1
<1>3. w * (q - p - 1) = w * q - w * p - w
  OBVIOUS
<1> QED BY <1>2, <1>3

LEMMA MulLess ==
  ASSUME NEW w \in Nat \ {0}, NEW p \in Int, NEW q \in Int, w * p < w * q
  PROVE  p < q
<1> SUFFICES ASSUME q <= p PROVE FALSE
  OBVIOUS
<1>1. w * (p - q) >= 0
  OBVIOUS
<1>2. w * (p - q) = w * p - w * q
  OBVIOUS
<1> QED BY <1>1, <1>2

LEMMA ModDef ==
  ASSUME NEW w \in Nat \ {0}, NEW x \in Int
  PROVE  /\ x % w \in 0..(w - 1)
         /\ x \div w \in Int
         /\ x = (w * (x \div w)) + (x % w)
OBVIOUS

LEMMA ModGrid ==
  ASSUME NEW w \in Nat \ {0}, NEW x \in Int, NEW y \in Int,
         x % w = 0, y % w = 0, x < y
  PROVE  x + w <= y
<1>1. x = w * (x \div w) /\ y = w * (y \div w)
  BY ModDef
<1>2. x \div w < y \div w
  BY <1>1, MulLess, ModDef
<1> QED BY <1>1, <1>2, MulStep, ModDef

LEMMA ModAt ==
  ASSUME NEW w \in Nat \ {0}, NEW a \in Int
  PROVE  (w * a) % w = 0
<1> DEFINE c == w * a
           b == c \div w
           r == c % w
<1> SUFFICES r = 0
  OBVIOUS
<1>0. c \in Int
  OBVIOUS
<1> HIDE DEF c
<1>1. b \in Int /\ r \in 0..(w - 1) /\ c = (w * b) + r
  BY <1>0, ModDef
<1> HIDE DEF b, r
<1>2. w * (a - b) = r
  BY <1>1 DEF c
<1>3. CASE a - b > 0
  <2>1. w * (a - b) >= w
    BY <1>1, <1>3, MulStep
  <2> QED BY <1>1, <1>2, <2>1
<1>4. CASE a - b < 0
  <2>1. w * (a - b) < 0
    BY <1>1, <1>4
  <2> QED BY <1>1, <1>2, <2>1
<1>5. CASE a - b = 0
  BY <1>1, <1>2, <1>5
<1> QED BY <1>1, <1>3, <1>4, <1>5

\* The grid point at or before x.
LEMMA GridFloor ==
  ASSUME NEW w \in Nat \ {0}, NEW x \in Nat
  PROVE  LET h == x - (x % w)
         IN  h \in Nat /\ h <= x /\ x < h + w /\ h - (h % w) = h
<1> DEFINE q == x \div w
           h == x - (x % w)
<1>1. x % w \in 0..(w - 1) /\ q \in Int /\ x = (w * q) + (x % w)
  BY ModDef
<1>2. h = w * q
  BY <1>1
<1>3. h % w = 0
  BY <1>1, <1>2, ModAt
<1>4. q >= 0
  <2> SUFFICES ASSUME q < 0 PROVE FALSE
    BY <1>1
  <2>1. w * q + w <= w * 0
    BY <1>1, MulStep
  <2> QED BY <1>1, <2>1
<1>5. h \in Nat
  BY <1>1, <1>2, <1>4
<1> QED BY <1>1, <1>3, <1>5

\* Two grid points are at least w apart.
LEMMA GridGap ==
  ASSUME NEW w \in Nat \ {0}, NEW x \in Nat, NEW y \in Nat,
         x - (x % w) = x, y - (y % w) = y, x < y
  PROVE  x + w <= y
<1>1. x % w = 0 /\ y % w = 0
  BY ModDef
<1>2. x \in Int /\ y \in Int
  OBVIOUS
<1> QED BY <1>1, <1>2, ModGrid

\* The next grid point.
LEMMA GridNext ==
  ASSUME NEW w \in Nat \ {0}, NEW x \in Nat, x - (x % w) = x
  PROVE  x + w \in Nat /\ (x + w) - ((x + w) % w) = x + w
<1>1. x % w = 0
  BY ModDef
<1>2. x \div w \in Int /\ x = w * (x \div w)
  BY <1>1, ModDef
<1>3. x + w = w * ((x \div w) + 1)
  BY <1>2
<1>4. (x + w) % w = 0
  <2> DEFINE q == (x \div w) + 1
  <2>1. q \in Int /\ x + w = w * q
    BY <1>2, <1>3
  <2> HIDE DEF q
  <2> QED BY <2>1, ModAt
<1> QED BY <1>4

\* A nonempty set of naturals has a least element.
LEMMA Least ==
  ASSUME NEW S \in SUBSET Nat, S # {}
  PROVE  \E x \in S : \A y \in S : x <= y
<1>1. PICK x \in S : \A y \in S : ~(<<y, x>> \in OpToRel(<, Nat))
  BY NatLessThanWellFounded, WFMin, Zenon
<1>2. \A y \in S : y \in Nat /\ x \in Nat => ~(y < x)
  BY <1>1, Zenon DEF OpToRel
<1> QED BY <1>2

-----------------------------------------------------------------------------
\* The hour of a window is on the grid and holds the window.
LEMMA HourFacts ==
  ASSUME NEW x \in Nat
  PROVE  /\ Hour(x) \in Nat /\ Hour(x) <= x /\ x < Hour(x) + Windows
         /\ Hour(Hour(x)) = Hour(x)
BY StagedDayAssumption, GridFloor DEF Hour

\* Two objects start a whole hour apart.
LEMMA Grid ==
  ASSUME NEW x \in Nat, NEW y \in Nat, Hour(x) = x, Hour(y) = y, x < y
  PROVE  x + Windows <= y
BY StagedDayAssumption, GridGap DEF Hour

LEMMA NextHour ==
  ASSUME NEW x \in Nat, Hour(x) = x
  PROVE  x + Windows \in Nat /\ Hour(x + Windows) = x + Windows
BY StagedDayAssumption, GridNext DEF Hour

\* An object that concerns a market of the day is one of Hours.
LEMMA RelevantIsHour ==
  ASSUME NEW m \in Market, NEW t \in Nat, Hour(t) = t, Relevant(m, t)
  PROVE  t \in Hours
<1>1. m.start \in Nat /\ m.start \in Slots /\ Windows \in Nat \ {0} /\ Horizon \in Nat
  BY StagedDayAssumption DEF Market
<1>2. t <= m.start
  BY <1>1 DEF Relevant, End
<1>3. m.start <= Horizon
  BY <1>1, HourFacts, StagedDayAssumption
<1> QED BY <1>1, <1>2, <1>3 DEF Hours

LEMMA MarketFacts ==
  ASSUME NEW m \in Market
  PROVE  /\ m.start \in Slots /\ m.start \in Nat /\ m.asset \in Assets
         /\ End(m) = m.start + 1 /\ End(m) <= Horizon
<1>1. m.start \in Slots /\ m.start \in Nat /\ m.asset \in Assets
  BY StagedDayAssumption DEF Market
<1>2. m.start < Hour(m.start) + Windows /\ Hour(m.start) + Windows <= Horizon
  BY <1>1, HourFacts, StagedDayAssumption
<1>3. Hour(m.start) \in Nat /\ Windows \in Nat /\ Horizon \in Nat
  BY <1>1, HourFacts, StagedDayAssumption
<1> QED BY <1>1, <1>2, <1>3 DEF End

\* The first market of the day.
LEMMA FirstIsLeast ==
  ASSUME markets \subseteq Market, markets # {}
  PROVE  FirstStart \in Nat /\ \A m \in markets : FirstStart <= m.start
<1> DEFINE S == {m.start : m \in markets}
<1>1. \A m \in markets : m.start \in Nat
  BY MarketFacts
<1>2. S \in SUBSET Nat /\ S # {}
  BY <1>1
<1>3. \E x \in S : \A y \in S : x <= y
  BY <1>2, Least
<1>4. \E s \in S : \A m \in markets : s <= m.start
  BY <1>3
<1> QED BY <1>2, <1>4 DEF FirstStart

\* The end of its last market.
LEMMA LastIsGreatest ==
  ASSUME markets \subseteq Market, markets # {}
  PROVE  LastEnd \in Nat \ {0} /\ \A m \in markets : End(m) <= LastEnd
<1> DEFINE S == {End(m) : m \in markets}
           T == {Horizon - End(m) : m \in markets}
<1>1. \A m \in markets : End(m) \in Nat \ {0} /\ End(m) <= Horizon
  <2> SUFFICES ASSUME NEW m \in markets PROVE End(m) \in Nat \ {0} /\ End(m) <= Horizon
    OBVIOUS
  <2>1. m.start \in Nat /\ End(m) = m.start + 1 /\ End(m) <= Horizon
    BY MarketFacts
  <2> QED BY <2>1
<1>2. Horizon \in Nat
  BY StagedDayAssumption
<1>3. T \in SUBSET Nat /\ T # {}
  BY <1>1, <1>2
<1>4. \E x \in T : \A y \in T : x <= y
  BY <1>3, Least
<1>5. \E n \in markets : \A m \in markets : Horizon - End(n) <= Horizon - End(m)
  BY <1>4
<1>6. \E n \in markets : \A m \in markets : End(m) <= End(n)
  BY <1>1, <1>2, <1>5
<1>7. \E e \in S : \A m \in markets : End(m) <= e
  BY <1>6
<1>8. LastEnd \in S /\ \A m \in markets : End(m) <= LastEnd
  BY <1>7 DEF LastEnd
<1> QED BY <1>1, <1>8

\* No object before the first one concerns a market of the day.
LEMMA FirstSourceFacts ==
  ASSUME markets \subseteq Market, markets # {}
  PROVE  /\ FirstSource \in Nat /\ Hour(FirstSource) = FirstSource
         /\ \A m \in markets : FirstSource < End(m)
         /\ \A m \in markets : \A t \in Hours : Relevant(m, t) => FirstSource <= t
<1> DEFINE x == IF FirstStart >= Windows THEN FirstStart - Windows ELSE 0
<1>1. FirstStart \in Nat /\ \A m \in markets : FirstStart <= m.start
  BY FirstIsLeast
<1>2. Windows \in Nat \ {0} /\ \A m \in markets : m.start \in Nat
  BY StagedDayAssumption DEF Market
<1>3. x \in Nat /\ x <= FirstStart /\ (x = 0 \/ x = FirstStart - Windows)
  BY <1>1, <1>2
<1>4. FirstSource = Hour(x)
  BY DEF FirstSource
<1> HIDE DEF x
<1>5. FirstSource \in Nat /\ FirstSource <= x /\ Hour(FirstSource) = FirstSource
  BY <1>3, <1>4, HourFacts
<1>6. ASSUME NEW m \in markets, NEW t \in Hours, Relevant(m, t), t < FirstSource
      PROVE  FALSE
  <2>1. t \in Nat /\ Hour(t) = t
    BY DEF Hours
  <2>2. t + Windows <= FirstSource
    BY <1>5, <1>6, <2>1, Grid
  <2> QED BY <1>1, <1>2, <1>3, <1>5, <1>6, <2>1, <2>2 DEF Relevant
<1>7. \A m \in markets : FirstSource < End(m)
  BY <1>1, <1>2, <1>3, <1>5 DEF End
<1>8. \A t \in Hours : t \in Nat
  BY DEF Hours
<1> QED BY <1>5, <1>6, <1>7, <1>8

\* After the last object every market has ended.
LEMMA LastSourceFacts ==
  ASSUME markets \subseteq Market, markets # {},
         NEW t \in Nat, Hour(t) = t, t > LastSource
  PROVE  \A m \in markets : End(m) <= t
<1>1. LastEnd \in Nat \ {0} /\ \A m \in markets : End(m) <= LastEnd
  BY LastIsGreatest
<1> DEFINE x == LastEnd - 1
<1>2. x \in Nat /\ LastSource = Hour(x)
  BY <1>1 DEF LastSource
<1>3. LastSource \in Nat /\ x < LastSource + Windows /\ Hour(LastSource) = LastSource
  BY <1>2, HourFacts
<1>4. LastSource + Windows <= t
  BY <1>3, Grid
<1>5. LastEnd <= t
  BY <1>1, <1>2, <1>3, <1>4, StagedDayAssumption
<1>6. \A m \in markets : End(m) \in Nat
  BY MarketFacts
<1> QED BY <1>1, <1>5, <1>6

-----------------------------------------------------------------------------
(***************************************************************************)
(* The inductive invariant: SeenUntil is what the objects before t hold of *)
(* a market; it is what waits in the pending fragments.                    *)
(***************************************************************************)
SeenUntil(m, t) == UNION {Rows(m, u) : u \in {v \in Hours : Relevant(m, v) /\ v < t}}

Running == pc \in {"source", "market"}

Shape ==
  /\ markets \subseteq Market /\ archive \in Archives
  /\ finalized \subseteq markets /\ todo \subseteq markets
  /\ current \in [Market -> SUBSET Events]
  /\ pending \in [Market -> SUBSET Events]
  /\ staged \in [Market -> SUBSET Events]
  /\ Running => markets # {} /\ source \in Nat /\ Hour(source) = source

\* Which markets are done with.
Handled ==
  /\ pc = "source" => \A m \in markets : m \in finalized <=> End(m) <= source
  /\ pc = "market" =>
       \A m \in markets :
         m \in finalized <=> End(m) <= source \/ (End(m) <= source + Windows /\ m \notin todo)

\* What is in the current fragments.
Current ==
  /\ pc = "source" => todo = {} /\ current = Empty
  /\ pc = "market" =>
       /\ \A m \in todo : Relevant(m, source)
       /\ \A m \in markets : Relevant(m, source) /\ m \notin todo => current[m] = {}
       /\ \A m \in Market : current[m] = IF m \in todo THEN Rows(m, source) ELSE {}

\* What is in the pending ones.
Waiting ==
  /\ \A m \in Market \ (markets \ finalized) : pending[m] = {}
  /\ \A m \in finalized : current[m] = {}
  /\ pc = "source" =>
       \A m \in markets \ finalized : pending[m] = SeenUntil(m, source)
  /\ pc = "market" =>
       \A m \in markets \ finalized :
         pending[m] = SeenUntil(m, IF m \in todo THEN source ELSE source + Windows)

StageInv ==
  Shape /\ Handled /\ Current /\ Waiting /\ StagedIsComplete /\ NoAlarm

-----------------------------------------------------------------------------
\* What an object adds to what has been seen of a market.
LEMMA SeenStep ==
  ASSUME NEW m \in Market, NEW t \in Nat, Hour(t) = t
  PROVE  SeenUntil(m, t + Windows) =
           SeenUntil(m, t) \cup (IF Relevant(m, t) THEN Rows(m, t) ELSE {})
<1>1. Windows \in Nat \ {0} /\ t + Windows \in Nat /\ Hour(t + Windows) = t + Windows
  BY StagedDayAssumption, NextHour
<1>2. \A u \in Hours : u \in Nat /\ Hour(u) = u
  BY DEF Hours
<1>3. \A u \in Hours : u < t + Windows <=> u < t \/ u = t
  <2> SUFFICES ASSUME NEW u \in Hours, u < t + Windows, ~(u < t), u # t PROVE FALSE
    BY <1>1, <1>2
  <2>1. t < u
    BY <1>2
  <2> QED BY <1>1, <1>2, <2>1, Grid
<1>4. Relevant(m, t) => t \in Hours
  BY RelevantIsHour
<1> QED BY <1>3, <1>4 DEF SeenUntil

\* After a market has ended, everything has been seen of it.
LEMMA SeenAll ==
  ASSUME NEW m \in Market, NEW t \in Nat, End(m) <= t
  PROVE  SeenUntil(m, t) = Content(m)
<1>1. \A u \in Hours : Relevant(m, u) => u < t
  BY MarketFacts DEF Hours, Relevant
<1> QED BY <1>1 DEF SeenUntil, Content

LEMMA RowsType ==
  ASSUME NEW m \in Market, NEW t \in Nat, Hour(t) = t, Relevant(m, t), archive \in Archives
  PROVE  Rows(m, t) \subseteq Events /\ RawRows(m, t) \subseteq Events \X Copies
<1>1. t \in Hours
  BY RelevantIsHour
<1>2. archive \in [Hours \X Market -> SUBSET (Events \X Copies)]
  BY StagedDayAssumption
<1>3. <<t, m>> \in Hours \X Market
  BY <1>1
<1>4. RawRows(m, t) \subseteq Events \X Copies
  BY <1>2, <1>3 DEF RawRows
<1>5. \A r \in Events \X Copies : r[1] \in Events
  OBVIOUS
<1> QED BY <1>4, <1>5 DEF Rows

\* What is seen of a market depends on the archive only.
LEMMA SeenSame ==
  ASSUME archive' = archive
  PROVE  /\ \A m \in Market, t \in Nat : SeenUntil(m, t)' = SeenUntil(m, t)
         /\ \A m \in Market : Content(m)' = Content(m)
BY DEF SeenUntil, Content, Rows, RawRows

\* An object concerns the markets of two hours.
LEMMA NotOvercrowded ==
  ASSUME Shape, Running
  PROVE  ~Overcrowded
<1>1. source \in Nat /\ Windows \in Nat \ {0}
  BY StagedDayAssumption DEF Shape
<1> SUFFICES ASSUME NEW a \in Assets
             PROVE  Cardinality(Concerned(a, source)) \in Nat
                    /\ Cardinality(Concerned(a, source)) <= 2 * Windows
  BY <1>1 DEF Overcrowded
<1> DEFINE S == Concerned(a, source)
           T == source..(source + 2 * Windows - 1)
           f == [m \in S |-> m.start]
<1>2. \A m \in S : m \in Market /\ m.asset = a /\ m.start \in T
  BY <1>1, MarketFacts DEF Shape, Concerned, Relevant
<1>3. \A m, n \in S : m.start = n.start => m = n
  BY <1>2 DEF Market
<1>4. f \in Injection(S, T)
  BY <1>2, <1>3 DEF Injection, IsInjective
<1>5. IsFiniteSet(T) /\ Cardinality(T) = 2 * Windows
  BY <1>1, FS_Interval
<1> QED BY <1>4, <1>5, FS_Injection, FS_CardinalityType

-----------------------------------------------------------------------------
LEMMA InvInit == Init => StageInv
<1> SUFFICES ASSUME Init PROVE StageInv
  OBVIOUS
<1> USE DEF Init
<1>1. CASE markets = {}
  BY <1>1 DEF StageInv, Shape, Handled, Current, Waiting, StagedIsComplete, NoAlarm,
              Running, Empty
<1>2. CASE markets # {}
  <2>1. pc = "source" /\ source = FirstSource /\ markets \subseteq Market
    BY <1>2
  <2>2. source \in Nat /\ Hour(source) = source /\ \A m \in markets : source < End(m)
    BY <1>2, <2>1, FirstSourceFacts
  <2>3. \A m \in markets : SeenUntil(m, source) = {}
    <3> SUFFICES ASSUME NEW m \in markets, NEW u \in Hours, Relevant(m, u), u < source
                 PROVE  FALSE
      BY DEF SeenUntil
    <3>1. source <= u
      BY <1>2, <2>1, FirstSourceFacts
    <3> QED BY <2>2, <3>1 DEF Hours
  <2>4. Shape
    BY <1>2, <2>1, <2>2 DEF Shape, Empty
  <2>5. Handled
    BY <2>1, <2>2, MarketFacts DEF Handled
  <2>6. Current /\ Waiting
    BY <2>1, <2>3 DEF Current, Waiting, Empty
  <2> QED BY <2>4, <2>5, <2>6 DEF StageInv, StagedIsComplete, NoAlarm
<1> QED BY <1>1, <1>2

\* A day that fails keeps the invariant, unless one of its alarms goes off.
LEMMA Stop ==
  ASSUME StageInv, pc' = "failed",
         UNCHANGED <<inputs, todo, current, pending, staged, finalized>>,
         NoAlarm'
  PROVE  StageInv'
<1>1. Shape' /\ ~Running' /\ Handled' /\ Current' /\ Waiting'
  BY DEF StageInv, Shape, Running, Handled, Current, Waiting, inputs
<1>2. StagedIsComplete'
  BY SeenSame DEF StageInv, Shape, StagedIsComplete, inputs
<1> QED BY <1>1, <1>2 DEF StageInv

\* The scan of an object that is not refused.
LEMMA Scan == StageInv /\ ScanSource => StageInv'
<1> SUFFICES ASSUME StageInv, ScanSource PROVE StageInv'
  OBVIOUS
<1> USE DEF ScanSource, inputs
<1>1. /\ markets \subseteq Market /\ source \in Nat /\ Hour(source) = source
      /\ markets' = markets /\ source' = source /\ archive' = archive
      /\ Windows \in Nat \ {0}
  BY StagedDayAssumption DEF StageInv, Shape, Running
<1>2. todo' = {m \in markets : Relevant(m, source)}
  OBVIOUS
<1>3. \A m \in Market : m.start \in Nat /\ End(m) = m.start + 1
  BY MarketFacts
<1>4. Shape'
  <2>1. \A m \in todo' : Rows(m, source) \subseteq Events
    BY <1>1, <1>2, RowsType DEF StageInv, Shape
  <2> QED BY <1>1, <1>2, <2>1 DEF StageInv, Shape, Running
<1>5. Handled'
  <2>1. \A m \in markets : m \in todo' <=> End(m) > source /\ m.start - Windows < source + Windows
    BY <1>2 DEF Relevant
  <2>2. \A m \in markets : End(m) <= source + Windows /\ End(m) > source => m \in todo'
    BY <1>1, <1>3, <2>1
  <2>3. \A m \in markets : m \in finalized <=> End(m) <= source
    BY DEF StageInv, Handled
  <2>4. \A m \in markets : End(m) <= source \/ End(m) > source
    BY <1>1, <1>3
  <2> QED BY <1>1, <2>2, <2>3, <2>4 DEF Handled
<1>6. Current'
  <2>1. \A m \in Market : Rows(m, source)' = Rows(m, source)
    BY <1>1 DEF Rows, RawRows
  <2>2. \A m \in Market : current'[m] = IF m \in todo' THEN Rows(m, source) ELSE {}
    OBVIOUS
  <2>3. \A m \in todo' : Relevant(m, source)'
    BY <1>1, <1>2 DEF Relevant
  <2>4. \A m \in Market : m \notin todo' => current'[m] = {}
    BY <2>2
  <2> QED BY <1>1, <2>1, <2>2, <2>3, <2>4 DEF Current
<1>7. Waiting'
  <2>1. \A m \in markets \ todo' : SeenUntil(m, source + Windows) = SeenUntil(m, source)
    <3> SUFFICES ASSUME NEW m \in markets, ~Relevant(m, source)
                 PROVE  SeenUntil(m, source + Windows) = SeenUntil(m, source)
      BY <1>2
    <3>1. m \in Market
      BY <1>1
    <3>2. SeenUntil(m, source + Windows) = SeenUntil(m, source) \cup {}
      BY <1>1, <3>1, SeenStep
    <3> QED BY <3>2
  <2>2. \A m \in Market, t \in Nat : SeenUntil(m, t)' = SeenUntil(m, t)
    BY <1>1, SeenSame
  <2>3. source + Windows \in Nat
    BY <1>1
  <2>4. \A m \in markets \ finalized : pending[m] = SeenUntil(m, source)
    BY DEF StageInv, Waiting
  <2>5. \A m \in markets \ finalized :
          /\ m \in todo' => pending[m] = SeenUntil(m, source)'
          /\ m \notin todo' => pending[m] = SeenUntil(m, source + Windows)'
    BY <1>1, <2>1, <2>2, <2>3, <2>4
  <2>6. \A m \in finalized : m \in Market /\ m \notin todo'
    BY <1>1, <1>2, <1>3 DEF StageInv, Shape, Handled, Relevant
  <2>7. \A m \in finalized' : current'[m] = {}
    BY <2>6
  <2> QED BY <1>1, <2>5, <2>7 DEF StageInv, Waiting
<1>8. StagedIsComplete' /\ NoAlarm'
  BY <1>1, SeenSame DEF StageInv, Shape, StagedIsComplete, NoAlarm
<1> QED BY <1>4, <1>5, <1>6, <1>7, <1>8 DEF StageInv

\* The market that is handled: nothing of it has been lost, and its current
\* fragments are all that it lacks.
LEMMA Counted ==
  ASSUME StageInv, NEW n \in Market, Count(n)
  PROVE  /\ n \in markets /\ n \notin finalized /\ End(n) > source
         /\ SeenUntil(n, source + Windows) = pending[n] \cup current[n]
         /\ pending[n] \cup current[n] \subseteq Events
         /\ pc = "market" /\ pc' = "market" /\ source' = source /\ markets' = markets
         /\ source \in Nat /\ Hour(source) = source /\ source + Windows \in Nat
         /\ Current'
         /\ \A m \in Market, t \in Nat : SeenUntil(m, t)' = SeenUntil(m, t)
         /\ \A m \in Market : Content(m)' = Content(m)
<1>1. /\ pc = "market" /\ n \in todo /\ todo' = todo \ {n}
      /\ current' = [current EXCEPT ![n] = {}]
      /\ archive' = archive /\ source' = source /\ markets' = markets /\ pc' = pc
  BY DEF Count, inputs
<1>2. /\ n \in markets /\ markets \subseteq Market
      /\ current \in [Market -> SUBSET Events] /\ pending \in [Market -> SUBSET Events]
      /\ source \in Nat /\ Hour(source) = source /\ source + Windows \in Nat
  BY <1>1, StagedDayAssumption DEF StageInv, Shape, Running
<1>3. Relevant(n, source) /\ current[n] = Rows(n, source) /\ End(n) > source
  BY <1>1, <1>2 DEF StageInv, Current, Relevant
<1>4. n \notin finalized
  <2>1. End(n) \in Nat
    BY MarketFacts
  <2> QED BY <1>1, <1>2, <1>3, <2>1 DEF StageInv, Handled
<1>5. pending[n] = SeenUntil(n, source)
  BY <1>1, <1>2, <1>4 DEF StageInv, Waiting
<1>6. SeenUntil(n, source + Windows) = pending[n] \cup current[n]
  BY <1>2, <1>3, <1>5, SeenStep
<1>7. Current'
  <2>1. \A m \in Market : Rows(m, source)' = Rows(m, source)
    BY <1>1 DEF Rows, RawRows
  <2>2. \A m \in Market : Relevant(m, source)' <=> Relevant(m, source)
    BY <1>1 DEF Relevant
  <2>3. \A m \in Market : current[m] = IF m \in todo THEN Rows(m, source) ELSE {}
    BY <1>1 DEF StageInv, Current
  <2>4. \A m \in Market : current'[m] = IF m \in todo' THEN Rows(m, source) ELSE {}
    BY <1>1, <1>2, <2>3
  <2>5. \A m \in todo : Relevant(m, source) /\ m \in Market
    BY <1>1 DEF StageInv, Current, Shape
  <2> QED BY <1>1, <1>2, <2>1, <2>2, <2>4, <2>5 DEF Current
<1>8. /\ \A m \in Market, t \in Nat : SeenUntil(m, t)' = SeenUntil(m, t)
      /\ \A m \in Market : Content(m)' = Content(m)
  BY <1>1, SeenSame
<1> QED BY <1>1, <1>2, <1>3, <1>4, <1>6, <1>7, <1>8

LEMMA Stage == ASSUME NEW n \in Market PROVE StageInv /\ StageMarket(n) => StageInv'
<1> SUFFICES ASSUME StageInv, StageMarket(n) PROVE StageInv'
  OBVIOUS
<1>1. /\ Count(n) /\ Ends(n)
      /\ staged' = [staged EXCEPT ![n] = pending[n] \cup current[n]]
      /\ finalized' = finalized \cup {n}
      /\ pending' = [pending EXCEPT ![n] = {}]
  BY DEF StageMarket
<1>2. /\ n \in markets /\ n \notin finalized /\ End(n) > source
      /\ SeenUntil(n, source + Windows) = pending[n] \cup current[n]
      /\ pending[n] \cup current[n] \subseteq Events
      /\ pc = "market" /\ pc' = "market" /\ source' = source /\ markets' = markets
      /\ source \in Nat /\ Hour(source) = source /\ source + Windows \in Nat
      /\ Current'
      /\ \A m \in Market, t \in Nat : SeenUntil(m, t)' = SeenUntil(m, t)
      /\ \A m \in Market : Content(m)' = Content(m)
  BY <1>1, Counted
<1>3. /\ todo' = todo \ {n} /\ current' = [current EXCEPT ![n] = {}]
      /\ archive' = archive /\ reason' = reason
  BY <1>1 DEF Count, inputs
<1>4. Shape /\ Handled /\ Waiting /\ StagedIsComplete /\ NoAlarm
  BY DEF StageInv
<1>5. Shape'
  BY <1>1, <1>2, <1>3, <1>4 DEF Shape, Running
<1>6. Handled'
  <2>1. End(n) <= source + Windows
    BY <1>1 DEF Ends
  <2> QED BY <1>1, <1>2, <1>3, <1>4, <2>1 DEF Handled
<1>7. Waiting'
  <2>0. \A m \in finalized' : current'[m] = {}
    BY <1>1, <1>2, <1>3, <1>4 DEF Shape, Waiting
  <2> SUFFICES ASSUME NEW m \in Market
               PROVE  /\ m \notin markets \ finalized' => pending'[m] = {}
                      /\ m \in markets \ finalized' =>
                           /\ m \in todo' => pending'[m] = SeenUntil(m, source)'
                           /\ m \notin todo' => pending'[m] = SeenUntil(m, source + Windows)'
    BY <2>0, <1>2, <1>4 DEF Waiting, Shape
  <2>1. CASE m = n
    BY <1>1, <1>2, <1>4, <2>1 DEF Shape
  <2>2. CASE m # n
    <3>1. pending'[m] = pending[m] /\ (m \in todo' <=> m \in todo)
          /\ (m \in finalized' <=> m \in finalized)
      BY <1>1, <1>3, <1>4, <2>2 DEF Shape
    <3>2. SeenUntil(m, source)' = SeenUntil(m, source)
          /\ SeenUntil(m, source + Windows)' = SeenUntil(m, source + Windows)
      BY <1>2
    <3> QED BY <1>2, <1>4, <3>1, <3>2 DEF Waiting, Running
  <2> QED BY <2>1, <2>2
<1>8. StagedIsComplete'
  <2>1. SeenUntil(n, source + Windows) = Content(n)
    BY <1>1, <1>2, SeenAll DEF Ends
  <2>2. staged'[n] = Content(n)
    BY <1>1, <1>2, <1>4, <2>1 DEF Shape
  <2>3. \A m \in finalized : m \in Market /\ staged'[m] = Content(m)
    BY <1>1, <1>2, <1>4 DEF Shape, StagedIsComplete
  <2> QED BY <1>1, <1>2, <2>2, <2>3 DEF StagedIsComplete
<1>9. NoAlarm'
  BY <1>3, <1>4 DEF NoAlarm
<1> QED BY <1>2, <1>5, <1>6, <1>7, <1>8, <1>9 DEF StageInv

LEMMA Wait == ASSUME NEW n \in Market PROVE StageInv /\ KeepMarket(n) => StageInv'
<1> SUFFICES ASSUME StageInv, KeepMarket(n) PROVE StageInv'
  OBVIOUS
<1>1. /\ Count(n) /\ ~Ends(n)
      /\ pending' = [pending EXCEPT ![n] = pending[n] \cup current[n]]
      /\ staged' = staged /\ finalized' = finalized
  BY DEF KeepMarket
<1>2. /\ n \in markets /\ n \notin finalized /\ End(n) > source
      /\ SeenUntil(n, source + Windows) = pending[n] \cup current[n]
      /\ pending[n] \cup current[n] \subseteq Events
      /\ pc = "market" /\ pc' = "market" /\ source' = source /\ markets' = markets
      /\ source \in Nat /\ Hour(source) = source /\ source + Windows \in Nat
      /\ Current'
      /\ \A m \in Market, t \in Nat : SeenUntil(m, t)' = SeenUntil(m, t)
      /\ \A m \in Market : Content(m)' = Content(m)
  BY <1>1, Counted
<1>3. /\ todo' = todo \ {n} /\ current' = [current EXCEPT ![n] = {}]
      /\ archive' = archive /\ reason' = reason
  BY <1>1 DEF Count, inputs
<1>4. Shape /\ Handled /\ Waiting /\ StagedIsComplete /\ NoAlarm
  BY DEF StageInv
<1>5. Shape'
  BY <1>1, <1>2, <1>3, <1>4 DEF Shape, Running
<1>6. Handled'
  <2>1. ~(End(n) <= source + Windows) /\ ~(End(n) <= source)
    BY <1>1, <1>2, MarketFacts DEF Ends
  <2> QED BY <1>1, <1>2, <1>3, <1>4, <2>1 DEF Handled
<1>7. Waiting'
  <2>0. \A m \in finalized' : current'[m] = {}
    BY <1>1, <1>2, <1>3, <1>4 DEF Shape, Waiting
  <2> SUFFICES ASSUME NEW m \in Market
               PROVE  /\ m \notin markets \ finalized => pending'[m] = {}
                      /\ m \in markets \ finalized =>
                           /\ m \in todo' => pending'[m] = SeenUntil(m, source)'
                           /\ m \notin todo' => pending'[m] = SeenUntil(m, source + Windows)'
    BY <2>0, <1>1, <1>2, <1>4 DEF Waiting, Shape
  <2>1. CASE m = n
    BY <1>1, <1>2, <1>3, <1>4, <2>1 DEF Shape
  <2>2. CASE m # n
    <3>1. pending'[m] = pending[m] /\ (m \in todo' <=> m \in todo)
      BY <1>1, <1>3, <1>4, <2>2 DEF Shape
    <3>2. SeenUntil(m, source)' = SeenUntil(m, source)
          /\ SeenUntil(m, source + Windows)' = SeenUntil(m, source + Windows)
      BY <1>2
    <3> QED BY <1>2, <1>4, <3>1, <3>2 DEF Waiting, Running
  <2> QED BY <2>1, <2>2
<1>8. StagedIsComplete' /\ NoAlarm'
  BY <1>1, <1>2, <1>3, <1>4 DEF StagedIsComplete, NoAlarm, Shape
<1> QED BY <1>2, <1>5, <1>6, <1>7, <1>8 DEF StageInv

LEMMA Close == StageInv /\ CloseSource => StageInv'
<1> SUFFICES ASSUME StageInv, CloseSource PROVE StageInv'
  OBVIOUS
<1>1. pc = "market" /\ todo = {} /\ Shape /\ Handled /\ Current /\ Waiting /\ StagedIsComplete
      /\ NoAlarm
  BY DEF CloseSource, StageInv
<1>2. /\ markets \subseteq Market /\ current \in [Market -> SUBSET Events]
      /\ source \in Nat /\ Hour(source) = source /\ Windows \in Nat \ {0}
      /\ source + Windows \in Nat /\ Hour(source + Windows) = source + Windows
  BY <1>1, NextHour, StagedDayAssumption DEF Shape, Running
<1>3. current = Empty
  BY <1>1, <1>2 DEF Current, Empty
<1>4. \A m \in markets : m \in finalized <=> End(m) <= source + Windows
  <2>1. \A m \in markets : End(m) \in Nat
    BY <1>2, MarketFacts
  <2> QED BY <1>1, <1>2, <2>1 DEF Handled
<1>5. /\ pc' = "source" /\ source' = source + Windows /\ reason' = reason
      /\ markets' = markets /\ archive' = archive
      /\ UNCHANGED <<todo, current, pending, staged, finalized>>
  BY <1>3, <1>4 DEF CloseSource, Ends, NextSource, inputs
<1>6. Shape' /\ Handled' /\ Current'
  BY <1>1, <1>2, <1>3, <1>4, <1>5 DEF Shape, Handled, Current, Running, Empty
<1>7. /\ \A m \in Market, t \in Nat : SeenUntil(m, t)' = SeenUntil(m, t)
      /\ \A m \in Market : Content(m)' = Content(m)
  BY <1>5, SeenSame
<1>8. Waiting'
  <2>1. \A m \in markets \ finalized : pending[m] = SeenUntil(m, source + Windows)
    BY <1>1 DEF Waiting
  <2>2. \A m \in markets \ finalized : pending[m] = SeenUntil(m, source)'
    BY <1>2, <1>5, <1>7, <2>1
  <2> QED BY <1>1, <1>5, <2>2 DEF Waiting, Running
<1>9. StagedIsComplete' /\ NoAlarm'
  BY <1>1, <1>5, <1>7 DEF StagedIsComplete, NoAlarm, Shape
<1> QED BY <1>6, <1>8, <1>9 DEF StageInv

LEMMA Ended == StageInv /\ Finish => StageInv'
<1> SUFFICES ASSUME StageInv, Finish PROVE StageInv'
  OBVIOUS
<1>1. pc = "source" /\ source > LastSource /\ Shape /\ Handled /\ Current /\ Waiting /\ NoAlarm
      /\ StagedIsComplete
  BY DEF Finish, StageInv
<1>2. /\ markets \subseteq Market /\ markets # {} /\ finalized \subseteq markets
      /\ pending \in [Market -> SUBSET Events] /\ source \in Nat /\ Hour(source) = source
  BY <1>1 DEF Shape, Running
<1>3. finalized = markets
  <2>1. \A m \in markets : End(m) <= source
    BY <1>1, <1>2, LastSourceFacts
  <2> QED BY <1>1, <1>2, <2>1 DEF Handled
<1>4. pending = Empty
  BY <1>1, <1>2, <1>3 DEF Waiting, Running, Empty
<1>5. /\ pc' = "done" /\ reason' = reason /\ markets' = markets /\ archive' = archive
      /\ UNCHANGED <<source, todo, current, pending, staged, finalized>>
  BY <1>3, <1>4 DEF Finish, inputs
<1>6. Shape' /\ Handled' /\ Current' /\ Waiting'
  BY <1>1, <1>5 DEF Shape, Handled, Current, Waiting, Running
<1>7. StagedIsComplete' /\ NoAlarm'
  BY <1>1, <1>2, <1>5, SeenSame DEF StagedIsComplete, NoAlarm
<1> QED BY <1>6, <1>7 DEF StageInv

LEMMA InvNext == StageInv /\ [Next]_vars => StageInv'
<1> SUFFICES ASSUME StageInv, [Next]_vars PROVE StageInv'
  OBVIOUS
<1>1. CASE RefuseSource
  <2>1. ~Overcrowded
    BY <1>1, NotOvercrowded DEF RefuseSource, StageInv, Running
  <2>2. NoAlarm'
    BY <1>1, <2>1 DEF RefuseSource, NoAlarm, Fail
  <2> QED BY <1>1, <2>2, Stop DEF RefuseSource, Fail
<1>2. CASE ScanSource
  BY <1>2, Scan
<1>3. CASE CloseSource
  BY <1>3, Close
<1>4. CASE Finish
  BY <1>4, Ended
<1>5. CASE Starve
  <2>1. NoAlarm'
    BY <1>5 DEF Starve, NoAlarm, Fail
  <2> QED BY <1>5, <2>1, Stop DEF Starve, Fail
<1>6. ASSUME NEW n \in Market, RefuseMarket(n)
      PROVE  StageInv'
  <2>1. NoAlarm'
    BY <1>6 DEF RefuseMarket, NoAlarm, Fail
  <2> QED BY <1>6, <2>1, Stop DEF RefuseMarket, Fail
<1>7. ASSUME NEW n \in Market, StageMarket(n)
      PROVE  StageInv'
  BY <1>7, Stage
<1>8. ASSUME NEW n \in Market, KeepMarket(n)
      PROVE  StageInv'
  BY <1>8, Wait
<1>9. CASE UNCHANGED vars
  <2>1. /\ archive' = archive
        /\ UNCHANGED <<markets, pc, source, todo, current, pending, staged, finalized, reason>>
    BY <1>9 DEF vars, inputs
  <2>2. Shape' /\ Handled' /\ NoAlarm'
    BY <2>1 DEF StageInv, Shape, Handled, NoAlarm, Running
  <2>3. Current'
    BY <2>1 DEF StageInv, Current, Rows, RawRows, Relevant
  <2>4. Waiting'
    BY <2>1 DEF StageInv, Waiting, Running, SeenUntil, Rows, RawRows
  <2>5. StagedIsComplete'
    BY <2>1, SeenSame DEF StageInv, Shape, StagedIsComplete
  <2> QED BY <2>2, <2>3, <2>4, <2>5 DEF StageInv
<1> QED BY <1>1, <1>2, <1>3, <1>4, <1>5, <1>6, <1>7, <1>8, <1>9 DEF Next, Handle

\* The invariant that the theorems below rest on: which markets are done with, and
\* what the current and the pending fragments hold.
THEOREM StagedDayInvariant == Spec => []StageInv
BY InvInit, InvNext, PTL DEF Spec

-----------------------------------------------------------------------------
(***************************************************************************)
(* The object that is handled is one of the day, and the rows counted stay *)
(* below the breakers.                                                     *)
(***************************************************************************)
CountInv ==
  /\ source \in Hours
  /\ pc = "market" => source <= LastSource
  /\ objectRows \in [Assets -> 0..AssetObjectCap]
  /\ assetRows \in [Assets -> 0..AssetDayCap]
  /\ marketRows \in [Market -> 0..MarketDayCap]

LEMMA CapFacts ==
  AssetObjectCap \in Nat /\ MarketDayCap \in Nat /\ AssetDayCap \in Nat
<1>1. Windows \in Nat /\ RowCap \in Nat /\ Horizon \in Nat
  BY StagedDayAssumption
<1>2. \A s \in Slots : s \in 0..Horizon
  <2> SUFFICES ASSUME NEW s \in Slots PROVE s \in 0..Horizon
    OBVIOUS
  <2>1. s \in Nat /\ Hour(s) + Windows <= Horizon
    BY StagedDayAssumption
  <2> QED BY <1>1, <2>1, HourFacts
<1>3. Slots \in SUBSET (0..Horizon)
  BY <1>2
<1>4. IsFiniteSet(0..Horizon)
  BY <1>1, FS_Interval
<1>5. Cardinality(Slots) \in Nat
  BY <1>3, <1>4, FS_Subset, FS_CardinalityType
<1>6. MarketDayCap \in Nat
  BY <1>1 DEF MarketDayCap
<1>7. 2 * Windows \in Nat
  BY <1>1
<1>8. AssetObjectCap \in Nat
  BY <1>1, <1>7 DEF AssetObjectCap
<1> HIDE DEF MarketDayCap
<1>9. AssetDayCap \in Nat
  BY <1>5, <1>6 DEF AssetDayCap
<1> QED BY <1>6, <1>8, <1>9

\* An hour passes after every object up to the last.
LEMMA SourcesOfTheDay ==
  ASSUME markets \subseteq Market, markets # {}
  PROVE  /\ FirstSource \in Hours
         /\ \A t \in Hours : t <= LastSource => t + Windows \in Hours
<1>1. Windows \in Nat \ {0} /\ Horizon \in Nat
  BY StagedDayAssumption
<1>2. LastEnd \in Nat \ {0} /\ \E m \in markets : LastEnd = m.start + 1
  <2> DEFINE S == {End(m) : m \in markets}
  <2>1. \A m \in markets : End(m) = m.start + 1
    BY MarketFacts
  <2>2. LastEnd \in Nat \ {0} /\ \A m \in markets : End(m) <= LastEnd
    BY LastIsGreatest
  <2>3. \E m \in markets : \A n \in markets : End(n) <= End(m)
    <3> DEFINE T == {Horizon - End(m) : m \in markets}
    <3>1. \A m \in markets : End(m) \in Nat /\ End(m) <= Horizon
      <4> SUFFICES ASSUME NEW m \in markets PROVE End(m) \in Nat /\ End(m) <= Horizon
        OBVIOUS
      <4> QED BY MarketFacts
    <3>2. T \in SUBSET Nat /\ T # {}
      BY <1>1, <3>1
    <3>3. \E x \in T : \A y \in T : x <= y
      BY <3>2, Least
    <3>4. \E m \in markets : \A n \in markets : Horizon - End(m) <= Horizon - End(n)
      BY <3>3
    <3> QED BY <1>1, <3>1, <3>4
  <2>4. LastEnd \in S
    BY <2>3 DEF LastEnd
  <2> QED BY <2>1, <2>2, <2>4
<1>3. PICK m \in markets : LastEnd = m.start + 1
  BY <1>2
<1>4. m.start \in Nat /\ m.start \in Slots /\ LastEnd - 1 = m.start
  BY <1>3, MarketFacts
<1>5. LastSource = Hour(m.start)
  BY <1>4 DEF LastSource
<1>6. LastSource + Windows <= Horizon
  BY <1>4, <1>5, StagedDayAssumption
<1>7. LastSource \in Nat
  BY <1>4, <1>5, HourFacts
<1>8. FirstSource \in Hours
  <2>1. FirstSource \in Nat /\ Hour(FirstSource) = FirstSource /\ FirstSource < End(m)
    BY FirstSourceFacts
  <2>2. End(m) <= Horizon /\ End(m) = m.start + 1
    BY MarketFacts
  <2> QED BY <1>1, <1>4, <2>1, <2>2 DEF Hours
<1>9. ASSUME NEW t \in Hours, t <= LastSource PROVE t + Windows \in Hours
  <2>1. t \in Nat /\ Hour(t) = t
    BY DEF Hours
  <2>2. t + Windows \in Nat /\ Hour(t + Windows) = t + Windows
    BY <2>1, NextHour
  <2> QED BY <1>1, <1>6, <1>7, <1>9, <2>1, <2>2 DEF Hours
<1> QED BY <1>8, <1>9

LEMMA CountedInit == Init => CountInv
<1> SUFFICES ASSUME Init PROVE CountInv
  OBVIOUS
<1>1. source \in Hours
  <2>1. CASE markets = {}
    <3>1. 0 % Windows = 0 /\ Horizon \in Nat
      <4>1. Windows \in Nat \ {0}
        BY StagedDayAssumption
      <4>2. (Windows * 0) % Windows = 0 /\ Windows * 0 = 0
        BY <4>1, ModAt
      <4> QED BY <4>2, StagedDayAssumption
    <3> QED BY <2>1, <3>1 DEF Init, Hours, Hour
  <2>2. CASE markets # {}
    BY <2>2, SourcesOfTheDay DEF Init
  <2> QED BY <2>1, <2>2
<1>2. pc # "market"
  BY DEF Init
<1> QED BY <1>1, <1>2, CapFacts DEF Init, CountInv

LEMMA CountsStay ==
  ASSUME StageInv, CountInv, NEW m \in Market, Count(m)
  PROVE  /\ objectRows' \in [Assets -> 0..AssetObjectCap]
         /\ assetRows' \in [Assets -> 0..AssetDayCap]
         /\ marketRows' \in [Market -> 0..MarketDayCap]
<1> DEFINE n == Cardinality(current[m])
<1>1. n \in Nat
  <2>1. current[m] \subseteq Events
    BY DEF StageInv, Shape
  <2> QED BY <2>1, StagedDayAssumption, FS_Subset, FS_CardinalityType
<1>2. /\ ~(objectRows[m.asset] + n > AssetObjectCap) /\ ~(marketRows[m] + n > MarketDayCap)
      /\ ~(assetRows[m.asset] + n > AssetDayCap)
  BY DEF Count, OverCap
<1>3. /\ objectRows' = [objectRows EXCEPT ![m.asset] = @ + n]
      /\ marketRows' = [marketRows EXCEPT ![m] = @ + n]
      /\ assetRows' = [assetRows EXCEPT ![m.asset] = @ + n]
  BY DEF Count
<1> HIDE DEF n
<1>4. m.asset \in Assets
  BY MarketFacts
<1>5. objectRows[m.asset] + n \in 0..AssetObjectCap
  BY <1>1, <1>2, <1>4, CapFacts DEF CountInv
<1>6. assetRows[m.asset] + n \in 0..AssetDayCap
  BY <1>1, <1>2, <1>4, CapFacts DEF CountInv
<1>7. marketRows[m] + n \in 0..MarketDayCap
  BY <1>1, <1>2, CapFacts DEF CountInv
<1> QED BY <1>3, <1>4, <1>5, <1>6, <1>7 DEF CountInv

LEMMA CountedNext == StageInv /\ CountInv /\ [Next]_vars => CountInv'
<1> SUFFICES ASSUME StageInv, CountInv, [Next]_vars PROVE CountInv'
  OBVIOUS
<1>1. CASE RefuseSource \/ Finish \/ Starve \/ \E m \in Market : RefuseMarket(m)
  <2>1. UNCHANGED <<source, objectRows, marketRows, assetRows>> /\ pc' # "market"
    BY <1>1 DEF RefuseSource, Finish, Starve, RefuseMarket, Fail, counts
  <2> QED BY <2>1 DEF CountInv
<1>2. CASE ScanSource
  <2>1. UNCHANGED <<source, marketRows, assetRows, LastSource>> /\ source <= LastSource
    BY <1>2 DEF ScanSource, LastSource, LastEnd, inputs
  <2>2. objectRows' \in [Assets -> 0..AssetObjectCap]
    BY <1>2, CapFacts DEF ScanSource
  <2> QED BY <2>1, <2>2 DEF CountInv
<1>3. CASE CloseSource
  <2>1. UNCHANGED <<objectRows, marketRows, assetRows>> /\ pc' # "market"
    BY <1>3 DEF CloseSource, Fail, counts
  <2>2. source' \in Hours
    <3>1. source' = source \/ source' = source + Windows
      BY <1>3 DEF CloseSource, NextSource
    <3>2. source \in Hours /\ source <= LastSource /\ markets \subseteq Market /\ markets # {}
      BY <1>3 DEF CloseSource, CountInv, StageInv, Shape, Running
    <3> QED BY <3>1, <3>2, SourcesOfTheDay
  <2> QED BY <2>1, <2>2 DEF CountInv
<1>4. ASSUME NEW m \in Market, StageMarket(m) \/ KeepMarket(m) PROVE CountInv'
  <2>1. Count(m)
    BY <1>4 DEF StageMarket, KeepMarket
  <2>2. UNCHANGED <<source, pc, LastSource>>
    BY <2>1 DEF Count, inputs, LastSource, LastEnd
  <2> QED BY <2>1, <2>2, CountsStay DEF CountInv
<1>5. CASE UNCHANGED vars
  BY <1>5 DEF vars, counts, inputs, CountInv, LastSource, LastEnd
<1> QED BY <1>1, <1>2, <1>3, <1>4, <1>5 DEF Next, Handle

Place == pc \in {"source", "market", "done", "failed"}

LEMMA KnownPlace == Spec => []Place
<1>1. Init => Place
  BY DEF Init, Place
<1>2. Place /\ [Next]_vars => Place'
  BY DEF Next, vars, RefuseSource, ScanSource, CloseSource, Finish, Starve, Handle,
         RefuseMarket, StageMarket, KeepMarket, Count, Fail, Place
<1> QED BY <1>1, <1>2, PTL DEF Spec

\* The variables of prepare_staged_day keep the types of TypeOK: the object it
\* handles is one of the day's, and no count exceeds its breaker.
THEOREM StagedDayTypes == Spec => []TypeOK
<1>1. StageInv /\ CountInv /\ Place => TypeOK
  BY DEF StageInv, Shape, CountInv, Place, TypeOK
<1> QED BY <1>1, CountedInit, CountedNext, StagedDayInvariant, KnownPlace, PTL DEF Spec

-----------------------------------------------------------------------------
\* prepare_staged_day: a staged market has every event of every object that
\* concerns it, whatever Gamma knows and the archive holds.
THEOREM StagingIsComplete == Spec => []StagedIsComplete
<1>1. StageInv => StagedIsComplete
  BY DEF StageInv
<1> QED BY <1>1, StagedDayInvariant, PTL

\* prepare_staged_day: none of the alarms of the lifecycle (too many markets in
\* an object, a market that escapes, is not finalized, or leaves fragments) can
\* go off: these raise statements are unreachable.
THEOREM AlarmsAreSilent == Spec => []NoAlarm
<1>1. StageInv => NoAlarm
  BY DEF StageInv
<1> QED BY <1>1, StagedDayInvariant, PTL

\* prepare_staged_day: between two objects only the markets of the next hour
\* have pending fragments, and a staged market has none at any time.
THEOREM FragmentsAreBounded == Spec => []PendingIsFuture
<1>1. StageInv => PendingIsFuture
  <2> SUFFICES ASSUME StageInv PROVE PendingIsFuture
    OBVIOUS
  <2>1. ASSUME pc = "source", NEW m \in Market, pending[m] # {}
        PROVE  m.start \in source..(source + Windows - 1)
    <3>1. m \in markets \ finalized /\ pending[m] = SeenUntil(m, source)
      BY <2>1 DEF StageInv, Waiting
    <3>2. source \in Nat /\ Hour(source) = source /\ Windows \in Nat \ {0}
          /\ m.start \in Nat /\ End(m) = m.start + 1
      BY <2>1, MarketFacts, StagedDayAssumption DEF StageInv, Shape, Running
    <3>3. source <= m.start
      BY <2>1, <3>1, <3>2 DEF StageInv, Handled
    <3>4. PICK u \in Hours : Relevant(m, u) /\ u < source
      BY <2>1, <3>1 DEF SeenUntil
    <3>5. u \in Nat /\ Hour(u) = u
      BY DEF Hours
    <3>6. u + Windows <= source
      BY <3>2, <3>4, <3>5, Grid
    <3>7. m.start < source + Windows
      BY <3>2, <3>4, <3>5, <3>6 DEF Relevant
    <3> QED BY <3>2, <3>3, <3>7
  <2>2. ASSUME NEW m \in finalized
        PROVE  pending[m] = {} /\ current[m] = {}
    <3> QED BY <2>2 DEF StageInv, Waiting, Shape
  <2> QED BY <2>1, <2>2 DEF PendingIsFuture
<1> QED BY <1>1, StagedDayInvariant, PTL

-----------------------------------------------------------------------------
(***************************************************************************)
(* The breakers.  While no object holds more than RowCap events of a       *)
(* market, no other breaker of the lifecycle can stop the day, and while   *)
(* none holds more than RowCap rows of a market the reader admits all: a   *)
(* market concerns two objects, an object concerns the markets of two      *)
(* hours of an asset, and an asset has one market per window.  The events  *)
(* counted so far are those of the pairs of a market and an object in      *)
(* Past, at most RowCap each.                                              *)
(***************************************************************************)
BigMarket ==
  \E m \in markets, t \in Hours : Relevant(m, t) /\ Cardinality(Rows(m, t)) > RowCap

LongMarket ==
  \E m \in markets, t \in Hours : Relevant(m, t) /\ Cardinality(RawRows(m, t)) > RowCap

Pairs == {p \in markets \X Hours : Relevant(p[1], p[2])}

OfMarket(m) == {p \in Pairs : p[1] = m}
OfAsset(a)  == {p \in Pairs : p[1].asset = a}
OfObject(a) == {p \in Pairs : p[1].asset = a /\ p[2] = source}

\* The pairs whose rows have been counted.
Past ==
  {p \in Pairs : p[2] < source \/ (p[2] = source /\ pc = "market" /\ p[1] \notin todo)}

Tally ==
  /\ \A m \in Market : marketRows[m] <= RowCap * Cardinality(Past \cap OfMarket(m))
  /\ \A a \in Assets : assetRows[a] <= RowCap * Cardinality(Past \cap OfAsset(a))
  /\ pc = "market" =>
       \A a \in Assets : objectRows[a] <= RowCap * Cardinality(Past \cap OfObject(a))

RowInv ==
  /\ Running => reason = "none"
  /\ Running /\ ~BigMarket => Tally
  /\ OnlyRowCapBinds

-----------------------------------------------------------------------------
\* A set that maps one to one into a finite set is no larger.
LEMMA Fits ==
  ASSUME NEW S, NEW T, IsFiniteSet(T), NEW f \in [S -> T],
         \A x, y \in S : f[x] = f[y] => x = y
  PROVE  IsFiniteSet(S) /\ Cardinality(S) \in Nat /\ Cardinality(S) <= Cardinality(T)
<1>1. f \in Injection(S, T)
  BY DEF Injection, IsInjective
<1> QED BY <1>1, FS_Injection, FS_CardinalityType

\* A set of at most c elements maps one to one into 1..c.
LEMMA Numbered ==
  ASSUME NEW S, IsFiniteSet(S), NEW c \in Nat, Cardinality(S) <= c
  PROVE  \E g \in [S -> 1..c] : \A x, y \in S : g[x] = g[y] => x = y
<1> DEFINE k == Cardinality(S)
<1>1. k \in Nat /\ ExistsBijection(1..k, S)
  BY FS_CardinalityType
<1>2. ExistsBijection(S, 1..k)
  BY <1>1, Fun_ExistsBijSymmetric
<1>3. PICK g : g \in Bijection(S, 1..k)
  BY <1>2 DEF ExistsBijection
<1>4. g \in [S -> 1..k] /\ \A x, y \in S : g[x] = g[y] => x = y
  <2>1. g \in Injection(S, 1..k)
    BY <1>3 DEF Bijection
  <2> QED BY <2>1 DEF Injection, IsInjective
<1>5. g \in [S -> 1..c]
  <2>1. \A x \in S : g[x] \in 1..c
    BY <1>1, <1>4
  <2> QED BY <1>4, <2>1
<1> QED BY <1>4, <1>5

\* Counting one element more of U.
LEMMA OneMore ==
  ASSUME NEW U, IsFiniteSet(U), NEW S \in SUBSET U, NEW x \in U, x \notin S
  PROVE  /\ Cardinality(S) \in Nat
         /\ Cardinality(S \cup {x}) = Cardinality(S) + 1
         /\ Cardinality(S) + 1 <= Cardinality(U)
<1>1. IsFiniteSet(S) /\ Cardinality(S) \in Nat
  BY FS_Subset, FS_CardinalityType
<1>2. Cardinality(S \cup {x}) = Cardinality(S) + 1
  BY <1>1, FS_AddElement
<1>3. S \cup {x} \in SUBSET U
  OBVIOUS
<1>4. Cardinality(S \cup {x}) <= Cardinality(U)
  BY <1>3, FS_Subset
<1> QED BY <1>1, <1>2, <1>4

\* At most c rows for each of k pairs, and n rows for another one of the K pairs.
LEMMA RowsAdd ==
  ASSUME NEW c \in Nat, NEW k \in Nat, NEW K \in Nat, NEW x \in Nat, NEW n \in Nat,
         x <= c * k, n <= c, k + 1 <= K
  PROVE  x + n <= c * (k + 1) /\ x + n <= c * K
<1>1. c * (k + 1) = c * k + c
  OBVIOUS
<1>2. c * (K - (k + 1)) >= 0
  <2> DEFINE d == K - (k + 1)
  <2>1. d \in Nat
    OBVIOUS
  <2> HIDE DEF d
  <2>2. c * d >= 0
    BY <2>1
  <2> QED BY <2>2 DEF d
<1>3. c * (K - (k + 1)) = c * K - c * (k + 1)
  OBVIOUS
<1> QED BY <1>1, <1>2, <1>3

\* An object that concerns a market starts in its hour or in the hour before.
LEMMA TwoObjects ==
  ASSUME NEW m \in Market, NEW t \in Hours, Relevant(m, t), t # Hour(m.start)
  PROVE  t = Hour(m.start) - Windows
<1> DEFINE h == Hour(m.start)
<1>1. m.start \in Nat /\ End(m) = m.start + 1
  BY MarketFacts
<1>2. h \in Nat /\ h <= m.start /\ m.start < h + Windows /\ Hour(h) = h
  BY <1>1, HourFacts
<1> HIDE DEF h
<1>3. t \in Nat /\ Hour(t) = t /\ Windows \in Nat \ {0} /\ t # h
  BY StagedDayAssumption DEF Hours, h
<1>4. t <= m.start /\ m.start - Windows < t + Windows
  BY <1>1, <1>3 DEF Relevant
<1>5. t < h
  <2> SUFFICES ASSUME h < t PROVE FALSE
    BY <1>2, <1>3
  <2>1. h + Windows <= t
    BY <1>2, <1>3, Grid
  <2> QED BY <1>1, <1>2, <1>3, <1>4, <2>1
<1>6. t + Windows <= h
  BY <1>2, <1>3, <1>5, Grid
<1>7. ~(t + Windows < h)
  <2> SUFFICES ASSUME t + Windows < h PROVE FALSE
    OBVIOUS
  <2>1. t + Windows \in Nat /\ Hour(t + Windows) = t + Windows
    BY <1>3, NextHour
  <2>2. t + Windows + Windows <= h
    BY <1>2, <2>1, Grid
  <2> QED BY <1>1, <1>2, <1>3, <1>4, <2>2
<1>8. t = h - Windows
  BY <1>2, <1>3, <1>6, <1>7
<1> QED BY <1>8 DEF h

LEMMA SlotsAreFinite == IsFiniteSet(Slots) /\ Cardinality(Slots) \in Nat
<1>1. Windows \in Nat /\ Horizon \in Nat
  BY StagedDayAssumption
<1>2. \A s \in Slots : s \in 0..Horizon
  <2> SUFFICES ASSUME NEW s \in Slots PROVE s \in 0..Horizon
    OBVIOUS
  <2>1. s \in Nat /\ Hour(s) + Windows <= Horizon
    BY StagedDayAssumption
  <2> QED BY <1>1, <2>1, HourFacts
<1>3. Slots \in SUBSET (0..Horizon)
  BY <1>2
<1>4. IsFiniteSet(0..Horizon)
  BY <1>1, FS_Interval
<1> QED BY <1>3, <1>4, FS_Subset, FS_CardinalityType

LEMMA TwoElements == IsFiniteSet({0, 1}) /\ Cardinality({0, 1}) = 2
<1>1. IsFiniteSet({0}) /\ Cardinality({0}) = 1
  BY FS_Singleton
<1>2. IsFiniteSet({0} \cup {1}) /\ Cardinality({0} \cup {1}) = 2
  BY <1>1, FS_AddElement
<1>3. {0} \cup {1} = {0, 1}
  OBVIOUS
<1> QED BY <1>2, <1>3

\* How many pairs there are: two objects of a market, the markets of two hours
\* in an object, and two objects of every window of an asset.
LEMMA PairsOfMarket ==
  ASSUME markets \subseteq Market, NEW m \in Market
  PROVE  IsFiniteSet(OfMarket(m)) /\ Cardinality(OfMarket(m)) <= 2
<1> DEFINE S == OfMarket(m)
           f == [p \in S |-> IF p[2] = Hour(m.start) THEN 0 ELSE 1]
<1>1. f \in [S -> {0, 1}]
  OBVIOUS
<1>2. \A p, q \in S : f[p] = f[q] => p = q
  <2> SUFFICES ASSUME NEW p \in S, NEW q \in S,
                      p[2] = Hour(m.start) <=> q[2] = Hour(m.start)
               PROVE  p = q
    OBVIOUS
  <2>1. /\ p = <<p[1], p[2]>> /\ q = <<q[1], q[2]>> /\ p[1] = m /\ q[1] = m
        /\ p[2] \in Hours /\ q[2] \in Hours /\ Relevant(m, p[2]) /\ Relevant(m, q[2])
    BY DEF OfMarket, Pairs
  <2>2. p[2] = q[2]
    BY <2>1, TwoObjects
  <2> QED BY <2>1, <2>2
<1>3. IsFiniteSet({0, 1}) /\ Cardinality({0, 1}) = 2
  BY TwoElements
<1> HIDE DEF S, f
<1>4. IsFiniteSet(S) /\ Cardinality(S) <= 2
  BY <1>1, <1>2, <1>3, Fits
<1> QED BY <1>4 DEF S

LEMMA PairsOfAsset ==
  ASSUME markets \subseteq Market, NEW a \in Assets
  PROVE  IsFiniteSet(OfAsset(a)) /\ Cardinality(OfAsset(a)) <= 2 * Cardinality(Slots)
<1> DEFINE S == OfAsset(a)
           T == Slots \X {0, 1}
           f == [p \in S |-> <<p[1].start, IF p[2] = Hour(p[1].start) THEN 0 ELSE 1>>]
<1>1. ASSUME NEW p \in S
      PROVE  /\ p = <<p[1], p[2]>> /\ p[1] \in Market /\ p[1].asset = a
             /\ p[2] \in Hours /\ Relevant(p[1], p[2]) /\ p[1].start \in Slots
             /\ p[1] = [asset |-> a, start |-> p[1].start]
  <2>1. /\ p = <<p[1], p[2]>> /\ p[1] \in Market /\ p[1].asset = a
        /\ p[2] \in Hours /\ Relevant(p[1], p[2])
    BY DEF OfAsset, Pairs
  <2> QED BY <2>1 DEF Market
<1>2. f \in [S -> T]
  <2>1. \A p \in S : p[1].start \in Slots
    BY <1>1
  <2> QED BY <2>1
<1>3. \A p, q \in S : f[p] = f[q] => p = q
  <2> SUFFICES ASSUME NEW p \in S, NEW q \in S, f[p] = f[q]
               PROVE  p = q
    OBVIOUS
  <2>1. p[1].start = q[1].start /\ (p[2] = Hour(p[1].start) <=> q[2] = Hour(q[1].start))
    OBVIOUS
  <2>2. p[1] = q[1]
    <3>1. p[1] = [asset |-> a, start |-> p[1].start] /\ q[1] = [asset |-> a, start |-> q[1].start]
      BY <1>1
    <3> QED BY <2>1, <3>1
  <2>3. p[2] = q[2]
    <3>1. /\ p[1] \in Market /\ p[2] \in Hours /\ Relevant(p[1], p[2])
          /\ q[2] \in Hours /\ Relevant(p[1], q[2])
      BY <1>1, <2>2
    <3>2. p[2] = Hour(p[1].start) <=> q[2] = Hour(p[1].start)
      BY <2>1
    <3> HIDE DEF S, T, f
    <3> QED BY <3>1, <3>2, TwoObjects
  <2> QED BY <1>1, <2>2, <2>3
<1>4. IsFiniteSet({0, 1}) /\ Cardinality({0, 1}) = 2
  BY TwoElements
<1>5. IsFiniteSet(T) /\ Cardinality(T) = Cardinality(Slots) * 2
  BY <1>4, SlotsAreFinite, FS_Product
<1> HIDE DEF S, T, f
<1>6. IsFiniteSet(S) /\ Cardinality(S) <= Cardinality(T)
  BY <1>2, <1>3, <1>5, Fits
<1> QED BY <1>5, <1>6, SlotsAreFinite DEF S

LEMMA PairsOfObject ==
  ASSUME markets \subseteq Market, source \in Nat, NEW a \in Assets
  PROVE  IsFiniteSet(OfObject(a)) /\ Cardinality(OfObject(a)) <= 2 * Windows
<1> DEFINE S == OfObject(a)
           T == source..(source + 2 * Windows - 1)
           f == [p \in S |-> p[1].start]
<1>1. Windows \in Nat \ {0}
  BY StagedDayAssumption
<1>2. ASSUME NEW p \in S
      PROVE  /\ p = <<p[1], source>> /\ p[1].start \in T
             /\ p[1] = [asset |-> a, start |-> p[1].start]
  <2>1. /\ p = <<p[1], p[2]>> /\ p[1] \in Market /\ p[1].asset = a
        /\ p[2] = source /\ Relevant(p[1], source)
    BY DEF OfObject, Pairs
  <2>2. p[1] = [asset |-> a, start |-> p[1].start]
    BY <2>1 DEF Market
  <2>3. p[1].start \in Nat /\ End(p[1]) = p[1].start + 1
    BY <2>1, MarketFacts
  <2>4. p[1].start \in T
    BY <1>1, <2>1, <2>3 DEF Relevant
  <2> QED BY <2>1, <2>2, <2>4
<1>3. f \in [S -> T]
  BY <1>2
<1>4. \A p, q \in S : f[p] = f[q] => p = q
  BY <1>2
<1>5. IsFiniteSet(T) /\ Cardinality(T) = 2 * Windows
  BY <1>1, FS_Interval
<1> HIDE DEF S, T, f
<1>6. IsFiniteSet(S) /\ Cardinality(S) <= 2 * Windows
  BY <1>3, <1>4, <1>5, Fits
<1> QED BY <1>6 DEF S

-----------------------------------------------------------------------------
\* The reader admits the object: it holds at most RowCap rows of each of the
\* markets of two hours.
LEMMA NotOverfull ==
  ASSUME StageInv, CountInv, Running, ~LongMarket
  PROVE  ~Overfull
<1> SUFFICES ASSUME NEW a \in Assets
             PROVE  ScannedRows(a) \in Nat /\ ScannedRows(a) <= AssetObjectCap
  BY CapFacts DEF Overfull
<1>1. source \in Hours /\ source \in Nat /\ markets \subseteq Market /\ archive \in Archives
      /\ RowCap \in Nat /\ Windows \in Nat \ {0}
  BY StagedDayAssumption DEF StageInv, Shape, CountInv
<1> DEFINE C == Concerned(a, source)
           S == UNION {{m} \X RawRows(m, source) : m \in C}
           G(m) == {g \in [RawRows(m, source) -> 1..RowCap] :
                      \A x, y \in RawRows(m, source) : g[x] = g[y] => x = y}
           num == [m \in C |-> CHOOSE g \in G(m) : TRUE]
           T == (source..(source + 2 * Windows - 1)) \X (1..RowCap)
           f == [p \in S |-> <<p[1].start, num[p[1]][p[2]]>>]
<1>2. ASSUME NEW m \in C
      PROVE  /\ m \in Market /\ m.asset = a /\ m.start \in source..(source + 2 * Windows - 1)
             /\ m = [asset |-> a, start |-> m.start]
             /\ num[m] \in G(m)
  <2>1. m \in Market /\ m.asset = a /\ Relevant(m, source) /\ m \in markets
    BY <1>1 DEF Concerned
  <2>2. m = [asset |-> a, start |-> m.start]
    BY <2>1 DEF Market
  <2>3. m.start \in Nat /\ End(m) = m.start + 1
    BY <2>1, MarketFacts
  <2>4. m.start \in source..(source + 2 * Windows - 1)
    BY <1>1, <2>1, <2>3 DEF Relevant
  <2>5. IsFiniteSet(RawRows(m, source)) /\ Cardinality(RawRows(m, source)) \in Nat
    <3>1. RawRows(m, source) \in SUBSET (Events \X Copies)
      BY <1>1, <2>1, RowsType DEF Hours
    <3>2. IsFiniteSet(Events \X Copies)
      BY StagedDayAssumption, FS_Product
    <3> QED BY <3>1, <3>2, FS_Subset, FS_CardinalityType
  <2>6. Cardinality(RawRows(m, source)) <= RowCap
    BY <1>1, <2>1, <2>5 DEF LongMarket
  <2>7. G(m) # {}
    BY <1>1, <2>5, <2>6, Numbered
  <2>8. num[m] \in G(m)
    BY <2>7
  <2> QED BY <2>1, <2>2, <2>4, <2>8
<1>3. ASSUME NEW p \in S
      PROVE  p = <<p[1], p[2]>> /\ p[1] \in C /\ p[2] \in RawRows(p[1], source)
  OBVIOUS
<1> HIDE DEF C, S, num
<1>4. \A p \in S : num[p[1]][p[2]] \in 1..RowCap
  BY <1>2, <1>3
<1>5. f \in [S -> T]
  BY <1>2, <1>3, <1>4
<1>6. \A p, q \in S : f[p] = f[q] => p = q
  <2> SUFFICES ASSUME NEW p \in S, NEW q \in S, f[p] = f[q]
               PROVE  p = q
    OBVIOUS
  <2>1. p[1].start = q[1].start /\ num[p[1]][p[2]] = num[q[1]][q[2]]
    OBVIOUS
  <2>2. p[1] = q[1]
    BY <1>2, <1>3, <2>1
  <2>3. p[2] = q[2]
    BY <1>2, <1>3, <2>1, <2>2
  <2> QED BY <1>3, <2>2, <2>3
<1>7. IsFiniteSet(T) /\ Cardinality(T) = 2 * Windows * RowCap
  <2>1. /\ IsFiniteSet(source..(source + 2 * Windows - 1))
        /\ Cardinality(source..(source + 2 * Windows - 1)) = 2 * Windows
    BY <1>1, FS_Interval
  <2>2. IsFiniteSet(1..RowCap) /\ Cardinality(1..RowCap) = RowCap
    BY <1>1, FS_Interval
  <2> QED BY <2>1, <2>2, FS_Product
<1> HIDE DEF T, f
<1>8. IsFiniteSet(S) /\ Cardinality(S) \in Nat /\ Cardinality(S) <= 2 * Windows * RowCap
  BY <1>5, <1>6, <1>7, Fits
<1>9. ScannedRows(a) = Cardinality(S)
  BY DEF ScannedRows, S, C
<1> QED BY <1>8, <1>9 DEF AssetObjectCap

\* The market that is handled now: its rows fit under every breaker, and the
\* pair it forms with the object is counted.
LEMMA RowsFit ==
  ASSUME StageInv, CountInv, Tally, ~BigMarket, pc = "market", NEW m \in todo
  PROVE  LET n == Cardinality(current[m])
             S(U) == Cardinality(Past \cap U)
         IN  /\ ~OverCap(m)
             /\ marketRows[m] + n <= RowCap * (S(OfMarket(m)) + 1)
             /\ assetRows[m.asset] + n <= RowCap * (S(OfAsset(m.asset)) + 1)
             /\ objectRows[m.asset] + n <= RowCap * (S(OfObject(m.asset)) + 1)
<1> DEFINE n == Cardinality(current[m])
           a == m.asset
           x == <<m, source>>
<1>1. /\ m \in markets /\ m \in Market /\ a \in Assets /\ markets \subseteq Market
      /\ source \in Hours /\ source \in Nat /\ RowCap \in Nat /\ Windows \in Nat
      /\ Relevant(m, source) /\ current[m] = Rows(m, source)
  BY StagedDayAssumption, MarketFacts DEF StageInv, Shape, Current, CountInv, Running
<1>2. n \in Nat /\ n <= RowCap
  <2>1. current[m] \subseteq Events
    BY <1>1 DEF StageInv, Shape
  <2>2. n \in Nat
    BY <2>1, StagedDayAssumption, FS_Subset, FS_CardinalityType
  <2> QED BY <1>1, <2>2 DEF BigMarket
<1>3. x \in OfMarket(m) /\ x \in OfAsset(a) /\ x \in OfObject(a) /\ x \notin Past
  BY <1>1 DEF OfMarket, OfAsset, OfObject, Pairs, Past
<1>4. marketRows[m] \in Nat /\ assetRows[a] \in Nat /\ objectRows[a] \in Nat
  BY <1>1, CapFacts DEF CountInv
<1> HIDE DEF n, a, x
<1>5. /\ marketRows[m] + n <= RowCap * (Cardinality(Past \cap OfMarket(m)) + 1)
      /\ marketRows[m] + n <= RowCap * 2
  <2> DEFINE k == Cardinality(Past \cap OfMarket(m))
  <2>1. k \in Nat /\ k + 1 <= Cardinality(OfMarket(m)) /\ Cardinality(OfMarket(m)) <= 2
        /\ Cardinality(OfMarket(m)) \in Nat
    BY <1>1, <1>3, PairsOfMarket, OneMore, FS_CardinalityType
  <2>2. marketRows[m] <= RowCap * k
    BY <1>1 DEF Tally
  <2> HIDE DEF k
  <2>3. k + 1 <= 2
    BY <2>1
  <2>4. marketRows[m] + n <= RowCap * (k + 1) /\ marketRows[m] + n <= RowCap * 2
    BY <1>1, <1>2, <1>4, <2>1, <2>2, <2>3, RowsAdd
  <2> QED BY <2>4 DEF k
<1>6. /\ assetRows[a] + n <= RowCap * (Cardinality(Past \cap OfAsset(a)) + 1)
      /\ assetRows[a] + n <= RowCap * (2 * Cardinality(Slots))
  <2> DEFINE k == Cardinality(Past \cap OfAsset(a))
             K == 2 * Cardinality(Slots)
  <2>1. k \in Nat /\ k + 1 <= Cardinality(OfAsset(a)) /\ Cardinality(OfAsset(a)) <= K
        /\ Cardinality(OfAsset(a)) \in Nat /\ K \in Nat
    <3>1. IsFiniteSet(OfAsset(a)) /\ Cardinality(OfAsset(a)) <= K
      BY <1>1, PairsOfAsset
    <3>2. k \in Nat /\ k + 1 <= Cardinality(OfAsset(a))
      BY <1>3, <3>1, OneMore
    <3>3. Cardinality(OfAsset(a)) \in Nat /\ K \in Nat
      BY <1>1, <3>1, SlotsAreFinite, FS_CardinalityType
    <3> QED BY <3>1, <3>2, <3>3
  <2>2. assetRows[a] <= RowCap * k
    BY <1>1 DEF Tally
  <2> HIDE DEF k, K
  <2>3. k + 1 <= K
    BY <2>1
  <2>4. assetRows[a] + n <= RowCap * (k + 1) /\ assetRows[a] + n <= RowCap * K
    BY <1>1, <1>2, <1>4, <2>1, <2>2, <2>3, RowsAdd
  <2> QED BY <2>4 DEF k, K
<1>7. /\ objectRows[a] + n <= RowCap * (Cardinality(Past \cap OfObject(a)) + 1)
      /\ objectRows[a] + n <= RowCap * (2 * Windows)
  <2> DEFINE k == Cardinality(Past \cap OfObject(a))
             K == 2 * Windows
  <2>1. k \in Nat /\ k + 1 <= Cardinality(OfObject(a)) /\ Cardinality(OfObject(a)) <= K
        /\ Cardinality(OfObject(a)) \in Nat /\ K \in Nat
    <3>1. IsFiniteSet(OfObject(a)) /\ Cardinality(OfObject(a)) <= K
      BY <1>1, PairsOfObject
    <3>2. k \in Nat /\ k + 1 <= Cardinality(OfObject(a))
      BY <1>3, <3>1, OneMore
    <3>3. Cardinality(OfObject(a)) \in Nat /\ K \in Nat
      BY <1>1, <3>1, FS_CardinalityType
    <3> QED BY <3>1, <3>2, <3>3
  <2>2. objectRows[a] <= RowCap * k
    BY <1>1 DEF Tally
  <2> HIDE DEF k, K
  <2>3. k + 1 <= K
    BY <2>1
  <2>4. objectRows[a] + n <= RowCap * (k + 1) /\ objectRows[a] + n <= RowCap * K
    BY <1>1, <1>2, <1>4, <2>1, <2>2, <2>3, RowsAdd
  <2> QED BY <2>4 DEF k, K
<1>8. /\ RowCap * 2 = MarketDayCap
      /\ RowCap * (2 * Windows) = AssetObjectCap
      /\ RowCap * (2 * Cardinality(Slots)) = AssetDayCap
  BY <1>1, SlotsAreFinite DEF MarketDayCap, AssetObjectCap, AssetDayCap
<1>9. ~OverCap(m)
  BY <1>1, <1>2, <1>4, <1>5, <1>6, <1>7, <1>8, CapFacts DEF OverCap, n, a
<1> QED BY <1>5, <1>6, <1>7, <1>9 DEF n, a

LEMMA NoRows ==
  ASSUME NEW c \in Nat, NEW U, IsFiniteSet(U), NEW S
  PROVE  0 <= c * Cardinality(S \cap U)
<1> DEFINE k == Cardinality(S \cap U)
<1>1. k \in Nat
  BY FS_Intersection, FS_CardinalityType
<1> HIDE DEF k
<1>2. 0 <= c * k
  BY <1>1
<1> QED BY <1>2 DEF k

\* At the start nothing has been counted.
LEMMA RowInit == Init => RowInv
<1> SUFFICES ASSUME Init PROVE RowInv
  OBVIOUS
<1>1. reason = "none" /\ OnlyRowCapBinds
  BY DEF Init, OnlyRowCapBinds
<1>2. Running => Tally
  <2>1. markets \subseteq Market /\ RowCap \in Nat
    BY StagedDayAssumption DEF Init
  <2>2. pc # "market" /\ (\A m \in Market : marketRows[m] = 0) /\ \A a \in Assets : assetRows[a] = 0
    BY DEF Init
  <2>3. \A m \in Market : 0 <= RowCap * Cardinality(Past \cap OfMarket(m))
    BY <2>1, PairsOfMarket, NoRows
  <2>4. \A a \in Assets : 0 <= RowCap * Cardinality(Past \cap OfAsset(a))
    BY <2>1, PairsOfAsset, NoRows
  <2> QED BY <2>2, <2>3, <2>4 DEF Tally
<1> QED BY <1>1, <1>2 DEF RowInv

\* A day that stops for another reason than a breaker.
LEMMA RowStop ==
  ASSUME ~Running', reason' \notin {"cap", "scan"}
  PROVE  RowInv'
BY DEF RowInv, OnlyRowCapBinds

\* A breaker that stops the day has met a market with too many events, the reader
\* one with too many rows.
LEMMA RowRefuse ==
  ASSUME StageInv, CountInv, RowInv,
         RefuseSource \/ \E m \in Market : RefuseMarket(m)
  PROVE  RowInv'
<1>1. UNCHANGED inputs /\ ~Running' /\ Running
  BY DEF RefuseSource, RefuseMarket, Fail, Running
<1>2. (reason' = "cap" => BigMarket) /\ (reason' = "scan" => LongMarket)
  <2>1. CASE RefuseSource
    <3>1. reason' # "cap" /\ (reason' = "scan" => Overfull)
      BY <2>1 DEF RefuseSource, Fail
    <3> QED BY <1>1, <3>1, NotOverfull
  <2>2. ASSUME NEW m \in Market, RefuseMarket(m) PROVE BigMarket /\ reason' = "cap"
    BY <1>1, <2>2, RowsFit DEF RefuseMarket, RowInv, Fail
  <2> QED BY <2>1, <2>2
<1>3. (BigMarket' <=> BigMarket) /\ (LongMarket' <=> LongMarket)
  BY <1>1 DEF BigMarket, LongMarket, inputs, Rows, RawRows
<1>4. (reason' = "cap" => BigMarket') /\ (reason' = "scan" => LongMarket')
  BY <1>2, <1>3
<1> QED BY <1>1, <1>4 DEF RowInv, OnlyRowCapBinds, BigMarket, LongMarket

\* The scan of an object counts nothing yet.
LEMMA RowScan ==
  ASSUME StageInv, CountInv, RowInv, ScanSource
  PROVE  RowInv'
<1>1. /\ UNCHANGED <<inputs, reason, source, marketRows, assetRows>>
      /\ pc = "source" /\ pc' = "market" /\ Running /\ reason = "none"
      /\ todo' = {m \in markets : Relevant(m, source)}
      /\ \A a \in Assets : objectRows'[a] = 0
  BY DEF ScanSource, RowInv, Running
<1>2. BigMarket' <=> BigMarket
  BY <1>1 DEF BigMarket, inputs, Rows, RawRows
<1>3. Pairs' = Pairs
  BY <1>1 DEF Pairs, inputs
<1>4. \A p \in Pairs : p[1] \in markets /\ Relevant(p[1], p[2])
  BY DEF Pairs
<1>5. Past' = Past
  BY <1>1, <1>3, <1>4 DEF Past
<1>6. ASSUME Tally PROVE Tally'
  <2>1. /\ \A m : OfMarket(m)' = OfMarket(m)
        /\ \A a : OfAsset(a)' = OfAsset(a) /\ OfObject(a)' = OfObject(a)
    BY <1>1, <1>3 DEF OfMarket, OfAsset, OfObject
  <2>2. \A a \in Assets : 0 <= RowCap * Cardinality(Past \cap OfObject(a))
    BY PairsOfObject, NoRows, StagedDayAssumption, <1>1 DEF StageInv, Shape
  <2> QED BY <1>1, <1>5, <1>6, <2>1, <2>2 DEF Tally
<1> QED BY <1>1, <1>2, <1>6 DEF RowInv, OnlyRowCapBinds

\* The market handled adds the pair it forms with the object.
LEMMA RowCount ==
  ASSUME StageInv, CountInv, RowInv, NEW m \in Market, Count(m)
  PROVE  RowInv'
<1> DEFINE n == Cardinality(current[m])
           x == <<m, source>>
<1>1. /\ UNCHANGED <<inputs, reason, source>> /\ pc = "market" /\ pc' = "market"
      /\ Running /\ reason = "none" /\ m \in todo /\ todo' = todo \ {m}
      /\ objectRows' = [objectRows EXCEPT ![m.asset] = @ + n]
      /\ marketRows' = [marketRows EXCEPT ![m] = @ + n]
      /\ assetRows' = [assetRows EXCEPT ![m.asset] = @ + n]
  BY DEF Count, RowInv, Running
<1>2. /\ m \in markets /\ m.asset \in Assets /\ markets \subseteq Market
      /\ source \in Hours /\ source \in Nat /\ Relevant(m, source)
      /\ objectRows \in [Assets -> 0..AssetObjectCap]
      /\ assetRows \in [Assets -> 0..AssetDayCap]
      /\ marketRows \in [Market -> 0..MarketDayCap]
  BY <1>1, MarketFacts DEF StageInv, Shape, Current, CountInv
<1>3. BigMarket' <=> BigMarket
  BY <1>1 DEF BigMarket, inputs, Rows, RawRows
<1>4. Pairs' = Pairs
  BY <1>1 DEF Pairs, inputs
<1>5. x \in Pairs /\ x \notin Past /\ \A p \in Pairs : p = <<p[1], p[2]>>
  BY <1>1, <1>2 DEF Pairs, Past
<1>6. Past' = Past \cup {x}
  <2>1. ASSUME NEW p \in Pairs
        PROVE  p \in Past' <=> p \in Past \/ p = x
    BY <1>1, <1>4, <1>5 DEF Past
  <2> QED BY <1>4, <1>5, <2>1 DEF Past
<1>7. /\ \A k : OfMarket(k)' = OfMarket(k)
      /\ \A a : OfAsset(a)' = OfAsset(a) /\ OfObject(a)' = OfObject(a)
  BY <1>1, <1>4 DEF OfMarket, OfAsset, OfObject
<1> HIDE DEF n
<1>8. ASSUME ~BigMarket, Tally PROVE Tally'
  <2>1. /\ marketRows[m] + n <= RowCap * (Cardinality(Past \cap OfMarket(m)) + 1)
        /\ assetRows[m.asset] + n <= RowCap * (Cardinality(Past \cap OfAsset(m.asset)) + 1)
        /\ objectRows[m.asset] + n <= RowCap * (Cardinality(Past \cap OfObject(m.asset)) + 1)
    BY <1>1, <1>8, RowsFit DEF n
  <2>2. ASSUME NEW U \in SUBSET Pairs, IsFiniteSet(U), x \in U
        PROVE  Cardinality(Past' \cap U) = Cardinality(Past \cap U) + 1
    <3>1. Past' \cap U = (Past \cap U) \cup {x}
      BY <1>6, <2>2
    <3>2. Past \cap U \in SUBSET U /\ x \notin Past \cap U
      BY <1>5
    <3> QED BY <2>2, <3>1, <3>2, OneMore
  <2>3. ASSUME NEW U, x \notin U
        PROVE  Past' \cap U = Past \cap U
    BY <1>6, <2>3
  <2>4. ASSUME NEW k \in Market
        PROVE  marketRows'[k] <= RowCap * Cardinality(Past' \cap OfMarket(k))
    <3>1. CASE k = m
      <4>1. /\ x \in OfMarket(m) /\ OfMarket(m) \in SUBSET Pairs /\ IsFiniteSet(OfMarket(m))
        BY <1>2, <1>5, PairsOfMarket DEF OfMarket
      <4>2. marketRows'[m] = marketRows[m] + n
        BY <1>1, <1>2
      <4> QED BY <2>1, <2>2, <3>1, <4>1, <4>2
    <3>2. CASE k # m
      <4>1. x \notin OfMarket(k)
        BY <3>2 DEF OfMarket
      <4>2. marketRows'[k] = marketRows[k]
        BY <1>1, <1>2, <3>2
      <4> QED BY <1>8, <2>3, <4>1, <4>2 DEF Tally
    <3> QED BY <3>1, <3>2
  <2>5. ASSUME NEW a \in Assets
        PROVE  assetRows'[a] <= RowCap * Cardinality(Past' \cap OfAsset(a))
    <3>1. CASE a = m.asset
      <4>1. /\ x \in OfAsset(a) /\ OfAsset(a) \in SUBSET Pairs /\ IsFiniteSet(OfAsset(a))
        BY <1>2, <1>5, <3>1, PairsOfAsset DEF OfAsset
      <4>2. assetRows'[a] = assetRows[a] + n
        BY <1>1, <1>2, <3>1
      <4> QED BY <2>1, <2>2, <3>1, <4>1, <4>2
    <3>2. CASE a # m.asset
      <4>1. x \notin OfAsset(a)
        BY <3>2 DEF OfAsset
      <4>2. assetRows'[a] = assetRows[a]
        BY <1>1, <1>2, <3>2
      <4> QED BY <1>8, <2>3, <4>1, <4>2 DEF Tally
    <3> QED BY <3>1, <3>2
  <2>6. ASSUME NEW a \in Assets
        PROVE  objectRows'[a] <= RowCap * Cardinality(Past' \cap OfObject(a))
    <3>1. CASE a = m.asset
      <4>1. /\ x \in OfObject(a) /\ OfObject(a) \in SUBSET Pairs /\ IsFiniteSet(OfObject(a))
        BY <1>2, <1>5, <3>1, PairsOfObject DEF OfObject
      <4>2. objectRows'[a] = objectRows[a] + n
        BY <1>1, <1>2, <3>1
      <4> QED BY <2>1, <2>2, <3>1, <4>1, <4>2
    <3>2. CASE a # m.asset
      <4>1. x \notin OfObject(a)
        BY <3>2 DEF OfObject
      <4>2. objectRows'[a] = objectRows[a]
        BY <1>1, <1>2, <3>2
      <4> QED BY <1>1, <1>8, <2>3, <4>1, <4>2 DEF Tally
    <3> QED BY <3>1, <3>2
  <2> QED BY <1>7, <2>4, <2>5, <2>6 DEF Tally
<1> QED BY <1>1, <1>3, <1>8 DEF RowInv, OnlyRowCapBinds

\* Between two objects the same pairs are behind.
LEMMA RowClose ==
  ASSUME StageInv, CountInv, RowInv, CloseSource
  PROVE  RowInv'
<1>1. CASE pc' = "failed"
  <2>1. reason' \notin {"cap", "scan"}
    BY <1>1 DEF CloseSource, Fail
  <2> QED BY <1>1, <2>1, RowStop DEF Running
<1>2. CASE pc' # "failed"
  <2>1. /\ UNCHANGED <<inputs, reason, todo, marketRows, assetRows>>
        /\ source' = source + Windows /\ pc' = "source" /\ pc = "market" /\ todo = {}
        /\ Running /\ reason = "none"
    BY <1>2 DEF CloseSource, Fail, NextSource, counts, RowInv, Running
  <2>2. source \in Nat /\ Hour(source) = source /\ Windows \in Nat \ {0}
    BY <2>1, StagedDayAssumption DEF StageInv, Shape
  <2>3. BigMarket' <=> BigMarket
    BY <2>1 DEF BigMarket, inputs, Rows, RawRows
  <2>4. Pairs' = Pairs
    BY <2>1 DEF Pairs, inputs
  <2>5. ASSUME NEW p \in Pairs
        PROVE  p[2] < source + Windows <=> p[2] < source \/ p[2] = source
    <3>1. p[2] \in Nat /\ Hour(p[2]) = p[2]
      BY DEF Pairs, Hours
    <3>2. source < p[2] => source + Windows <= p[2]
      BY <2>2, <3>1, Grid
    <3> QED BY <2>2, <3>1, <3>2
  <2>6. Past' = Past
    BY <2>1, <2>4, <2>5 DEF Past
  <2>7. /\ \A m : OfMarket(m)' = OfMarket(m)
        /\ \A a : OfAsset(a)' = OfAsset(a)
    BY <2>1, <2>4 DEF OfMarket, OfAsset
  <2>8. Tally => Tally'
    BY <2>1, <2>6, <2>7 DEF Tally
  <2> QED BY <2>1, <2>3, <2>8 DEF RowInv, OnlyRowCapBinds
<1> QED BY <1>1, <1>2

LEMMA RowNext == StageInv /\ CountInv /\ RowInv /\ [Next]_vars => RowInv'
<1> SUFFICES ASSUME StageInv, CountInv, RowInv, [Next]_vars PROVE RowInv'
  OBVIOUS
<1>1. CASE RefuseSource \/ \E m \in Market : RefuseMarket(m)
  BY <1>1, RowRefuse
<1>2. CASE ScanSource
  BY <1>2, RowScan
<1>3. ASSUME NEW m \in Market, StageMarket(m) \/ KeepMarket(m) PROVE RowInv'
  BY <1>3, RowCount DEF StageMarket, KeepMarket
<1>4. CASE CloseSource
  BY <1>4, RowClose
<1>5. CASE Finish \/ Starve
  <2>1. ~Running' /\ reason' \notin {"cap", "scan"}
    BY <1>5 DEF Finish, Starve, Fail, Running, RowInv
  <2> QED BY <2>1, RowStop
<1>6. CASE UNCHANGED vars
  <2>1. /\ UNCHANGED <<markets, archive, pc, reason, source, todo>>
        /\ UNCHANGED <<objectRows, marketRows, assetRows>>
    BY <1>6 DEF vars, inputs, counts
  <2>2. (Running' <=> Running) /\ (BigMarket' <=> BigMarket)
    BY <2>1 DEF Running, BigMarket, Rows, RawRows
  <2>3. OnlyRowCapBinds' <=> OnlyRowCapBinds
    BY <2>1 DEF OnlyRowCapBinds, Rows, RawRows
  <2>4. Tally' <=> Tally
    BY <2>1 DEF Tally, Past, OfMarket, OfAsset, OfObject, Pairs
  <2> QED BY <2>1, <2>2, <2>3, <2>4 DEF RowInv
<1> QED BY <1>1, <1>2, <1>3, <1>4, <1>5, <1>6 DEF Next, Handle

\* enforce_shared_pmxt_asset_caps and the reader's admission: the breakers of an
\* object, of a market's day and of an asset's day are derived from RowCap.  Those
\* of the lifecycle stop no day whose objects hold at most RowCap events of each
\* market; the reader, which counts before it deduplicates, stops none whose
\* objects hold at most RowCap rows of each.
THEOREM BreakersAreConsistent == Spec => []OnlyRowCapBinds
<1>1. RowInv => OnlyRowCapBinds
  BY DEF RowInv
<1> QED BY <1>1, RowInit, RowNext, CountedInit, CountedNext, StagedDayInvariant, PTL DEF Spec
=============================================================================
