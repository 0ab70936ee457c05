-------------------------- MODULE SharedDay_proofs --------------------------
(***************************************************************************)
(* Proofs about SharedDay: whatever runs were killed, and whatever Gamma   *)
(* and the archive changed meanwhile, a partition has the rows its         *)
(* provenance names, the spool is what state.json says of it, and no run   *)
(* stumbles over what another left behind.                                 *)
(***************************************************************************)
EXTENDS SharedDay, FiniteSetTheorems, WellFoundedInduction, TLAPS

-----------------------------------------------------------------------------
(***************************************************************************)
(* The hours of the archive as a grid, and least elements.                 *)
(***************************************************************************)
LEMMA MulStep ==
  ASSUME NEW w \in Nat \ {0}, NEW p \in Int, NEW q \in Int, p < q
  PROVE  w * p + w <= w * q
<1>1. q - p - 1 >= 0
  OBVIOUS
<1>2. w * (q - p - 1) >= 0
  BY <1>1
<1>3. w * (q - p - 1) = w * q - w * p - w
  OBVIOUS
<1> QED BY <1>2, <1>3

LEMMA MulLess ==
  ASSUME NEW w \in Nat \ {0}, NEW p \in Int, NEW q \in Int, w * p < w * q
  PROVE  p < q
<1> SUFFICES ASSUME q <= p PROVE FALSE
  OBVIOUS
<1>1. w * (p - q) >= 0
  OBVIOUS
<1>2. w * (p - q) = w * p - w * q
  OBVIOUS
<1> QED BY <1>1, <1>2

LEMMA ModDef ==
  ASSUME NEW w \in Nat \ {0}, NEW x \in Int
  PROVE  /\ x % w \in 0..(w - 1)
         /\ x \div w \in Int
         /\ x = (w * (x \div w)) + (x % w)
OBVIOUS

LEMMA ModGrid ==
  ASSUME NEW w \in Nat \ {0}, NEW x \in Int, NEW y \in Int,
         x % w = 0, y % w = 0, x < y
  PROVE  x + w <= y
<1>1. x = w * (x \div w) /\ y = w * (y \div w)
  BY ModDef
<1>2. x \div w < y \div w
  BY <1>1, MulLess, ModDef
<1> QED BY <1>1, <1>2, MulStep, ModDef

LEMMA ModAt ==
  ASSUME NEW w \in Nat \ {0}, NEW a \in Int
  PROVE  (w * a) % w = 0
<1> DEFINE c == w * a
           b == c \div w
           r == c % w
<1> SUFFICES r = 0
  OBVIOUS
<1>0. c \in Int
  OBVIOUS
<1> HIDE DEF c
<1>1. b \in Int /\ r \in 0..(w - 1) /\ c = (w * b) + r
  BY <1>0, ModDef
<1> HIDE DEF b, r
<1>2. w * (a - b) = r
  BY <1>1 DEF c
<1>3. CASE a - b > 0
  <2>1. w * (a - b) >= w
    BY <1>1, <1>3, MulStep
  <2> QED BY <1>1, <1>2, <2>1
<1>4. CASE a - b < 0
  <2>1. w * (a - b) < 0
    BY <1>1, <1>4
  <2> QED BY <1>1, <1>2, <2>1
<1>5. CASE a - b = 0
  BY <1>1, <1>2, <1>5
<1> QED BY <1>1, <1>3, <1>4, <1>5

\* The grid point at or before x.
LEMMA GridFloor ==
  ASSUME NEW w \in Nat \ {0}, NEW x \in Nat
  PROVE  LET h == x - (x % w)
         IN  h \in Nat /\ h <= x /\ x < h + w /\ h - (h % w) = h
<1> DEFINE q == x \div w
           h == x - (x % w)
<1>1. x % w \in 0..(w - 1) /\ q \in Int /\ x = (w * q) + (x % w)
  BY ModDef
<1>2. h = w * q
  BY <1>1
<1>3. h % w = 0
  BY <1>1, <1>2, ModAt
<1>4. q >= 0
  <2> SUFFICES ASSUME q < 0 PROVE FALSE
    BY <1>1
  <2>1. w * q + w <= w * 0
    BY <1>1, MulStep
  <2> QED BY <1>1, <2>1
<1>5. h \in Nat
  BY <1>1, <1>2, <1>4
<1> QED BY <1>1, <1>3, <1>5

\* Two grid points are at least w apart.
LEMMA GridGap ==
  ASSUME NEW w \in Nat \ {0}, NEW x \in Nat, NEW y \in Nat,
         x - (x % w) = x, y - (y % w) = y, x < y
  PROVE  x + w <= y
<1>1. x % w = 0 /\ y % w = 0
  BY ModDef
<1>2. x \in Int /\ y \in Int
  OBVIOUS
<1> QED BY <1>1, <1>2, ModGrid

\* The next grid point.
LEMMA GridNext ==
  ASSUME NEW w \in Nat \ {0}, NEW x \in Nat, x - (x % w) = x
  PROVE  x + w \in Nat /\ (x + w) - ((x + w) % w) = x + w
<1>1. x % w = 0
  BY ModDef
<1>2. x \div w \in Int /\ x = w * (x \div w)
  BY <1>1, ModDef
<1>3. x + w = w * ((x \div w) + 1)
  BY <1>2
<1>4. (x + w) % w = 0
  <2> DEFINE q == (x \div w) + 1
  <2>1. q \in Int /\ x + w = w * q
    BY <1>2, <1>3
  <2> HIDE DEF q
  <2> QED BY <2>1, ModAt
<1> QED BY <1>4

\* A nonempty set of naturals has a least element.
LEMMA Least ==
  ASSUME NEW S \in SUBSET Nat, S # {}
  PROVE  \E x \in S : \A y \in S : x <= y
<1>1. PICK x \in S : \A y \in S : ~(<<y, x>> \in OpToRel(<, Nat))
  BY NatLessThanWellFounded, WFMin, Zenon
<1>2. \A y \in S : y \in Nat /\ x \in Nat => ~(y < x)
  BY <1>1, Zenon DEF OpToRel
<1> QED BY <1>2

-----------------------------------------------------------------------------
(***************************************************************************)
(* The objects of a day.                                                   *)
(***************************************************************************)
LEMMA MarketFacts ==
  ASSUME NEW m \in Market
  PROVE  /\ m[1] \in Assets /\ m[1] \in Nat /\ m[2] \in Slots /\ m[2] \in Nat
         /\ Windows <= m[2] /\ Hour(m[2]) \in Nat /\ Hour(m[2]) <= Horizon
         /\ m[2] < Hour(m[2]) + Windows /\ Hour(Hour(m[2])) = Hour(m[2])
<1>1. m[1] \in Assets /\ m[2] \in Slots
  BY DEF Market
<1>2. m[1] \in Nat /\ m[2] \in Nat /\ Windows <= m[2] /\ Hour(m[2]) <= Horizon
  BY <1>1, SharedDayAssumption
<1> QED BY <1>1, <1>2, SharedDayAssumption, GridFloor DEF Hour

LEMMA MarketIsFinite == IsFiniteSet(Market)
BY SharedDayAssumption, FS_Product DEF Market

LEMMA HoursFacts ==
  ASSUME NEW o \in Hours
  PROVE  o \in Nat /\ Hour(o) = o /\ o <= Horizon
BY SharedDayAssumption DEF Hours

\* The first object is the hour of a start an hour before all markets start.
LEMMA FirstFacts ==
  ASSUME NEW markets \in SUBSET Market, markets # {}
  PROVE  /\ FirstObject(markets) \in Hours
         /\ \A m \in markets, o \in Hours : Relevant(m, o) => FirstObject(markets) <= o
<1> DEFINE S == {m[2] : m \in markets}
           x == Min(S) - Windows
<1>1. \A m \in markets : m[2] \in Nat /\ Windows <= m[2]
  BY MarketFacts
<1>2. S \in SUBSET Nat /\ S # {}
  BY <1>1
<1>3. \E s \in S : \A t \in S : s <= t
  BY <1>2, Least
<1>4. Min(S) \in S /\ \A t \in S : Min(S) <= t
  BY <1>3 DEF Min
<1>5. PICK m \in markets : Min(S) = m[2]
  BY <1>4
<1>6. Windows \in Nat \ {0} /\ Horizon \in Nat
  BY SharedDayAssumption
<1>7. x \in Nat /\ x <= m[2] /\ \A n \in markets : x <= n[2] - Windows
  <2>1. \A n \in markets : m[2] <= n[2]
    BY <1>4, <1>5
  <2>2. x = m[2] - Windows
    BY <1>5
  <2> QED BY <1>1, <1>6, <2>1, <2>2
<1>8. FirstObject(markets) = Hour(x)
  BY DEF FirstObject
<1> HIDE DEF x
<1>9. Hour(x) \in Nat /\ Hour(x) <= x /\ Hour(Hour(x)) = Hour(x)
  BY <1>6, <1>7, GridFloor DEF Hour
<1>10. Hour(x) <= Horizon
  <2> SUFFICES ASSUME Horizon < Hour(x) PROVE FALSE
    BY <1>6, <1>9
  <2>1. Hour(m[2]) \in Nat /\ Hour(m[2]) <= Horizon /\ m[2] < Hour(m[2]) + Windows
        /\ Hour(Hour(m[2])) = Hour(m[2])
    BY MarketFacts
  <2>2. Hour(m[2]) < Hour(x)
    BY <1>6, <1>9, <2>1
  <2>3. Hour(m[2]) + Windows <= Hour(x)
    BY <1>6, <1>9, <2>1, <2>2, GridGap DEF Hour
  <2> QED BY <1>1, <1>6, <1>7, <1>9, <2>1, <2>3
<1>11. ASSUME NEW n \in markets, NEW o \in Hours, Relevant(n, o) PROVE Hour(x) <= o
  <2> SUFFICES ASSUME o < Hour(x) PROVE FALSE
    BY <1>9, HoursFacts
  <2>1. o \in Nat /\ Hour(o) = o
    BY HoursFacts
  <2>2. o + Windows <= Hour(x)
    BY <1>6, <1>9, <2>1, GridGap DEF Hour
  <2>3. n[2] - Windows < o + Windows
    BY <1>11 DEF Relevant
  <2> QED BY <1>1, <1>6, <1>7, <1>9, <2>1, <2>2, <2>3
<1> QED BY <1>6, <1>8, <1>9, <1>10, <1>11 DEF Hours

\* The last object is the hour of the last start.
LEMMA LastFacts ==
  ASSUME NEW markets \in SUBSET Market, markets # {}
  PROVE  /\ LastObject(markets) \in Hours
         /\ \A m \in markets, o \in Hours : Relevant(m, o) => o <= LastObject(markets)
<1> DEFINE S == {m[2] : m \in markets}
           top == Horizon + Windows
           T == {top - m[2] : m \in markets}
<1>1. Windows \in Nat \ {0} /\ Horizon \in Nat
  BY SharedDayAssumption
<1>2. \A m \in markets : m[2] \in Nat /\ m[2] <= top
  <2> SUFFICES ASSUME NEW m \in markets PROVE m[2] \in Nat /\ m[2] <= top
    OBVIOUS
  <2>1. m[2] \in Nat /\ Hour(m[2]) \in Nat /\ Hour(m[2]) <= Horizon /\ m[2] < Hour(m[2]) + Windows
    BY MarketFacts
  <2> QED BY <1>1, <2>1
<1>3. T \in SUBSET Nat /\ T # {}
  BY <1>1, <1>2
<1>4. \E x \in T : \A y \in T : x <= y
  BY <1>3, Least
<1>5. \E m \in markets : \A n \in markets : top - m[2] <= top - n[2]
  BY <1>4
<1>6. \E m \in markets : \A n \in markets : m[2] >= n[2]
  BY <1>1, <1>2, <1>5
<1>7. \E x \in S : \A y \in S : x >= y
  BY <1>6
<1>8. Max(S) \in S /\ \A y \in S : Max(S) >= y
  BY <1>7 DEF Max
<1>9. PICK m \in markets : Max(S) = m[2]
  BY <1>8
<1>10. LastObject(markets) = Hour(m[2]) /\ \A n \in markets : n[2] <= m[2]
  BY <1>8, <1>9 DEF LastObject
<1>11. m[2] \in Nat /\ Hour(m[2]) \in Nat /\ Hour(m[2]) <= Horizon
       /\ m[2] < Hour(m[2]) + Windows /\ Hour(Hour(m[2])) = Hour(m[2])
  BY MarketFacts
<1>12. ASSUME NEW n \in markets, NEW o \in Hours, Relevant(n, o) PROVE o <= Hour(m[2])
  <2> SUFFICES ASSUME Hour(m[2]) < o PROVE FALSE
    BY <1>11, HoursFacts
  <2>1. o \in Nat /\ Hour(o) = o
    BY HoursFacts
  <2>2. Hour(m[2]) + Windows <= o
    BY <1>1, <1>11, <2>1, GridGap DEF Hour
  <2>3. n[2] + 1 > o /\ n[2] <= m[2] /\ n[2] \in Nat
    BY <1>2, <1>10, <1>12 DEF Relevant
  <2> QED BY <1>1, <1>11, <2>1, <2>2, <2>3
<1> QED BY <1>1, <1>10, <1>11, <1>12 DEF Hours

LEMMA NextObject ==
  ASSUME NEW o \in Nat, Hour(o) = o
  PROVE  /\ o + Windows \in Nat /\ Hour(o + Windows) = o + Windows
         /\ \A h \in Hours : h < o + Windows => h < o \/ h = o
<1>1. Windows \in Nat \ {0}
  BY SharedDayAssumption
<1>2. o + Windows \in Nat /\ Hour(o + Windows) = o + Windows
  BY <1>1, GridNext DEF Hour
<1>3. ASSUME NEW h \in Hours, h < o + Windows, ~(h < o), h # o PROVE FALSE
  <2>1. h \in Nat /\ Hour(h) = h /\ o < h
    BY <1>3, HoursFacts
  <2>2. o + Windows <= h
    BY <1>1, <2>1, GridGap DEF Hour
  <2> QED BY <1>1, <1>3, <2>1, <2>2
<1> QED BY <1>2, <1>3

-----------------------------------------------------------------------------
(***************************************************************************)
(* The rows of an object.                                                  *)
(***************************************************************************)
LEMMA RowsFacts ==
  ASSUME NEW markets \in SUBSET Market, NEW o \in Hours, NEW v \in Versions
  PROVE  /\ Rows(o, v, markets) \subseteq Row
         /\ \A r \in Rows(o, v, markets) : r[1] \in markets /\ r[2] = o /\ Relevant(r[1], o)
         /\ IsFiniteSet(Rows(o, v, markets))
<1>1. RowCount[v] \in Nat
  BY SharedDayAssumption
<1> DEFINE of(m) == {<<m, o, k, v>> : k \in 1..RowCount[v]}
           some == {m \in markets : Relevant(m, o)}
<1>2. Rows(o, v, markets) = UNION {of(m) : m \in some}
  BY DEF Rows
<1>3. ASSUME NEW m \in some, NEW r \in of(m)
      PROVE  r \in Row /\ r[1] \in markets /\ r[2] = o /\ Relevant(r[1], o)
  BY <1>1 DEF Row
<1> DEFINE pairs == Market \X (1..RowCount[v])
           f == [p \in pairs |-> <<p[1], o, p[2], v>>]
           image == {f[p] : p \in pairs}
<1>4. IsFiniteSet(pairs)
  <2>1. IsFiniteSet(1..RowCount[v])
    BY <1>1, FS_Interval
  <2> QED BY <2>1, MarketIsFinite, FS_Product
<1>5. f \in Surjection(pairs, image)
  BY DEF Surjection
<1>6. IsFiniteSet(image)
  BY <1>4, <1>5, FS_Surjection
<1>7. Rows(o, v, markets) \in SUBSET image
  <2>1. ASSUME NEW m \in some, NEW k \in 1..RowCount[v] PROVE <<m, o, k, v>> \in image
    <3>1. <<m, k>> \in pairs /\ f[<<m, k>>] = <<m, o, k, v>>
      OBVIOUS
    <3> QED BY <3>1
  <2> HIDE DEF image, some
  <2> QED BY <1>2, <2>1
<1>8. IsFiniteSet(Rows(o, v, markets))
  BY <1>6, <1>7, FS_Subset
<1> HIDE DEF of, some
<1> QED BY <1>2, <1>3, <1>8

\* An object holds of a market what it holds of it alone.
LEMMA RowsOfOne ==
  ASSUME NEW markets \in SUBSET Market, NEW m \in Market, NEW o \in Hours, NEW v \in Versions
  PROVE  /\ RowsOf(m, Rows(o, v, markets)) = IF m \in markets THEN Rows(o, v, {m}) ELSE {}
         /\ ~Relevant(m, o) => Rows(o, v, {m}) = {}
BY DEF RowsOf, Rows

LEMMA FiniteRows ==
  ASSUME NEW R, IsFiniteSet(R), NEW m
  PROVE  IsFiniteSet(RowsOf(m, R)) /\ Cardinality(RowsOf(m, R)) \in Nat
<1>1. RowsOf(m, R) \in SUBSET R
  BY DEF RowsOf
<1> QED BY <1>1, FS_Subset, FS_CardinalityType

LEMMA KeptIsFinite == IsFiniteSet(spool) => IsFiniteSet(Kept)
BY FS_Subset DEF Kept

-----------------------------------------------------------------------------
(***************************************************************************)
(* The invariant.                                                          *)
(***************************************************************************)
Running == pc \in {"source", "scan", "build", "clean"}
Busy    == pc \in {"source", "scan"}

\* The spool has rows of markets only that Gamma knows and will not be forgotten.
CacheInv ==
  /\ \A m \in Market : ~(<<m, TRUE>> \in cache /\ <<m, FALSE>> \in cache)
  /\ \A m \in Market : <<m, TRUE>> \in cache => m \in gamma
  /\ \A r \in spool : r[1] \in gamma /\ <<r[1], FALSE>> \notin cache

\* The inventory of a run is that of the kept payloads, but for what is published.
FoundInv ==
  /\ Running =>
       /\ \A m \in found : m \in gamma /\ <<m, FALSE>> \notin cache
       /\ \A m \in Market : m[1] \notin Published =>
            m \in AskedFor /\ (m \in found <=> <<m, TRUE>> \in cache)
  /\ pc = "clean" => todo \subseteq Published

\* The objects before the current one are recorded or gaps.
Handled(o) == o \in Recorded \cup gaps

PlaceInv ==
  /\ Busy => /\ found # {} /\ Hour(object) = object
             /\ \A o \in Hours : FirstObject(found) <= o /\ o < object => Handled(o)
  /\ pc = "scan" => object <= LastObject(found) /\ object \notin Recorded
  /\ pc \in {"build", "clean"} /\ found # {} =>
       \A o \in Hours : FirstObject(found) <= o /\ o <= LastObject(found) => Handled(o)

RowsIn(m, o) == {r \in spool : r[1] = m /\ r[2] = o}

\* The spool holds the recorded objects, and the current one for the assets done.
SpoolInv ==
  /\ pc = "source" \/ (pc \in {"build", "clean"} /\ found # {}) =>
       \A r \in spool : r[2] \in Recorded
  /\ pc = "scan" =>
       /\ \A r \in spool : r[2] \in Recorded \cup {object}
       /\ \A m \in Market : RowsIn(m, object) =
            IF m \in found /\ m[1] \notin todo THEN Rows(object, version, {m}) ELSE {}
  /\ Busy => \A r \in spool : r[1] \in found

\* A recorded object has all rows of every market still to be published.
RecordInv ==
  \A c \in completed, m \in Market : m[1] \notin Published =>
    /\ m \in AskedFor
    /\ RowsIn(m, c[1]) = IF <<m, TRUE>> \in cache THEN Rows(c[1], c[2], {m}) ELSE {}

\* The bounds hold of what the next start counts.
TotalOf(R) == [m \in Market |-> Cardinality(RowsOf(m, R))]

CapInv ==
  /\ ~Exceeds(TotalOf(Kept), Market)
  /\ Busy => ~Exceeds(TotalOf(spool), Market)

SharedInv ==
  /\ TypeOK /\ IsFiniteSet(spool)
  /\ CacheInv /\ FoundInv /\ PlaceInv /\ SpoolInv /\ RecordInv /\ CapInv
  /\ CountsAreOfTheSpool /\ ProvenanceIsExact /\ LeftoversAreHarmless

-----------------------------------------------------------------------------
LEMMA InitShared == Init => SharedInv
<1> SUFFICES ASSUME Init PROVE SharedInv
  OBVIOUS
<1> USE DEF Init
<1>1. gamma \subseteq Market /\ expected \subseteq Market
  BY SharedDayAssumption
<1>2. TypeOK
  BY <1>1, SharedDayAssumption DEF TypeOK, None
<1>3. IsFiniteSet(spool)
  BY FS_EmptySet
<1>4. CacheInv /\ FoundInv /\ PlaceInv /\ SpoolInv /\ RecordInv
  BY DEF CacheInv, FoundInv, PlaceInv, SpoolInv, RecordInv, Running, Busy
<1> HIDE DEF Init
<1>5. ~Exceeds(TotalOf(Kept), Market)
  <2>0. spool = {}
    BY DEF Init
  <2>1. Kept = {} /\ \A m \in Market : RowsOf(m, Kept) = {}
    BY <2>0 DEF Kept, RowsOf
  <2>2. \A m \in Market : TotalOf(Kept)[m] = 0
    BY <2>1, FS_EmptySet DEF TotalOf
  <2>3. ASSUME NEW a \in Assets PROVE Sum(TotalOf(Kept), {m \in Market : m[1] = a}) = 0
    <3>1. UNION {{m} \X (1..TotalOf(Kept)[m]) : m \in {m \in Market : m[1] = a}} = {}
      BY <2>2
    <3> QED BY <3>1, FS_EmptySet DEF Sum
  <2>4. 0 <= MarketCap /\ 0 <= AssetCap /\ ~(0 > MarketCap) /\ ~(0 > AssetCap)
    BY SharedDayAssumption
  <2> HIDE DEF TotalOf
  <2> QED BY <2>2, <2>3, <2>4 DEF Exceeds
<1>6. CapInv /\ CountsAreOfTheSpool /\ ProvenanceIsExact /\ LeftoversAreHarmless
  BY <1>5, FS_EmptySet DEF Init, RowsOf, CapInv, CountsAreOfTheSpool, ProvenanceIsExact, LeftoversAreHarmless, Busy, None
<1> QED BY <1>2, <1>3, <1>4, <1>6 DEF SharedInv

\* Gamma knows the market or not.
LEMMA AskAnswers ==
  ASSUME NEW m \in Market, Ask(m)
  PROVE  \/ m \in gamma /\ cache' = cache \cup {<<m, TRUE>>}
         \/ m \notin gamma /\ cache' = cache \cup {<<m, FALSE>>}
<1>1. CASE m \in gamma
  <2>1. (m \in gamma) = TRUE
    BY <1>1
  <2>2. cache' = cache \cup {<<m, m \in gamma>>}
    BY DEF Ask
  <2> QED BY <1>1, <2>1, <2>2
<1>2. CASE m \notin gamma
  <2>1. (m \in gamma) = FALSE
    BY <1>2
  <2>2. cache' = cache \cup {<<m, m \in gamma>>}
    BY DEF Ask
  <2> QED BY <1>2, <2>1, <2>2
<1> QED BY <1>1, <1>2

LEMMA ObjectIsHour ==
  ASSUME TypeOK, PlaceInv, Busy, object <= LastObject(found)
  PROVE  object \in Hours
<1>1. object \in Nat /\ Hour(object) = object /\ found # {} /\ found \in SUBSET Market
  BY DEF TypeOK, PlaceInv
<1>2. LastObject(found) \in Hours
  BY <1>1, LastFacts
<1>3. LastObject(found) \in Nat /\ LastObject(found) <= Horizon
  BY <1>2, HoursFacts
<1> QED BY <1>1, <1>3, SharedDayAssumption DEF Hours

LEMMA Types ==
  ASSUME TypeOK, IsFiniteSet(spool), PlaceInv, Next
  PROVE  TypeOK'
<1> USE SharedDayAssumption DEF worldVars, stateVars, durable, memoryVars, Fail, None
<1>1. ASSUME NEW o \in Hours, NEW v \in Versions, Change(o, v) PROVE TypeOK'
  BY <1>1 DEF Change, TypeOK
<1>2. ASSUME NEW m \in Market, Resolve(m) PROVE TypeOK'
  BY <1>2 DEF Resolve, TypeOK
<1>3. CASE Begin
  BY <1>3 DEF Begin, TypeOK
<1>4. ASSUME NEW m \in Market, Ask(m) PROVE TypeOK'
  <2>1. cache' \subseteq Market \X BOOLEAN
    <3>1. cache' = cache \cup {<<m, TRUE>>} \/ cache' = cache \cup {<<m, FALSE>>}
      BY <1>4, AskAnswers
    <3>2. cache \subseteq Market \X BOOLEAN
      BY DEF TypeOK
    <3>3. <<m, TRUE>> \in Market \X BOOLEAN /\ <<m, FALSE>> \in Market \X BOOLEAN
      OBVIOUS
    <3> QED BY <3>1, <3>2, <3>3
  <2> QED BY <1>4, <2>1 DEF Ask, TypeOK
<1>5. CASE Restore
  <2> DEFINE markets == {m \in Market : <<m, TRUE>> \in cache}
  <2>1. spool' \subseteq Row
    BY <1>5 DEF Restore, TypeOK, Kept
  <2>2. counts' \in [Market -> Nat]
    <3>1. \A m \in Market : Cardinality(RowsOf(m, Kept)) \in Nat
      BY FiniteRows, KeptIsFinite
    <3> QED BY <1>5, <3>1 DEF Restore, TypeOK
  <2>3. object' \in Nat
    BY <1>5, FirstFacts, HoursFacts DEF Restore, TypeOK
  <2>4. pc' \in {"source", "build", "failed"} /\ found' \subseteq Market
        /\ reason' \in {None, "authority", "inventory", "resumed", "source", "cap", "conflict",
                 "irrelevant"}
    BY <1>5 DEF Restore, Refusal, TypeOK
  <2>5. UNCHANGED <<upstream, gamma, changes, qualified, expected, cache, completed, bytes, gaps,
                    ledger, runs, version, todo>>
    BY <1>5 DEF Restore
  <2> QED BY <2>1, <2>2, <2>3, <2>4, <2>5 DEF TypeOK
<1>6. CASE Skip
  BY <1>6 DEF Skip, TypeOK
<1>7. CASE RecordGap
  BY <1>7 DEF RecordGap, TypeOK
<1>8. CASE Acquire
  <2>1. object \in Hours
    BY <1>8, ObjectIsHour DEF Acquire, Busy
  <2> QED BY <1>8, <2>1 DEF Acquire, TypeOK
<1>9. ASSUME NEW a \in Assets, Append(a) PROVE TypeOK'
  <2> DEFINE rows == Rows(object, version, Concerned(a, object))
  <2>1. object \in Hours /\ version \in Versions /\ Concerned(a, object) \in SUBSET Market
    BY <1>9, ObjectIsHour DEF Append, Busy, PlaceInv, TypeOK, Concerned
  <2>2. rows \subseteq Row /\ IsFiniteSet(rows)
    BY <2>1, RowsFacts
  <2>3. /\ spool' = spool \/ spool' = spool \cup rows
        /\ todo' \subseteq todo
        /\ pc' \in {pc, "failed"} /\ reason' \in {reason, "cap", "conflict"}
        /\ counts' = counts \/ counts' = [m \in Market |-> counts[m] + Cardinality(RowsOf(m, rows))]
        /\ UNCHANGED <<worldVars, cache, stateVars, ledger, runs, found, object, version>>
    BY <1>9 DEF Append, Commit
  <2> HIDE DEF rows
  <2>4. \A m \in Market : Cardinality(RowsOf(m, rows)) \in Nat
    BY <2>2, FiniteRows
  <2>5. spool' \subseteq Row /\ counts' \in [Market -> Nat]
    BY <2>2, <2>3, <2>4 DEF TypeOK
  <2> QED BY <2>3, <2>5 DEF TypeOK
<1>10. CASE Complete
  <2>1. object \in Hours
    BY <1>10, ObjectIsHour DEF Complete, Busy, PlaceInv
  <2>2. Size[version] \in Nat /\ object + Windows \in Nat
    BY <2>1, HoursFacts DEF TypeOK
  <2>3. completed' \subseteq Hours \X Versions /\ bytes' \in Nat /\ object' \in Nat
    BY <1>10, <2>1, <2>2 DEF Complete, TypeOK
  <2> QED BY <1>10, <2>3 DEF Complete, TypeOK
<1>11. CASE Prepared
  BY <1>11 DEF Prepared, TypeOK
<1>12. ASSUME NEW a \in Assets, Publish(a) PROVE TypeOK'
  <2>1. ledger' \subseteq [asset : Assets, markets : SUBSET Market, rows : SUBSET Row,
                           sources : SUBSET (Hours \X Versions), gaps : SUBSET Gaps]
    <3> DEFINE new == [asset   |-> a,
                       markets |-> {m \in found : m[1] = a},
                       rows    |-> Loaded({m \in found : m[1] = a}),
                       sources |-> IF found = {} THEN {} ELSE completed,
                       gaps    |-> IF found = {} THEN {} ELSE gaps]
    <3>1. Loaded({m \in found : m[1] = a}) \subseteq spool
      BY DEF Loaded, RowsOf
    <3>2. new \in [asset : Assets, markets : SUBSET Market, rows : SUBSET Row,
                   sources : SUBSET (Hours \X Versions), gaps : SUBSET Gaps]
      BY <3>1 DEF TypeOK
    <3>3. ledger' = ledger \cup {new}
      BY <1>12 DEF Publish
    <3> HIDE DEF new
    <3> QED BY <3>2, <3>3 DEF TypeOK
  <2> QED BY <1>12, <2>1 DEF Publish, TypeOK
<1>13. CASE Clean
  BY <1>13 DEF Clean, TypeOK
<1>14. CASE End
  BY <1>14 DEF End, TypeOK
<1>15. CASE Kill
  BY <1>15 DEF Kill, TypeOK
<1> QED BY <1>1, <1>2, <1>3, <1>4, <1>5, <1>6, <1>7, <1>8, <1>9, <1>10, <1>11, <1>12, <1>13,
           <1>14, <1>15 DEF Next, Step, World

\* The payloads.  Those of published assets may be asked for again; whoever is
\* resolved stays so.
LEMMA Caches ==
  ASSUME TypeOK, CacheInv, FoundInv, PlaceInv, Next
  PROVE  CacheInv'
<1> USE DEF worldVars, stateVars, durable, memoryVars
<1>1. ASSUME NEW m \in Market, Ask(m) PROVE CacheInv'
  <2>1. \A n \in Market : <<m, TRUE>> \notin cache /\ <<m, FALSE>> \notin cache
    BY <1>1 DEF Ask, AskedFor
  <2>2. UNCHANGED <<gamma, spool>>
    BY <1>1 DEF Ask
  <2>3. \/ m \in gamma /\ cache' = cache \cup {<<m, TRUE>>}
        \/ m \notin gamma /\ cache' = cache \cup {<<m, FALSE>>}
    BY <1>1, AskAnswers
  <2>4. <<m, TRUE>> # <<m, FALSE>>
    OBVIOUS
  <2>5. CASE m \in gamma /\ cache' = cache \cup {<<m, TRUE>>}
    BY <2>1, <2>2, <2>5 DEF CacheInv
  <2>6. CASE m \notin gamma /\ cache' = cache \cup {<<m, FALSE>>}
    BY <2>1, <2>2, <2>6 DEF CacheInv
  <2> QED BY <2>3, <2>5, <2>6
<1>2. ASSUME NEW a \in Assets, Append(a) PROVE CacheInv'
  <2> DEFINE rows == Rows(object, version, Concerned(a, object))
  <2>1. object \in Hours /\ version \in Versions /\ Concerned(a, object) \in SUBSET Market
    BY <1>2, ObjectIsHour DEF Append, Busy, PlaceInv, TypeOK, Concerned
  <2>2. \A r \in rows : r[1] \in found
    BY <2>1, RowsFacts DEF Concerned
  <2>3. (spool' = spool \/ spool' = spool \cup rows) /\ UNCHANGED <<cache, gamma>>
    BY <1>2 DEF Append, Commit, Fail
  <2> HIDE DEF rows
  <2> QED BY <1>2, <2>2, <2>3 DEF Append, CacheInv, FoundInv, Running
<1>3. CASE Restore
  BY <1>3 DEF Restore, Kept, CacheInv
<1>4. CASE Clean
  BY <1>4 DEF Clean, CacheInv
<1>5. ASSUME NEW m \in Market, Resolve(m) PROVE CacheInv'
  BY <1>5 DEF Resolve, CacheInv
<1>6. CASE UNCHANGED <<cache, gamma, spool>>
  BY <1>6 DEF CacheInv
<1>7. CASE \/ Begin \/ Skip \/ RecordGap \/ Acquire \/ Complete \/ Prepared \/ End \/ Kill
           \/ (\E a \in Assets : Publish(a)) \/ \E o \in Hours, v \in Versions : Change(o, v)
  BY <1>6, <1>7 DEF Begin, Skip, RecordGap, Acquire, Complete, Prepared, End, Kill, Publish, Change
<1> QED BY <1>1, <1>2, <1>3, <1>4, <1>5, <1>7 DEF Next, Step, World

LEMMA PublishAdds ==
  ASSUME NEW a \in Assets, Publish(a)
  PROVE  Published' = Published \cup {a}
<1> DEFINE new == [asset   |-> a,
                   markets |-> {m \in found : m[1] = a},
                   rows    |-> Loaded({m \in found : m[1] = a}),
                   sources |-> IF found = {} THEN {} ELSE completed,
                   gaps    |-> IF found = {} THEN {} ELSE gaps]
<1>1. ledger' = ledger \cup {new}
  BY DEF Publish
<1>2. new.asset = a
  OBVIOUS
<1> HIDE DEF new
<1> QED BY <1>1, <1>2 DEF Published

\* The inventory.
LEMMA Inventories ==
  ASSUME TypeOK, CacheInv, FoundInv, Next
  PROVE  FoundInv'
<1> USE DEF worldVars, stateVars, durable, memoryVars
<1>1. CASE \/ Begin \/ (\E m \in Market : Ask(m)) \/ End \/ Kill
  <2>1. pc' \in {"discover", "done", "idle"}
    BY <1>1 DEF Begin, Ask, End, Kill
  <2> QED BY <2>1 DEF FoundInv, Running
<1>2. CASE Restore
  <2>1. /\ found' = {m \in Market : <<m, TRUE>> \in cache}
        /\ AskedFor = Market
        /\ UNCHANGED <<cache, gamma, ledger>> /\ pc' # "clean"
    BY <1>2 DEF Restore, Fail
  <2>2. \A m \in found' : m \in gamma /\ <<m, FALSE>> \notin cache
    BY <2>1 DEF CacheInv
  <2>3. Published' = Published /\ AskedFor' = AskedFor
    BY <2>1 DEF Published, AskedFor
  <2> QED BY <2>1, <2>2, <2>3 DEF FoundInv
<1>3. CASE \/ Skip \/ RecordGap \/ Acquire \/ Complete \/ Prepared \/ (\E a \in Assets : Append(a))
           \/ \E o \in Hours, v \in Versions : Change(o, v)
  <2>1. UNCHANGED <<found, cache, gamma, ledger>> /\ (pc' = pc \/ pc' # "clean")
        /\ (pc' = "clean" => todo' = todo)
    BY <1>3 DEF Skip, RecordGap, Acquire, Complete, Prepared, Append, Commit, Change, Fail
  <2>2. Running' => Running
    BY <1>3 DEF Skip, RecordGap, Acquire, Complete, Prepared, Append, Commit, Change, Fail, Running
  <2>3. Published' = Published /\ AskedFor' = AskedFor
    BY <2>1 DEF Published, AskedFor
  <2> QED BY <2>1, <2>2, <2>3 DEF FoundInv
<1>4. ASSUME NEW m \in Market, Resolve(m) PROVE FoundInv'
  BY <1>4 DEF Resolve, FoundInv, Running, Published, AskedFor
<1>5. ASSUME NEW a \in Assets, Publish(a) PROVE FoundInv'
  <2>1. UNCHANGED <<found, cache, gamma>> /\ todo' = {a} /\ Running
    BY <1>5 DEF Publish, Running
  <2>2. Published' = Published \cup {a} /\ AskedFor' = AskedFor
    BY <1>5, <2>1, PublishAdds DEF AskedFor
  <2> QED BY <2>1, <2>2 DEF FoundInv
<1>6. CASE Clean
  <2>1. UNCHANGED <<found, gamma, ledger>> /\ todo \subseteq Published /\ Running
    BY <1>6 DEF Clean, FoundInv, Running
  <2>2. todo' \subseteq todo
    BY <1>6 DEF Clean
  <2>3. cache' \subseteq cache /\ \A c \in cache \ cache' : c[1][1] \in Published
    BY <1>6, <2>1 DEF Clean
  <2>4. Published' = Published
    BY <2>1 DEF Published
  <2>5. \A m \in Market : m[1] \notin Published /\ m \in AskedFor => m \in AskedFor'
    BY <2>3 DEF AskedFor
  <2>6. \A m \in Market : m[1] \notin Published => (<<m, TRUE>> \in cache <=> <<m, TRUE>> \in cache')
    BY <2>3
  <2> QED BY <2>1, <2>2, <2>3, <2>4, <2>5, <2>6 DEF FoundInv
<1> QED BY <1>1, <1>2, <1>3, <1>4, <1>5, <1>6 DEF Next, Step, World

LEMMA CompleteAdds ==
  ASSUME Complete
  PROVE  \/ /\ pc' = "source" /\ completed' = completed \cup {<<object, version>>}
            /\ Recorded' = Recorded \cup {object}
         \/ pc' = "failed" /\ completed' = completed /\ Recorded' = Recorded
<1>1. CASE completed' = completed \cup {<<object, version>>} /\ pc' = "source"
  <2> DEFINE c == <<object, version>>
  <2>1. c[1] = object /\ completed' = completed \cup {c}
    BY <1>1
  <2> HIDE DEF c
  <2>2. Recorded' = Recorded \cup {object}
    BY <2>1 DEF Recorded
  <2> QED BY <1>1, <2>2
<1>2. CASE completed' = completed /\ pc' = "failed"
  BY <1>2 DEF Recorded
<1> QED BY <1>1, <1>2 DEF Complete, Fail

\* Which objects are done with.
LEMMA Places ==
  ASSUME TypeOK, PlaceInv, Next
  PROVE  PlaceInv'
<1> USE DEF worldVars, stateVars, durable, memoryVars, Busy
<1>1. CASE \/ Begin \/ (\E m \in Market : Ask(m)) \/ End \/ Kill
  <2>1. pc' \in {"discover", "done", "idle"}
    BY <1>1 DEF Begin, Ask, End, Kill
  <2> QED BY <2>1 DEF PlaceInv
<1>2. CASE Restore
  <2> DEFINE markets == {m \in Market : <<m, TRUE>> \in cache}
  <2>1. found' = markets /\ pc' \in {"failed", "build", "source"}
        /\ (pc' = "build" => markets = {})
        /\ (pc' = "source" => markets # {} /\ object' = FirstObject(markets))
    BY <1>2 DEF Restore, Fail
  <2>2. CASE pc' = "source"
    <3>1. FirstObject(markets) \in Hours
      BY <2>1, <2>2, FirstFacts
    <3>2. Hour(object') = object' /\ object' \in Nat
      BY <2>1, <2>2, <3>1, HoursFacts
    <3>3. \A o \in Hours : ~(FirstObject(found') <= o /\ o < object')
      BY <2>1, <2>2, <3>2, HoursFacts
    <3> QED BY <2>1, <2>2, <3>2, <3>3 DEF PlaceInv
  <2>3. CASE pc' # "source"
    BY <2>1, <2>3 DEF PlaceInv
  <2> QED BY <2>2, <2>3
<1>3. CASE Skip \/ RecordGap
  <2>1. /\ pc = "source" /\ pc' = "source" /\ found' = found /\ object' = object + Windows
        /\ Recorded' = Recorded /\ gaps \subseteq gaps' /\ object \in Recorded \cup gaps'
    BY <1>3 DEF Skip, RecordGap, Recorded
  <2>2. object \in Nat /\ Hour(object) = object /\ found # {}
    BY <2>1 DEF PlaceInv, TypeOK
  <2> QED BY <2>1, <2>2, NextObject DEF PlaceInv, Handled
<1>4. CASE Acquire
  <2>1. UNCHANGED <<found, object, Recorded, gaps>> /\ pc = "source" /\ pc' \in {"scan", "failed"}
        /\ object <= LastObject(found) /\ object \notin Recorded
    BY <1>4 DEF Acquire, Fail, Recorded
  <2> QED BY <2>1 DEF PlaceInv, Handled
<1>5. ASSUME NEW a \in Assets, Append(a) PROVE PlaceInv'
  <2>1. UNCHANGED <<found, object, Recorded, gaps>> /\ pc = "scan" /\ pc' \in {"scan", "failed"}
    BY <1>5 DEF Append, Commit, Fail, Recorded
  <2> QED BY <2>1 DEF PlaceInv, Handled
<1>6. CASE Complete
  <2>1. /\ pc = "scan" /\ pc' \in {"source", "failed"} /\ UNCHANGED <<found, gaps>>
        /\ pc' = "source" => object' = object + Windows /\ Recorded' = Recorded \cup {object}
    BY <1>6, CompleteAdds DEF Complete, Fail
  <2>2. object \in Nat /\ Hour(object) = object /\ found # {}
    BY <2>1 DEF PlaceInv, TypeOK
  <2> QED BY <2>1, <2>2, NextObject DEF PlaceInv, Handled
<1>7. CASE Prepared
  <2>1. UNCHANGED <<found, object, Recorded, gaps>> /\ pc = "source" /\ pc' = "build"
        /\ object > LastObject(found)
    BY <1>7 DEF Prepared, Recorded
  <2>2. object \in Nat /\ found # {} /\ found \in SUBSET Market
    BY <2>1 DEF PlaceInv, TypeOK
  <2>3. LastObject(found) \in Nat
    BY <2>2, LastFacts, HoursFacts
  <2>4. \A o \in Hours : o \in Nat /\ (o <= LastObject(found) => o < object)
    BY <2>1, <2>2, <2>3, HoursFacts
  <2> QED BY <2>1, <2>4 DEF PlaceInv, Handled
<1>8. CASE (\E a \in Assets : Publish(a)) \/ Clean
  <2>1. UNCHANGED <<found, Recorded, gaps>> /\ pc \in {"build", "clean"} /\ pc' \in {"build", "clean"}
    BY <1>8 DEF Publish, Clean, Recorded
  <2> QED BY <2>1 DEF PlaceInv, Handled
<1>9. CASE World
  <2>1. UNCHANGED <<pc, found, object, Recorded, gaps>>
    BY <1>9 DEF World, Change, Resolve, Recorded
  <2> QED BY <2>1 DEF PlaceInv, Handled
<1> QED BY <1>1, <1>2, <1>3, <1>4, <1>5, <1>6, <1>7, <1>8, <1>9 DEF Next, Step

-----------------------------------------------------------------------------
(***************************************************************************)
(* The spool.                                                              *)
(***************************************************************************)
Scanned(a) == Rows(object, version, Concerned(a, object))

\* What a transaction adds: the rows of one asset in the current object.
LEMMA AppendFacts ==
  ASSUME TypeOK, PlaceInv, NEW a \in Assets, Append(a)
  PROVE  /\ \/ pc' = "scan" /\ spool' = spool \cup Scanned(a) /\ todo' = todo \ {a}
               /\ reason' = reason
            \/ pc' = "failed" /\ spool' = spool
         /\ pc = "scan" /\ a \in todo
         /\ IsFiniteSet(Scanned(a))
         /\ \A r \in Scanned(a) : r[1] \in found /\ r[1][1] = a /\ r[2] = object
         /\ \A m \in Market : RowsOf(m, Scanned(a)) =
              IF m \in found /\ m[1] = a THEN Rows(object, version, {m}) ELSE {}
         /\ UNCHANGED <<gamma, cache, completed, gaps, ledger, found, object, version>>
<1>1. object \in Hours /\ version \in Versions /\ Concerned(a, object) \in SUBSET Market
  BY ObjectIsHour DEF Append, Busy, PlaceInv, TypeOK, Concerned
<1>2. IsFiniteSet(Scanned(a)) /\ \A r \in Scanned(a) : r[1] \in Concerned(a, object) /\ r[2] = object
  BY <1>1, RowsFacts DEF Scanned
<1>3. ASSUME NEW m \in Market
      PROVE  RowsOf(m, Scanned(a)) =
               IF m \in found /\ m[1] = a THEN Rows(object, version, {m}) ELSE {}
  <2>1. RowsOf(m, Scanned(a)) = IF m \in Concerned(a, object) THEN Rows(object, version, {m}) ELSE {}
    BY <1>1, RowsOfOne DEF Scanned
  <2>2. ~Relevant(m, object) => Rows(object, version, {m}) = {}
    BY <1>1, RowsOfOne
  <2> QED BY <2>1, <2>2 DEF Concerned
<1>4. \A r \in Scanned(a) : r[1] \in found /\ r[1][1] = a
  BY <1>2 DEF Concerned
<1>5. \/ pc' = "scan" /\ spool' = spool \cup Scanned(a) /\ todo' = todo \ {a} /\ reason' = reason
      \/ pc' = "failed" /\ spool' = spool
  BY DEF Append, Commit, Fail, Scanned
<1>6. pc = "scan" /\ a \in todo /\ UNCHANGED <<gamma, cache, completed, gaps, ledger, found, object, version>>
  BY DEF Append, worldVars, stateVars
<1> QED BY <1>2, <1>3, <1>4, <1>5, <1>6

LEMMA RestoreFacts ==
  ASSUME Restore
  PROVE  /\ spool' = spool \/ spool' = Kept
         /\ found' = {m \in Market : <<m, TRUE>> \in cache} /\ AskedFor = Market
         /\ \/ pc' = "failed"
            \/ pc' = "build" /\ found' = {}
            \/ /\ pc' = "source" /\ spool' = Kept /\ found' # {}
               /\ Refusal(found') = None
               /\ \A m \in Market : counts'[m] = Cardinality(RowsOf(m, Kept))
         /\ UNCHANGED <<gamma, cache, completed, gaps, ledger, version>>
<1> DEFINE markets == {m \in Market : <<m, TRUE>> \in cache}
<1>1. found' = markets /\ AskedFor = Market
      /\ UNCHANGED <<gamma, cache, completed, gaps, ledger, version>>
  BY DEF Restore, worldVars, stateVars
<1>2. \/ pc' = "failed" /\ (spool' = spool \/ spool' = Kept)
      \/ pc' = "build" /\ markets = {} /\ spool' = spool
      \/ /\ pc' = "source" /\ spool' = Kept /\ markets # {} /\ Refusal(markets) = None
         /\ counts' = [m \in Market |-> Cardinality(RowsOf(m, Kept))]
  <2> HIDE DEF markets
  <2>1. \/ pc' = "failed" /\ (spool' = spool \/ spool' = Kept)
        \/ pc' = "build" /\ markets = {} /\ spool' = spool
        \/ /\ pc' = "source" /\ spool' = Kept /\ markets # {} /\ Refusal(markets) = None
           /\ counts' = [m \in Market |-> Cardinality(RowsOf(m, Kept))]
    BY DEF Restore, Fail, markets
  <2> QED BY <2>1
<1> QED BY <1>1, <1>2

LEMMA Spools ==
  ASSUME SharedInv, Next
  PROVE  IsFiniteSet(spool)' /\ SpoolInv'
<1> USE DEF SharedInv, worldVars, stateVars, durable, memoryVars, Busy
<1>1. CASE \/ Begin \/ (\E m \in Market : Ask(m)) \/ End \/ Kill
  <2>1. pc' \in {"discover", "done", "idle"} /\ spool' = spool
    BY <1>1 DEF Begin, Ask, End, Kill
  <2> QED BY <2>1 DEF SpoolInv
<1>2. CASE Restore
  <2>1. IsFiniteSet(spool')
    BY <1>2, RestoreFacts, KeptIsFinite
  <2>2. CASE pc' = "source"
    <3>1. spool' = Kept /\ Refusal(found') = None /\ Recorded' = Recorded
      BY <1>2, <2>2, RestoreFacts DEF Recorded
    <3>2. \A r \in spool' : r[1] \in found'
      BY <3>1 DEF Refusal, None
    <3>3. \A r \in spool' : r[2] \in Recorded'
      BY <3>1 DEF Kept
    <3> QED BY <2>1, <2>2, <3>2, <3>3 DEF SpoolInv
  <2>3. CASE pc' # "source"
    BY <1>2, <2>1, <2>3, RestoreFacts DEF SpoolInv
  <2> QED BY <2>2, <2>3
<1>3. CASE Skip \/ RecordGap \/ Prepared
  <2>1. UNCHANGED <<spool, found, Recorded>> /\ pc = "source" /\ pc' \in {"source", "build"}
    BY <1>3 DEF Skip, RecordGap, Prepared, Recorded
  <2> QED BY <2>1 DEF SpoolInv
<1>4. CASE Acquire
  <2>1. UNCHANGED <<spool, found, object, Recorded>> /\ pc = "source" /\ pc' \in {"scan", "failed"}
        /\ object \notin Recorded /\ todo' = Assets
    BY <1>4 DEF Acquire, Fail, Recorded
  <2>2. \A r \in spool : r[2] \in Recorded
    BY <2>1 DEF SpoolInv
  <2>3. \A m \in Market : RowsIn(m, object)' = {} /\ m[1] \in Assets
    BY <2>1, <2>2, MarketFacts DEF RowsIn
  <2> QED BY <2>1, <2>2, <2>3 DEF SpoolInv
<1>5. ASSUME NEW a \in Assets, Append(a) PROVE IsFiniteSet(spool)' /\ SpoolInv'
  <2>1. IsFiniteSet(spool')
    <3>1. IsFiniteSet(Scanned(a)) /\ (spool' = spool \/ spool' = spool \cup Scanned(a))
      BY <1>5, AppendFacts
    <3>2. IsFiniteSet(spool \cup Scanned(a))
      BY <3>1, FS_Union
    <3> QED BY <3>1, <3>2
  <2>2. CASE pc' = "scan"
    <3>1. /\ spool' = spool \cup Scanned(a) /\ todo' = todo \ {a} /\ a \in todo /\ pc = "scan"
          /\ UNCHANGED <<Recorded, found, object, version>>
      BY <1>5, <2>2, AppendFacts DEF Recorded
    <3>2. \A r \in Scanned(a) : r[1] \in found /\ r[1][1] = a /\ r[2] = object
      BY <1>5, AppendFacts
    <3>3. ASSUME NEW m \in Market
          PROVE  RowsIn(m, object)' =
                   IF m \in found /\ m[1] \notin todo' THEN Rows(object, version, {m}) ELSE {}
      <4>1. RowsIn(m, object)' = RowsIn(m, object) \cup RowsOf(m, Scanned(a))
        BY <3>1, <3>2 DEF RowsIn, RowsOf
      <4>2. RowsIn(m, object) =
              IF m \in found /\ m[1] \notin todo THEN Rows(object, version, {m}) ELSE {}
        BY <3>1 DEF SpoolInv
      <4>3. RowsOf(m, Scanned(a)) =
              IF m \in found /\ m[1] = a THEN Rows(object, version, {m}) ELSE {}
        BY <1>5, AppendFacts
      <4> QED BY <3>1, <4>1, <4>2, <4>3
    <3>4. \A r \in spool' : r[2] \in Recorded' \cup {object'} /\ r[1] \in found'
      BY <3>1, <3>2 DEF SpoolInv
    <3>5. \A m \in Market : RowsIn(m, object)' =
            IF m \in found' /\ m[1] \notin todo' THEN Rows(object, version, {m})' ELSE {}
      BY <3>1, <3>3 DEF Rows
    <3> QED BY <2>1, <2>2, <3>4, <3>5 DEF SpoolInv
  <2>3. CASE pc' = "failed"
    BY <2>1, <2>3 DEF SpoolInv
  <2> QED BY <1>5, <2>2, <2>3, AppendFacts
<1>6. CASE Complete
  <2>1. UNCHANGED <<spool, found>> /\ pc = "scan"
    BY <1>6 DEF Complete
  <2>2. \/ pc' = "source" /\ Recorded' = Recorded \cup {object}
        \/ pc' = "failed"
    BY <1>6, CompleteAdds
  <2> QED BY <2>1, <2>2 DEF SpoolInv
<1>7. CASE (\E a \in Assets : Publish(a)) \/ Clean
  <2>1. UNCHANGED <<spool, found, Recorded>> /\ pc \in {"build", "clean"} /\ pc' \in {"build", "clean"}
    BY <1>7 DEF Publish, Clean, Recorded
  <2> QED BY <2>1 DEF SpoolInv
<1>8. CASE World
  <2>1. UNCHANGED <<spool, pc, todo, found, Recorded, object, version>>
    BY <1>8 DEF World, Change, Resolve, Recorded
  <2>2. \A m \in Market : RowsIn(m, object)' = RowsIn(m, object)
    BY <2>1 DEF RowsIn
  <2> QED BY <2>1, <2>2 DEF SpoolInv, Rows
<1> QED BY <1>1, <1>2, <1>3, <1>4, <1>5, <1>6, <1>7, <1>8 DEF Next, Step

LEMMA Records ==
  ASSUME SharedInv, Next
  PROVE  RecordInv'
<1> USE DEF SharedInv, worldVars, stateVars, durable, memoryVars
<1>0. \A c \in completed : c[1] \in Recorded
  BY DEF Recorded
<1>1. ASSUME NEW m \in Market, Ask(m) PROVE RecordInv'
  <2>1. UNCHANGED <<spool, completed, ledger>> /\ m \notin AskedFor
    BY <1>1 DEF Ask
  <2>2. cache' = cache \cup {<<m, TRUE>>} \/ cache' = cache \cup {<<m, FALSE>>}
    BY <1>1, AskAnswers
  <2>3. \A n \in Market : n \in AskedFor =>
          n \in AskedFor' /\ (<<n, TRUE>> \in cache' <=> <<n, TRUE>> \in cache)
    <3> SUFFICES ASSUME NEW n \in Market, n \in AskedFor
                 PROVE  n \in AskedFor' /\ (<<n, TRUE>> \in cache' <=> <<n, TRUE>> \in cache)
      OBVIOUS
    <3>1. n # m
      BY <2>1
    <3>2. <<n, TRUE>> # <<m, TRUE>> /\ <<n, TRUE>> # <<m, FALSE>>
      BY <3>1
    <3>3. cache \subseteq cache'
      BY <2>2
    <3> QED BY <2>2, <3>2, <3>3 DEF AskedFor
  <2> QED BY <2>1, <2>3 DEF RecordInv, Published, RowsIn, Rows
<1>2. CASE Restore
  <2>1. (spool' = spool \/ spool' = Kept) /\ UNCHANGED <<completed, cache, ledger>>
    BY <1>2, RestoreFacts
  <2>2. \A c \in completed, m \in Market : RowsIn(m, c[1])' = RowsIn(m, c[1])
    BY <1>0, <2>1 DEF RowsIn, Kept
  <2>3. Published' = Published /\ AskedFor' = AskedFor
    BY <2>1 DEF Published, AskedFor
  <2> QED BY <2>1, <2>2, <2>3 DEF RecordInv
<1>3. ASSUME NEW a \in Assets, Append(a) PROVE RecordInv'
  <2>1. (spool' = spool \/ spool' = spool \cup Scanned(a)) /\ UNCHANGED <<completed, cache, ledger>>
        /\ pc = "scan"
    BY <1>3, AppendFacts
  <2>2. \A r \in Scanned(a) : r[2] \notin Recorded
    BY <1>3, <2>1, AppendFacts DEF PlaceInv
  <2>3. \A c \in completed, m \in Market : RowsIn(m, c[1])' = RowsIn(m, c[1])
    BY <1>0, <2>1, <2>2 DEF RowsIn
  <2>4. Published' = Published /\ AskedFor' = AskedFor
    BY <2>1 DEF Published, AskedFor
  <2>5. completed' = completed /\ cache' = cache
    BY <2>1
  <2>6. ASSUME NEW c \in completed, NEW m \in Market, m[1] \notin Published
        PROVE  m \in AskedFor /\ RowsIn(m, c[1])' =
                 IF <<m, TRUE>> \in cache THEN Rows(c[1], c[2], {m}) ELSE {}
    <3>1. m \in AskedFor /\ RowsIn(m, c[1]) =
            IF <<m, TRUE>> \in cache THEN Rows(c[1], c[2], {m}) ELSE {}
      BY <2>6 DEF RecordInv
    <3> QED BY <2>3, <3>1
  <2> QED BY <2>4, <2>5, <2>6 DEF RecordInv, Rows
<1>4. CASE Complete
  <2>1. UNCHANGED <<spool, cache, ledger>> /\ pc = "scan" /\ todo = {}
    BY <1>4 DEF Complete
  <2>2. completed' = completed \cup {<<object, version>>} \/ completed' = completed
    BY <1>4, CompleteAdds
  <2>3. ASSUME NEW m \in Market, m[1] \notin Published
        PROVE  m \in AskedFor /\ RowsIn(m, object) =
                 IF <<m, TRUE>> \in cache THEN Rows(object, version, {m}) ELSE {}
    BY <2>1, <2>3 DEF SpoolInv, FoundInv, Running
  <2> DEFINE new == <<object, version>>
  <2>4. new[1] = object /\ new[2] = version
    OBVIOUS
  <2>5. ASSUME NEW c \in completed', NEW m \in Market, m[1] \notin Published
        PROVE  m \in AskedFor /\ RowsIn(m, c[1]) =
                 IF <<m, TRUE>> \in cache THEN Rows(c[1], c[2], {m}) ELSE {}
    <3>1. c \in completed \/ c = new
      BY <2>2
    <3> HIDE DEF new
    <3>2. CASE c \in completed
      BY <2>5, <3>2 DEF RecordInv
    <3>3. CASE c = new
      BY <2>3, <2>4, <2>5, <3>3
    <3> QED BY <3>1, <3>2, <3>3
  <2> QED BY <2>1, <2>5 DEF RecordInv, Published, AskedFor, RowsIn, Rows
<1>5. ASSUME NEW a \in Assets, Publish(a) PROVE RecordInv'
  <2>1. UNCHANGED <<spool, completed, cache>> /\ Published' = Published \cup {a}
    BY <1>5, PublishAdds DEF Publish
  <2> QED BY <2>1 DEF RecordInv, AskedFor, RowsIn, Rows
<1>6. CASE Clean
  <2>1. UNCHANGED <<spool, completed, ledger>> /\ cache' \subseteq cache
        /\ \A c \in cache \ cache' : c[1][1] \in Published
    BY <1>6 DEF Clean, FoundInv
  <2>2. \A m \in Market : m[1] \notin Published /\ m \in AskedFor => m \in AskedFor'
    BY <2>1 DEF AskedFor
  <2>3. \A m \in Market : m[1] \notin Published => (<<m, TRUE>> \in cache <=> <<m, TRUE>> \in cache')
    BY <2>1
  <2> QED BY <2>1, <2>2, <2>3 DEF RecordInv, Published, RowsIn, Rows
<1>7. CASE Begin \/ Skip \/ RecordGap \/ Acquire \/ Prepared \/ End \/ Kill \/ World
  <2>1. UNCHANGED <<spool, completed, cache, ledger>>
    BY <1>7 DEF Begin, Skip, RecordGap, Acquire, Prepared, End, Kill, World, Change, Resolve
  <2> QED BY <2>1 DEF RecordInv, Published, AskedFor, RowsIn, Rows
<1> QED BY <1>1, <1>2, <1>3, <1>4, <1>5, <1>6, <1>7 DEF Next, Step

\* No row of the transaction is in the spool already.
LEMMA NothingClashes ==
  ASSUME SharedInv, NEW a \in Assets, Append(a)
  PROVE  /\ ~Clashes(Scanned(a))
         /\ \A m \in Market : RowsOf(m, spool) \cap RowsOf(m, Scanned(a)) = {}
<1> USE DEF SharedInv
<1>1. pc = "scan" /\ a \in todo /\ found \subseteq Market
  BY AppendFacts DEF TypeOK
<1>2. \A r \in Scanned(a) : r[1] \in found /\ r[1][1] = a /\ r[2] = object
  BY AppendFacts
<1>3. \A m \in Market : m[1] = a => RowsIn(m, object) = {}
  BY <1>1 DEF SpoolInv
<1>4. \A r \in Scanned(a) : \A q \in spool : ~(r[1] = q[1] /\ r[2] = q[2])
  BY <1>1, <1>2, <1>3 DEF RowsIn
<1> QED BY <1>4 DEF Clashes, RowsOf

LEMMA Counts ==
  ASSUME SharedInv, Next
  PROVE  CountsAreOfTheSpool'
<1> USE DEF SharedInv, worldVars, stateVars, durable, memoryVars
<1>1. CASE Restore
  BY <1>1, RestoreFacts DEF CountsAreOfTheSpool
<1>2. ASSUME NEW a \in Assets, Append(a) PROVE CountsAreOfTheSpool'
  <2>1. CASE pc' = "failed"
    BY <2>1 DEF CountsAreOfTheSpool
  <2>2. CASE pc' = "scan"
    <3>1. spool' = spool \cup Scanned(a) /\ pc = "scan" /\ IsFiniteSet(Scanned(a))
      BY <1>2, <2>2, AppendFacts
    <3>2. counts' = [m \in Market |-> counts[m] + Cardinality(RowsOf(m, Scanned(a)))]
      BY <1>2, <2>2 DEF Append, Fail, Scanned
    <3>3. ASSUME NEW m \in Market PROVE counts'[m] = Cardinality(RowsOf(m, spool'))
      <4>1. RowsOf(m, spool') = RowsOf(m, spool) \cup RowsOf(m, Scanned(a))
        BY <3>1 DEF RowsOf
      <4>2. IsFiniteSet(RowsOf(m, spool)) /\ IsFiniteSet(RowsOf(m, Scanned(a)))
            /\ Cardinality(RowsOf(m, spool)) \in Nat /\ Cardinality(RowsOf(m, Scanned(a))) \in Nat
        BY <3>1, FiniteRows
      <4>3. RowsOf(m, spool) \cap RowsOf(m, Scanned(a)) = {}
        BY <1>2, NothingClashes
      <4>4. Cardinality(RowsOf(m, spool')) =
              Cardinality(RowsOf(m, spool)) + Cardinality(RowsOf(m, Scanned(a))) - 0
        <5> DEFINE A == RowsOf(m, spool)
                   B == RowsOf(m, Scanned(a))
        <5>1. Cardinality(A \cup B) = Cardinality(A) + Cardinality(B) - Cardinality(A \cap B)
          BY <4>2, FS_Union
        <5>2. Cardinality(A \cap B) = 0
          BY <4>3, FS_EmptySet
        <5> QED BY <4>1, <5>1, <5>2
      <4>5. counts[m] = Cardinality(RowsOf(m, spool))
        BY <3>1 DEF CountsAreOfTheSpool
      <4> QED BY <3>2, <4>2, <4>4, <4>5
    <3> QED BY <3>3 DEF CountsAreOfTheSpool
  <2> QED BY <1>2, <2>1, <2>2, AppendFacts
<1>3. CASE Skip \/ RecordGap \/ Acquire \/ Complete \/ World
  <2>1. UNCHANGED <<spool, counts>> /\ (pc' \in {"source", "scan"} => pc \in {"source", "scan"})
    BY <1>3 DEF Skip, RecordGap, Acquire, Complete, World, Change, Resolve
  <2> QED BY <2>1 DEF CountsAreOfTheSpool
<1>4. CASE \/ Begin \/ (\E m \in Market : Ask(m)) \/ Prepared \/ End \/ Kill \/ Clean
           \/ \E a \in Assets : Publish(a)
  <2>1. pc' \notin {"source", "scan"}
    BY <1>4 DEF Begin, Ask, Prepared, End, Kill, Clean, Publish
  <2> QED BY <2>1 DEF CountsAreOfTheSpool
<1> QED BY <1>1, <1>2, <1>3, <1>4 DEF Next, Step

-----------------------------------------------------------------------------
(***************************************************************************)
(* The bounds.                                                             *)
(***************************************************************************)
LEMMA SameSum ==
  ASSUME NEW S, NEW f, NEW g, \A m \in S : f[m] = g[m]
  PROVE  Sum(f, S) = Sum(g, S)
<1>1. UNION {{m} \X (1..f[m]) : m \in S} = UNION {{m} \X (1..g[m]) : m \in S}
  OBVIOUS
<1> QED BY <1>1 DEF Sum

LEMMA TotalFacts ==
  ASSUME NEW R, IsFiniteSet(R), NEW m \in Market
  PROVE  TotalOf(R)[m] = Cardinality(RowsOf(m, R)) /\ TotalOf(R)[m] \in 0..Cardinality(R)
<1>1. RowsOf(m, R) \in SUBSET R
  BY DEF RowsOf
<1>2. Cardinality(RowsOf(m, R)) \in Nat /\ Cardinality(R) \in Nat
      /\ Cardinality(RowsOf(m, R)) <= Cardinality(R)
  BY <1>1, FS_Subset, FS_CardinalityType
<1> QED BY <1>2 DEF TotalOf

LEMMA SmallerSum ==
  ASSUME NEW R, IsFiniteSet(R), NEW S \in SUBSET Market, NEW T \in SUBSET S
  PROVE  /\ Sum(TotalOf(R), S) \in Nat /\ Sum(TotalOf(R), T) \in Nat
         /\ Sum(TotalOf(R), T) <= Sum(TotalOf(R), S)
<1> DEFINE n == Cardinality(R)
           f == TotalOf(R)
           all == Market \X (1..n)
           some(U) == UNION {{m} \X (1..f[m]) : m \in U}
<1>1. n \in Nat
  BY FS_CardinalityType
<1>2. IsFiniteSet(all)
  <2>1. IsFiniteSet(1..n)
    BY <1>1, FS_Interval
  <2> QED BY <2>1, MarketIsFinite, FS_Product
<1>3. \A m \in Market : f[m] \in 0..n
  BY TotalFacts
<1> HIDE DEF n, f
<1>4. some(S) \in SUBSET all
  BY <1>1, <1>3
<1>5. some(T) \in SUBSET some(S)
  OBVIOUS
<1>6. IsFiniteSet(some(S))
  BY <1>2, <1>4, FS_Subset
<1>7. IsFiniteSet(some(T)) /\ Cardinality(some(T)) <= Cardinality(some(S))
  BY <1>5, <1>6, FS_Subset
<1>8. Cardinality(some(S)) \in Nat /\ Cardinality(some(T)) \in Nat
  BY <1>6, <1>7, FS_CardinalityType
<1>9. Sum(f, S) = Cardinality(some(S)) /\ Sum(f, T) = Cardinality(some(T))
  BY DEF Sum
<1> HIDE DEF some
<1> QED BY <1>7, <1>8, <1>9 DEF f

\* Fewer markets exceed no bound either.
LEMMA FewerMarkets ==
  ASSUME NEW R, IsFiniteSet(R), NEW markets \in SUBSET Market, NEW total,
         \A m \in markets : total[m] = Cardinality(RowsOf(m, R)),
         ~Exceeds(TotalOf(R), Market)
  PROVE  ~Exceeds(total, markets)
<1>1. \A m \in markets : total[m] = TotalOf(R)[m]
  BY TotalFacts
<1>2. \A m \in markets : ~(total[m] > MarketCap)
  BY <1>1 DEF Exceeds
<1>3. ASSUME NEW a \in Assets
      PROVE  ~(Sum(total, {m \in markets : m[1] = a}) > AssetCap)
  <2> DEFINE S == {m \in Market : m[1] = a}
             T == {m \in markets : m[1] = a}
  <2>1. T \in SUBSET S /\ S \in SUBSET Market
    OBVIOUS
  <2>2. Sum(total, T) = Sum(TotalOf(R), T)
    <3>1. \A m \in T : total[m] = TotalOf(R)[m]
      BY <1>1
    <3> HIDE DEF T
    <3> QED BY <3>1, SameSum
  <2>3. ~(Sum(TotalOf(R), S) > AssetCap)
    BY DEF Exceeds
  <2> HIDE DEF S, T
  <2>4. Sum(TotalOf(R), S) \in Nat /\ Sum(TotalOf(R), T) \in Nat
        /\ Sum(TotalOf(R), T) <= Sum(TotalOf(R), S)
    BY <2>1, SmallerSum
  <2>5. ~(Sum(total, T) > AssetCap)
    BY <2>2, <2>3, <2>4, SharedDayAssumption
  <2> QED BY <2>5 DEF T
<1> QED BY <1>2, <1>3 DEF Exceeds

\* What the restart counts is within the bounds, and of markets it knows.
LEMMA NothingRefused ==
  ASSUME SharedInv, AskedFor = Market, NEW markets, markets = {m \in Market : <<m, TRUE>> \in cache}
  PROVE  Refusal(markets) = None
<1> USE DEF SharedInv
<1>1. ASSUME NEW r \in Kept PROVE r[1] \in markets
  <2>1. r \in spool /\ r[1] \in Market /\ <<r[1], FALSE>> \notin cache
    BY DEF Kept, TypeOK, Row, CacheInv
  <2>2. PICK c \in cache : c[1] = r[1]
    BY <2>1 DEF AskedFor
  <2>3. c = <<r[1], TRUE>> \/ c = <<r[1], FALSE>>
    <3>1. c \in Market \X BOOLEAN
      BY <2>2 DEF TypeOK
    <3>2. c = <<c[1], c[2]>> /\ c[2] \in BOOLEAN
      BY <3>1
    <3>3. c[2] = TRUE \/ c[2] = FALSE
      BY <3>2
    <3> QED BY <2>2, <3>2, <3>3
  <2> QED BY <2>1, <2>2, <2>3
<1> DEFINE total == [m \in markets |-> Cardinality(RowsOf(m, Kept))]
<1>2. markets \in SUBSET Market /\ \A m \in markets : total[m] = Cardinality(RowsOf(m, Kept))
  OBVIOUS
<1>3. IsFiniteSet(Kept) /\ ~Exceeds(TotalOf(Kept), Market)
  BY KeptIsFinite DEF CapInv
<1>4. ~Exceeds(total, markets)
  <2> HIDE DEF total
  <2> QED BY <1>2, <1>3, FewerMarkets
<1> QED BY <1>1, <1>4 DEF Refusal

\* A transaction within its bounds keeps the spool within them.
LEMMA AppendKeepsCaps ==
  ASSUME SharedInv, NEW a \in Assets, Append(a), pc' = "scan",
         IsFiniteSet(spool'), SpoolInv', CountsAreOfTheSpool'
  PROVE  ~Exceeds(TotalOf(spool'), Market)
<1> USE DEF SharedInv
<1> DEFINE mine == {m \in found : m[1] = a}
           after == [m \in mine |-> counts[m] + Cardinality(RowsOf(m, Scanned(a)))]
           new == TotalOf(spool')
           old == TotalOf(spool)
<1>1. /\ spool' = spool \cup Scanned(a) /\ pc = "scan" /\ found' = found /\ found \subseteq Market
      /\ \A r \in Scanned(a) : r[1][1] = a
  BY AppendFacts DEF TypeOK
<1>2. ~OverCap(a, Scanned(a))
      /\ counts' = [m \in Market |-> counts[m] + Cardinality(RowsOf(m, Scanned(a)))]
  BY DEF Append, Fail, Scanned
<1>3. ~Exceeds(after, mine)
  BY <1>2 DEF OverCap
<1>4. ~Exceeds(old, Market)
  BY <1>1 DEF CapInv, Busy
<1>5. ASSUME NEW m \in mine PROVE new[m] = after[m]
  <2>1. m \in Market /\ counts'[m] = Cardinality(RowsOf(m, spool'))
    BY <1>1 DEF CountsAreOfTheSpool
  <2> QED BY <1>2, <2>1, TotalFacts
<1>6. ASSUME NEW m \in Market, m[1] # a PROVE new[m] = old[m]
  <2>1. RowsOf(m, spool') = RowsOf(m, spool)
    BY <1>1, <1>6 DEF RowsOf
  <2> QED BY <2>1, TotalFacts
<1>7. ASSUME NEW m \in Market, m \notin found PROVE new[m] = 0
  <2>1. RowsOf(m, spool') = {}
    BY <1>1, <1>7 DEF RowsOf, SpoolInv, Busy
  <2> QED BY <2>1, TotalFacts, FS_EmptySet
<1> HIDE DEF after, new, old
<1>8. ASSUME NEW m \in Market PROVE ~(new[m] > MarketCap)
  <2>1. CASE m \in mine
    BY <1>3, <1>5, <2>1 DEF Exceeds
  <2>2. CASE m[1] # a
    BY <1>4, <1>6, <2>2 DEF Exceeds
  <2>3. CASE m \notin found
    BY <1>7, <2>3, SharedDayAssumption
  <2> QED BY <2>1, <2>2, <2>3
<1>9. ASSUME NEW b \in Assets PROVE ~(Sum(new, {m \in Market : m[1] = b}) > AssetCap)
  <2> DEFINE S == {m \in Market : m[1] = b}
             T == {m \in mine : m[1] = b}
  <2>1. CASE b # a
    <3>1. \A m \in S : new[m] = old[m]
      BY <1>6, <2>1
    <3>2. ~(Sum(old, S) > AssetCap)
      BY <1>4 DEF Exceeds
    <3> HIDE DEF S
    <3>3. Sum(new, S) = Sum(old, S)
      BY <3>1, SameSum
    <3> QED BY <3>2, <3>3 DEF S
  <2>2. CASE b = a
    <3>1. T \subseteq S /\ \A m \in S \ T : new[m] = 0
      BY <1>1, <1>7, <2>2
    <3>2. \A m \in T : new[m] = after[m]
      BY <1>5
    <3>3. ~(Sum(after, T) > AssetCap)
      BY <1>3 DEF Exceeds
    <3> HIDE DEF S, T
    <3>4. UNION {{m} \X (1..new[m]) : m \in S} = UNION {{m} \X (1..new[m]) : m \in T}
      <4>1. \A m \in S \ T : {m} \X (1..new[m]) = {}
        BY <3>1
      <4> QED BY <3>1, <4>1
    <3>5. Sum(new, S) = Sum(new, T)
      BY <3>4 DEF Sum
    <3>6. Sum(new, T) = Sum(after, T)
      BY <3>2, SameSum
    <3> QED BY <3>3, <3>5, <3>6 DEF S
  <2> QED BY <2>1, <2>2
<1> QED BY <1>8, <1>9 DEF Exceeds, new

LEMMA Caps ==
  ASSUME SharedInv, Next, IsFiniteSet(spool'), SpoolInv', CountsAreOfTheSpool'
  PROVE  CapInv'
<1> USE DEF SharedInv, worldVars, stateVars, durable, memoryVars, Busy
<1>1. CASE Restore
  <2>1. Kept' = Kept /\ (pc' \in {"source", "scan"} => spool' = Kept)
    BY <1>1, RestoreFacts DEF Kept, Recorded
  <2> QED BY <2>1 DEF CapInv, TotalOf
<1>2. ASSUME NEW a \in Assets, Append(a) PROVE CapInv'
  <2>1. Kept' = Kept
    <3>1. Recorded' = Recorded /\ (spool' = spool \/ spool' = spool \cup Scanned(a))
          /\ \A r \in Scanned(a) : r[2] \notin Recorded
      BY <1>2, AppendFacts DEF Recorded, PlaceInv
    <3> QED BY <3>1 DEF Kept
  <2>2. pc' \in {"source", "scan"} => pc' = "scan"
    BY <1>2, AppendFacts
  <2> QED BY <1>2, <2>1, <2>2, AppendKeepsCaps DEF CapInv, TotalOf
<1>3. CASE Complete
  <2>1. pc = "scan" /\ spool' = spool
    BY <1>3 DEF Complete
  <2>2. CASE pc' = "source"
    <3>1. Kept' = spool
      BY <1>3, <2>1, <2>2, CompleteAdds DEF Kept, SpoolInv
    <3> QED BY <2>1, <3>1 DEF CapInv, TotalOf
  <2>3. CASE pc' = "failed"
    <3>1. Kept' = Kept
      BY <1>3, <2>1, <2>3, CompleteAdds DEF Kept
    <3> QED BY <2>3, <3>1 DEF CapInv, TotalOf
  <2> QED BY <1>3, <2>2, <2>3, CompleteAdds
<1>4. CASE \/ Begin \/ (\E m \in Market : Ask(m)) \/ Skip \/ RecordGap \/ Acquire \/ Prepared
           \/ (\E a \in Assets : Publish(a)) \/ Clean \/ End \/ Kill \/ World
  <2>1. UNCHANGED <<spool, completed>> /\ (pc' \in {"source", "scan"} => pc \in {"source", "scan"})
    BY <1>4 DEF Begin, Ask, Skip, RecordGap, Acquire, Prepared, Publish, Clean, End, Kill, World,
                Change, Resolve, Fail
  <2>2. Kept' = Kept
    BY <2>1 DEF Kept, Recorded
  <2> QED BY <2>1, <2>2 DEF CapInv, TotalOf
<1> QED BY <1>1, <1>2, <1>3, <1>4 DEF Next, Step

-----------------------------------------------------------------------------
(***************************************************************************)
(* Partitions, and why a run fails.                                        *)
(***************************************************************************)
LEMMA Ledgers ==
  ASSUME SharedInv, Next
  PROVE  ProvenanceIsExact'
<1> USE DEF SharedInv, worldVars, stateVars, durable, memoryVars
<1>1. ASSUME NEW a \in Assets, Publish(a) PROVE ProvenanceIsExact'
  <2> DEFINE mine == {m \in found : m[1] = a}
             new == [asset   |-> a,
                     markets |-> mine,
                     rows    |-> Loaded(mine),
                     sources |-> IF found = {} THEN {} ELSE completed,
                     gaps    |-> IF found = {} THEN {} ELSE gaps]
  <2>1. ledger' = ledger \cup {new} /\ pc = "build" /\ a \notin Published
    BY <1>1 DEF Publish
  <2>2. ASSUME NEW m \in mine, NEW o \in Needed(m)
        PROVE  LET rows == {r \in Loaded(mine) : r[1] = m /\ r[2] = o} IN
               \/ o \in gaps /\ rows = {}
               \/ \E v \in Versions : <<o, v>> \in completed /\ rows = Rows(o, v, {m})
    <3>1. found # {} /\ found \in SUBSET Market /\ m \in Market /\ m \in found
          /\ o \in Hours /\ Relevant(m, o)
      BY DEF TypeOK, Needed
    <3>2. FirstObject(found) <= o /\ o <= LastObject(found)
      BY <3>1, FirstFacts, LastFacts
    <3>3. Handled(o)
      BY <2>1, <3>1, <3>2 DEF PlaceInv
    <3>4. {r \in Loaded(mine) : r[1] = m /\ r[2] = o} = RowsIn(m, o)
      BY DEF Loaded, RowsOf, RowsIn
    <3>5. CASE o \in Recorded
      <4>1. PICK c \in completed : c[1] = o
        BY <3>5 DEF Recorded
      <4>2. c = <<o, c[2]>> /\ c[2] \in Versions
        BY <4>1 DEF TypeOK
      <4>3. m[1] \notin Published /\ <<m, TRUE>> \in cache
        BY <2>1, <3>1 DEF FoundInv, Running
      <4>4. RowsIn(m, o) = Rows(o, c[2], {m})
        BY <3>1, <4>1, <4>3 DEF RecordInv
      <4> QED BY <3>4, <4>1, <4>2, <4>4
    <3>6. CASE o \notin Recorded
      <4>1. o \in gaps
        BY <3>3, <3>6 DEF Handled
      <4>2. RowsIn(m, o) = {}
        BY <2>1, <3>1, <3>6 DEF SpoolInv, RowsIn
      <4> QED BY <3>4, <4>1, <4>2
    <3> QED BY <3>5, <3>6
  <2>3. mine # {} => found # {}
    OBVIOUS
  <2>4. ASSUME NEW e \in ledger', NEW m \in e.markets, NEW o \in Needed(m)
        PROVE  LET rows == {r \in e.rows : r[1] = m /\ r[2] = o} IN
               \/ o \in e.gaps /\ rows = {}
               \/ \E v \in Versions : <<o, v>> \in e.sources /\ rows = Rows(o, v, {m})
    <3>1. CASE e \in ledger
      BY <3>1 DEF ProvenanceIsExact
    <3>2. CASE e = new
      <4>1. m \in mine /\ found # {}
        BY <2>3, <3>2
      <4>2. e.rows = Loaded(mine) /\ e.gaps = gaps /\ e.sources = completed
        BY <3>2, <4>1
      <4> HIDE DEF mine, new
      <4> QED BY <2>2, <4>1, <4>2
    <3> QED BY <2>1, <3>1, <3>2
  <2> HIDE DEF mine, new
  <2> QED BY <2>4 DEF ProvenanceIsExact
<1>2. CASE ledger' = ledger
  BY <1>2 DEF ProvenanceIsExact
<1>3. CASE \/ Begin \/ (\E m \in Market : Ask(m)) \/ Restore \/ Skip \/ RecordGap \/ Acquire
           \/ (\E a \in Assets : Append(a)) \/ Complete \/ Prepared \/ Clean \/ End \/ Kill \/ World
  BY <1>2, <1>3 DEF Begin, Ask, Restore, Skip, RecordGap, Acquire, Append, Complete, Prepared,
                    Clean, End, Kill, World, Change, Resolve
<1> QED BY <1>1, <1>3 DEF Next, Step

LEMMA Reasons ==
  ASSUME SharedInv, Next
  PROVE  LeftoversAreHarmless'
<1> USE DEF SharedInv, worldVars, stateVars, durable, memoryVars
<1>1. CASE Restore
  <2> DEFINE markets == {m \in Market : <<m, TRUE>> \in cache}
  <2>1. AskedFor = Market
    BY <1>1, RestoreFacts
  <2>2. Refusal(markets) = None
    BY <2>1, NothingRefused
  <2> HIDE DEF markets
  <2>3. reason' \in {reason, "authority"}
    BY <1>1, <2>2 DEF Restore, Fail, markets
  <2> QED BY <2>3 DEF LeftoversAreHarmless
<1>2. ASSUME NEW a \in Assets, Append(a) PROVE LeftoversAreHarmless'
  <2>1. ~Clashes(Scanned(a))
    BY <1>2, NothingClashes
  <2>2. reason' \in {reason, "cap"}
    BY <1>2, <2>1 DEF Append, Commit, Fail, Scanned
  <2> QED BY <2>2 DEF LeftoversAreHarmless
<1>3. CASE Begin
  BY <1>3 DEF Begin, None, LeftoversAreHarmless
<1>4. CASE Acquire \/ Complete
  <2>1. reason' \in {reason, "source", "irrelevant"}
    BY <1>4 DEF Acquire, Complete, Fail
  <2> QED BY <2>1 DEF LeftoversAreHarmless
<1>5. CASE \/ (\E m \in Market : Ask(m)) \/ Skip \/ RecordGap \/ Prepared
           \/ (\E a \in Assets : Publish(a)) \/ Clean \/ End \/ Kill \/ World
  <2>1. reason' = reason
    BY <1>5 DEF Ask, Skip, RecordGap, Prepared, Publish, Clean, End, Kill, World, Change, Resolve
  <2> QED BY <2>1 DEF LeftoversAreHarmless
<1> QED BY <1>1, <1>2, <1>3, <1>4, <1>5 DEF Next, Step

LEMMA NextShared == SharedInv /\ [Next]_vars => SharedInv'
<1> SUFFICES ASSUME SharedInv, [Next]_vars PROVE SharedInv'
  OBVIOUS
<1>1. CASE Next
  <2>1. TypeOK' /\ CacheInv' /\ FoundInv' /\ PlaceInv'
    BY <1>1, Types, Caches, Inventories, Places DEF SharedInv
  <2>2. IsFiniteSet(spool') /\ SpoolInv' /\ RecordInv' /\ CountsAreOfTheSpool'
    BY <1>1, Spools, Records, Counts
  <2>3. CapInv' /\ ProvenanceIsExact' /\ LeftoversAreHarmless'
    BY <1>1, <2>2, Caps, Ledgers, Reasons
  <2> QED BY <2>1, <2>2, <2>3 DEF SharedInv
<1>2. CASE UNCHANGED vars
  <2> USE <1>2 DEF vars, worldVars, durable, stateVars, memoryVars, SharedInv
  <2>1. TypeOK' /\ IsFiniteSet(spool')
    BY DEF TypeOK
  <2>2. CacheInv' /\ FoundInv' /\ PlaceInv'
    BY DEF CacheInv, FoundInv, PlaceInv, Running, Busy, Published, AskedFor, Handled, Recorded
  <2>3. SpoolInv' /\ RecordInv'
    <3>1. Recorded' = Recorded /\ Published' = Published /\ AskedFor' = AskedFor
      BY DEF Recorded, Published, AskedFor
    <3>2. \A m \in Market : \A o : RowsIn(m, o)' = RowsIn(m, o)
      BY DEF RowsIn
    <3>3. SpoolInv'
      BY <3>1 DEF SpoolInv, Busy, RowsIn, Rows
    <3>4. RecordInv'
      BY <3>1, <3>2 DEF RecordInv
    <3> QED BY <3>3, <3>4
  <2>4. CapInv' /\ CountsAreOfTheSpool'
    BY DEF CapInv, Busy, TotalOf, Kept, Recorded, CountsAreOfTheSpool
  <2>5. ProvenanceIsExact' /\ LeftoversAreHarmless'
    BY DEF ProvenanceIsExact, LeftoversAreHarmless
  <2> QED BY <2>1, <2>2, <2>3, <2>4, <2>5
<1> QED BY <1>1, <1>2

\* The invariant that the theorems below rest on.
THEOREM SharedDayInvariant == Spec => []SharedInv
BY InitShared, NextShared, PTL DEF Spec

\* The variables of prepare_shared_day and its work root keep the types of TypeOK.
THEOREM SharedDayTypes == Spec => []TypeOK
<1>1. SharedInv => TypeOK
  BY DEF SharedInv
<1> QED BY <1>1, SharedDayInvariant, PTL

\* run_partition: whatever runs were killed before, a published partition has all
\* rows of one version of each object its markets need, or the object is a gap.
THEOREM PartitionsMatchProvenance == Spec => []ProvenanceIsExact
<1>1. SharedInv => ProvenanceIsExact
  BY DEF SharedInv
<1> QED BY <1>1, SharedDayInvariant, PTL

\* EventSpool.append, _restore_shared_pmxt_counts: no run meets a row it is about to
\* add, one of a market it does not know, or more than the bounds allow.
THEOREM RestartsAreClean == Spec => []LeftoversAreHarmless
<1>1. SharedInv => LeftoversAreHarmless
  BY DEF SharedInv
<1> QED BY <1>1, SharedDayInvariant, PTL

\* prepare_shared_day: what is compared with the bounds is what the spool holds.
THEOREM CountsAreTrue == Spec => []CountsAreOfTheSpool
<1>1. SharedInv => CountsAreOfTheSpool
  BY DEF SharedInv
<1> QED BY <1>1, SharedDayInvariant, PTL

-----------------------------------------------------------------------------
(***************************************************************************)
(* The spool implements SourceLog: recording an object counts it, all else *)
(* leaves what is counted alone.                                           *)
(***************************************************************************)
CountedRows == {r \in spool : r[2] \in Recorded}

LEMMA StepCounts ==
  ASSUME SharedInv, Next
  PROVE  Log!Next \/ UNCHANGED <<completed, CountedRows, bytes>>
<1> USE DEF SharedInv, worldVars, stateVars, durable, memoryVars
<1>1. CASE Complete
  <2>1. CASE pc' = "failed"
    <3>1. UNCHANGED <<completed, Recorded, spool, bytes>>
      BY <1>1, <2>1, CompleteAdds DEF Complete, Fail
    <3> QED BY <3>1 DEF CountedRows
  <2>2. CASE pc' = "source"
    <3>1. /\ completed' = completed \cup {<<object, version>>} /\ Recorded' = Recorded \cup {object}
          /\ bytes' = bytes + Size[version] /\ spool' = spool /\ pc = "scan" /\ todo = {}
      BY <1>1, <2>2, CompleteAdds DEF Complete, Fail
    <3>2. object \in Hours /\ version \in Versions /\ found \in SUBSET Market /\ object \notin Recorded
      BY <3>1, ObjectIsHour DEF Busy, PlaceInv, TypeOK
    <3>3. CountedRows' = CountedRows \cup Rows(object, version, found)
      <4>1. CountedRows' = CountedRows \cup {r \in spool : r[2] = object}
        BY <3>1 DEF CountedRows
      <4>2. \A m \in Market : RowsIn(m, object) = IF m \in found THEN Rows(object, version, {m}) ELSE {}
        BY <3>1 DEF SpoolInv
      <4>3. \A m \in Market : RowsOf(m, Rows(object, version, found)) =
              IF m \in found THEN Rows(object, version, {m}) ELSE {}
        BY <3>2, RowsOfOne
      <4>4. \A r \in spool : r[1] \in Market
        BY DEF TypeOK, Row
      <4>5. \A r \in Rows(object, version, found) : r[1] \in Market
        BY <3>2, RowsFacts
      <4>6. {r \in spool : r[2] = object} = Rows(object, version, found)
        <5>1. ASSUME NEW r, r \in spool, r[2] = object PROVE r \in Rows(object, version, found)
          <6>1. r \in RowsIn(r[1], object) /\ r[1] \in Market
            BY <4>4, <5>1 DEF RowsIn
          <6>2. r \in RowsOf(r[1], Rows(object, version, found))
            BY <4>2, <4>3, <6>1
          <6> QED BY <6>2 DEF RowsOf
        <5>2. ASSUME NEW r \in Rows(object, version, found) PROVE r \in spool /\ r[2] = object
          <6>1. r \in RowsOf(r[1], Rows(object, version, found)) /\ r[1] \in Market
            BY <4>5 DEF RowsOf
          <6>2. r \in RowsIn(r[1], object)
            BY <4>2, <4>3, <6>1
          <6> QED BY <6>2 DEF RowsIn
        <5> QED BY <5>1, <5>2
      <4> QED BY <4>1, <4>6
    <3>4. \A c \in completed : c[1] # object
      BY <3>2 DEF Recorded
    <3>5. PICK o \in Hours, v \in Versions : o = object /\ v = version
      BY <3>2
    <3>6. Log!Count(o, v)
      BY <3>1, <3>2, <3>3, <3>4, <3>5 DEF Log!Count, CountedRows
    <3> QED BY <3>6 DEF Log!Next
  <2> QED BY <1>1, <2>1, <2>2, CompleteAdds
<1>2. CASE Restore
  <2>1. UNCHANGED <<completed, bytes, Recorded>> /\ (spool' = spool \/ spool' = Kept)
    BY <1>2, RestoreFacts DEF Restore, Recorded
  <2> QED BY <2>1 DEF CountedRows, Kept
<1>3. ASSUME NEW a \in Assets, Append(a) PROVE UNCHANGED <<completed, CountedRows, bytes>>
  <2>1. UNCHANGED <<completed, bytes, Recorded>> /\ (spool' = spool \/ spool' = spool \cup Scanned(a))
    BY <1>3, AppendFacts DEF Append, Recorded
  <2>2. \A r \in Scanned(a) : r[2] \notin Recorded
    BY <1>3, AppendFacts DEF PlaceInv
  <2> QED BY <2>1, <2>2 DEF CountedRows
<1>4. CASE \/ Begin \/ (\E m \in Market : Ask(m)) \/ Skip \/ RecordGap \/ Acquire \/ Prepared
           \/ (\E a \in Assets : Publish(a)) \/ Clean \/ End \/ Kill \/ World
  <2>1. UNCHANGED <<spool, completed, bytes>>
    BY <1>4 DEF Begin, Ask, Skip, RecordGap, Acquire, Prepared, Publish, Clean, End, Kill, World,
                Change, Resolve
  <2>2. Recorded' = Recorded
    BY <2>1 DEF Recorded
  <2>3. CountedRows' = CountedRows
    BY <2>1, <2>2 DEF CountedRows
  <2> QED BY <2>1, <2>3
<1> QED BY <1>1, <1>2, <1>3, <1>4 DEF Next, Step

\* prepare_shared_day: every object is counted once, in one step, although it takes
\* several transactions and a file.
THEOREM SpoolIsASourceLog == Spec => SourcesAreCountedOnce
<1>1. Init => Log!Init
  BY DEF Init, Log!Init, Recorded
<1>2. SharedInv /\ [Next]_vars => [Log!Next]_<<completed, CountedRows, bytes>>
  <2>1. UNCHANGED vars => UNCHANGED <<completed, CountedRows, bytes>>
    BY DEF vars, durable, stateVars, CountedRows, Recorded
  <2> QED BY <2>1, StepCounts
<1> QED BY <1>1, <1>2, SharedDayInvariant, PTL DEF Spec, SourcesAreCountedOnce, Log!Spec, CountedRows
=============================================================================
