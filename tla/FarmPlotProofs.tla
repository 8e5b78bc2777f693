--------------------------- MODULE FarmPlotProofs ---------------------------
(***************************************************************************)
(* Growth is exact to the millisecond, the plot can be saved, and owner and *)
(* visitors share the yield: proofs about FarmPlot for any configuration of *)
(* crop, effects and thefts, any visitors, goroutines and times.            *)
(***************************************************************************)
EXTENDS FarmPlot, FiniteSetTheorems, WellFoundedInduction, TLAPS

USE PlotAssumption

-----------------------------------------------------------------------------
(* Arithmetic.                                                             *)

LEMMA LeastNat ==
    ASSUME NEW T \in SUBSET Nat, T # {}
    PROVE  \E n \in T : \A m \in T : n <= m
<1>1. PICK n \in T : \A m \in T : ~ (<<m, n>> \in OpToRel(<, Nat))
  BY WFMin, NatLessThanWellFounded
<1>2. \A m \in T : ~ (m < n) BY <1>1 DEF OpToRel
<1> QED BY <1>2

\* A set of integers that is bounded below has a least element ...
LEMMA LeastInt ==
    ASSUME NEW S \in SUBSET Int, S # {}, NEW b \in Int, \A x \in S : b <= x
    PROVE  Min(S) \in S /\ \A x \in S : Min(S) <= x
<1> DEFINE T == {k \in Nat : b + k \in S}
<1>1. \A x \in S : x - b \in T OBVIOUS
<1>2. PICK n \in T : \A m \in T : n <= m BY <1>1, LeastNat
<1>3. \A x \in S : b + n <= x BY <1>1, <1>2
<1> QED BY <1>2, <1>3 DEF Min

\* ... and one that is bounded above has a greatest.
LEMMA GreatestInt ==
    ASSUME NEW S \in SUBSET Int, S # {}, NEW b \in Int, \A x \in S : x <= b
    PROVE  Max(S) \in S /\ \A x \in S : x <= Max(S)
<1> DEFINE T == {k \in Nat : b - k \in S}
<1>1. \A x \in S : b - x \in T OBVIOUS
<1>2. PICK n \in T : \A m \in T : n <= m BY <1>1, LeastNat
<1>3. \A x \in S : x <= b - n
  <2> TAKE x \in S
  <2>1. n <= b - x BY <1>1, <1>2
  <2>2. n \in Int /\ x \in Int OBVIOUS
  <2> HIDE DEF T
  <2> QED BY <2>1, <2>2
<1> QED BY <1>2, <1>3 DEF Max

LEMMA TimesPositive ==
    ASSUME NEW x \in Int, NEW y \in Int, NEW r \in Nat \ {0}, x * r < y * r
    PROVE  x < y
<1>1. CASE y <= x
  <2>1. x - y \in Nat /\ (x - y) * r >= 0 BY <1>1
  <2>2. (x - y) * r = x * r - y * r OBVIOUS
  <2>3. x * r \in Int /\ y * r \in Int OBVIOUS
  <2> QED BY <2>1, <2>2, <2>3
<1> QED BY <1>1

\* addGrowthDuration: the least number of milliseconds at rate b that yield a.
LEMMA CeilIsLeast ==
    ASSUME NEW a \in Nat \ {0}, NEW b \in Nat \ {0}
    PROVE  /\ Ceil(a, b) \in Nat \ {0}
           /\ Ceil(a, b) * b >= a /\ (Ceil(a, b) - 1) * b < a
<1> DEFINE n == a + b - 1
           q == n \div b
<1>1. n \in Nat OBVIOUS
<1>2. q \in Nat /\ n % b \in 0..(b - 1) /\ n = b * q + (n % b) BY <1>1
<1>3. q * b = b * q /\ (q - 1) * b = b * q - b BY <1>2
<1>4. b * q \in Int BY <1>2
<1>5. q * b >= a /\ (q - 1) * b < a BY <1>1, <1>2, <1>3, <1>4
<1>6. q # 0 BY <1>5
<1> QED BY <1>2, <1>5, <1>6 DEF Ceil

-----------------------------------------------------------------------------
(* What a crop grows, millisecond by millisecond.                          *)

LEMMA ExposureFinite ==
    ASSUME NEW slot, IsFiniteSet(slot), NEW a \in Int, NEW b \in Int
    PROVE  IsFiniteSet(Exposure(slot, a, b)) /\ Cardinality(Exposure(slot, a, b)) \in Nat
<1>1. IsFiniteSet(a..(b - 1)) BY FS_Interval
<1>2. IsFiniteSet((a..(b - 1)) \X slot) BY <1>1, FS_Product
<1>3. Exposure(slot, a, b) \in SUBSET ((a..(b - 1)) \X slot) BY DEF Exposure
<1>4. IsFiniteSet(Exposure(slot, a, b)) BY <1>2, <1>3, FS_Subset
<1> QED BY <1>4, FS_CardinalityType

\* Exposures of adjacent intervals add up.
LEMMA ExposureSplit ==
    ASSUME NEW slot, IsFiniteSet(slot), NEW a \in Int, NEW b \in Int, NEW c \in Int,
           a <= b, b <= c
    PROVE  Cardinality(Exposure(slot, a, c)) =
             Cardinality(Exposure(slot, a, b)) + Cardinality(Exposure(slot, b, c))
<1> DEFINE S == Exposure(slot, a, b)
           T == Exposure(slot, b, c)
<1>1. Exposure(slot, a, c) = S \cup T
  <2>1. a..(c - 1) = (a..(b - 1)) \cup (b..(c - 1)) OBVIOUS
  <2> QED BY <2>1 DEF Exposure
<1>2. S \cap T = {}
  <2>1. (a..(b - 1)) \cap (b..(c - 1)) = {} OBVIOUS
  <2>2. \A x \in S : x[1] \in a..(b - 1) BY DEF Exposure
  <2>3. \A x \in T : x[1] \in b..(c - 1) BY DEF Exposure
  <2> QED BY <2>1, <2>2, <2>3
<1>3. IsFiniteSet(S) /\ IsFiniteSet(T) /\ Cardinality(S) \in Nat /\ Cardinality(T) \in Nat
  BY ExposureFinite
<1> HIDE DEF S, T
<1>4. Cardinality(S \cup T) = Cardinality(S) + Cardinality(T) - Cardinality(S \cap T)
  BY <1>3, FS_Union
<1>5. Cardinality(S \cap T) = 0 BY <1>2, FS_EmptySet
<1>6. Cardinality(S \cup T) = Cardinality(S) + Cardinality(T) BY <1>3, <1>4, <1>5
<1> QED BY <1>1, <1>6 DEF S, T

\* Where the same effects hold all the time.
LEMMA ExposureConstant ==
    ASSUME NEW slot, IsFiniteSet(slot), NEW a \in Int, NEW b \in Int, a < b,
           \A u \in a..(b - 1) : ActiveAt(slot, u) = ActiveAt(slot, a)
    PROVE  Cardinality(Exposure(slot, a, b)) = (b - a) * Cardinality(ActiveAt(slot, a))
<1>1. Exposure(slot, a, b) = (a..(b - 1)) \X ActiveAt(slot, a)
  <2>1. ASSUME NEW u \in a..(b - 1), NEW e \in slot
        PROVE  (u >= e.start /\ u < e.end) <=> e \in ActiveAt(slot, a)
    <3>1. ActiveAt(slot, u) = ActiveAt(slot, a) OBVIOUS
    <3> QED BY <3>1 DEF ActiveAt
  <2>2. ActiveAt(slot, a) \in SUBSET slot BY DEF ActiveAt
  <2> QED BY <2>1, <2>2 DEF Exposure
<1>2. IsFiniteSet(a..(b - 1)) /\ Cardinality(a..(b - 1)) = b - a BY FS_Interval
<1>3. ActiveAt(slot, a) \in SUBSET slot BY DEF ActiveAt
<1>4. IsFiniteSet(ActiveAt(slot, a)) BY <1>3, FS_Subset
<1> QED BY <1>1, <1>2, <1>4, FS_Product

\* Only the effects that hold matter.
LEMMA ExposureSame ==
    ASSUME NEW slot, NEW other, NEW a \in Int, NEW b \in Int,
           \A u \in a..(b - 1) : ActiveAt(slot, u) = ActiveAt(other, u)
    PROVE  Exposure(slot, a, b) = Exposure(other, a, b)
BY DEF Exposure, ActiveAt

FiniteSlots(p) == IsFiniteSet(p.fertilizer) /\ IsFiniteSet(p.pest)

LEMMA GrownType ==
    ASSUME NEW p, FiniteSlots(p), NEW a \in Int, NEW b \in Int
    PROVE  Grown(p, a, b) \in Int
BY ExposureFinite DEF FiniteSlots, Grown

LEMMA GrownNothing ==
    ASSUME NEW p, NEW a \in Int
    PROVE  Grown(p, a, a) = 0
<1>1. Exposure(p.fertilizer, a, a) = {} /\ Exposure(p.pest, a, a) = {} BY DEF Exposure
<1> QED BY <1>1, FS_EmptySet DEF Grown

LEMMA GrownSplit ==
    ASSUME NEW p, FiniteSlots(p), NEW a \in Int, NEW b \in Int, NEW c \in Int, a <= b, b <= c
    PROVE  Grown(p, a, c) = Grown(p, a, b) + Grown(p, b, c)
<1> DEFINE F(x, y) == Cardinality(Exposure(p.fertilizer, x, y))
           P(x, y) == Cardinality(Exposure(p.pest, x, y))
<1>1. F(a, c) = F(a, b) + F(b, c) /\ P(a, c) = P(a, b) + P(b, c)
  BY ExposureSplit DEF FiniteSlots
<1>2. F(a, b) \in Int /\ F(b, c) \in Int /\ P(a, b) \in Int /\ P(b, c) \in Int
  BY ExposureFinite DEF FiniteSlots
<1> HIDE DEF F, P
<1>3. \A x, y \in Int : \A k \in Int : k * (x + y) = k * x + k * y OBVIOUS
<1>4. BaseRate * (c - a) = BaseRate * (b - a) + BaseRate * (c - b)
  <2>1. c - a = (b - a) + (c - b) OBVIOUS
  <2> QED BY <1>3, <2>1
<1>5. FertilizerRate * F(a, c) = FertilizerRate * F(a, b) + FertilizerRate * F(b, c)
  BY <1>1, <1>2, <1>3
<1>6. PestRate * P(a, c) = PestRate * P(a, b) + PestRate * P(b, c) BY <1>1, <1>2, <1>3
<1>7. \A k, x \in Int : k * x \in Int OBVIOUS
<1> DEFINE b1 == BaseRate * (b - a)  b2 == BaseRate * (c - b)
           f1 == FertilizerRate * F(a, b)  f2 == FertilizerRate * F(b, c)
           p1 == PestRate * P(a, b)  p2 == PestRate * P(b, c)
<1>8. b1 \in Int /\ b2 \in Int /\ f1 \in Int /\ f2 \in Int /\ p1 \in Int /\ p2 \in Int
  BY <1>2, <1>7
<1>9. /\ Grown(p, a, c) = (b1 + b2) + (f1 + f2) + (p1 + p2)
      /\ Grown(p, a, b) = b1 + f1 + p1 /\ Grown(p, b, c) = b2 + f2 + p2
  BY <1>4, <1>5, <1>6 DEF Grown, F, P
<1> HIDE DEF b1, b2, f1, f2, p1, p2
<1> QED BY <1>8, <1>9

LEMMA ActiveFinite ==
    ASSUME NEW slot, IsFiniteSet(slot), NEW t
    PROVE  /\ IsFiniteSet(ActiveAt(slot, t)) /\ Cardinality(ActiveAt(slot, t)) \in Nat
           /\ Cardinality(ActiveAt(slot, t)) <= Cardinality(slot)
<1>1. ActiveAt(slot, t) \in SUBSET slot BY DEF ActiveAt
<1>2. IsFiniteSet(ActiveAt(slot, t)) /\ Cardinality(ActiveAt(slot, t)) <= Cardinality(slot)
  BY <1>1, FS_Subset
<1> QED BY <1>2, FS_CardinalityType

\* The growth of an interval in which no effect begins or ends.
LEMMA GrownPiece ==
    ASSUME NEW p, FiniteSlots(p), p.fertilizer \in SUBSET Effect, p.pest \in SUBSET Effect,
           NEW a \in Int, NEW b \in Int, a < b, \A d \in Boundaries(p) : ~ (a < d /\ d < b)
    PROVE  Grown(p, a, b) = (b - a) * Rate(p, a) /\ Rate(p, a) \in Int
<1>1. ASSUME NEW slot \in {p.fertilizer, p.pest}, NEW u \in a..(b - 1)
      PROVE  ActiveAt(slot, u) = ActiveAt(slot, a)
  <2>1. ASSUME NEW e \in slot
        PROVE  (e.start <= u /\ u < e.end) <=> (e.start <= a /\ a < e.end)
    <3>1. e.start \in Int /\ e.end \in Int BY DEF Effect, Times
    <3>2. e.start \in Boundaries(p) /\ e.end \in Boundaries(p) BY DEF Boundaries, Slots
    <3> QED BY <3>1, <3>2
  <2> QED BY <2>1 DEF ActiveAt
<1> DEFINE f == Cardinality(ActiveAt(p.fertilizer, a))
           g == Cardinality(ActiveAt(p.pest, a))
           n == b - a
<1>2. /\ Cardinality(Exposure(p.fertilizer, a, b)) = n * f
      /\ Cardinality(Exposure(p.pest, a, b)) = n * g
  BY <1>1, ExposureConstant DEF FiniteSlots
<1>3. f \in Int /\ g \in Int BY ActiveFinite DEF FiniteSlots
<1>4. Grown(p, a, b) = BaseRate * n + FertilizerRate * (n * f) + PestRate * (n * g)
  BY <1>2 DEF Grown
<1>5. Rate(p, a) = BaseRate + FertilizerRate * f + PestRate * g BY DEF Rate
<1>6. n \in Int OBVIOUS
<1> HIDE DEF f, g, n
<1>7. \A k, m, x \in Int : k * (m * x) = m * (k * x) OBVIOUS
<1>8. FertilizerRate * (n * f) = n * (FertilizerRate * f)
      /\ PestRate * (n * g) = n * (PestRate * g) BY <1>3, <1>6, <1>7
<1>9. FertilizerRate * f \in Int /\ PestRate * g \in Int BY <1>3
<1>10. \A k, x, y, z \in Int : k * (x + y + z) = x * k + k * y + k * z OBVIOUS
<1>11. n * (BaseRate + FertilizerRate * f + PestRate * g)
       = BaseRate * n + n * (FertilizerRate * f) + n * (PestRate * g)
  BY <1>6, <1>9, <1>10
<1> QED BY <1>4, <1>5, <1>8, <1>9, <1>11 DEF n

\* Two records under which the same effects hold.
LEMMA GrownSame ==
    ASSUME NEW p, NEW q, NEW a \in Int, NEW b \in Int,
           \A u \in a..(b - 1) : /\ ActiveAt(p.fertilizer, u) = ActiveAt(q.fertilizer, u)
                                 /\ ActiveAt(p.pest, u) = ActiveAt(q.pest, u)
    PROVE  Grown(p, a, b) = Grown(q, a, b)
<1>1. Exposure(p.fertilizer, a, b) = Exposure(q.fertilizer, a, b)
      /\ Exposure(p.pest, a, b) = Exposure(q.pest, a, b)
  BY ExposureSame
<1> QED BY <1>1 DEF Grown

LEMMA OneEffect ==
    ASSUME NEW slot, AtMostOne(slot)
    PROVE  IsFiniteSet(slot) /\ Cardinality(slot) \in 0..1
<1>1. CASE slot = {} BY <1>1, FS_EmptySet
<1>2. CASE slot # {}
  <2>1. PICK e : slot = {e} BY <1>2 DEF AtMostOne
  <2>2. IsFiniteSet({e}) /\ Cardinality({e}) = 1 BY FS_Singleton
  <2> QED BY <2>1, <2>2
<1> QED BY <1>1, <1>2

OneEach(p) == AtMostOne(p.fertilizer) /\ AtMostOne(p.pest)

LEMMA OneEachFinite == ASSUME NEW p, OneEach(p) PROVE FiniteSlots(p)
BY OneEffect DEF OneEach, FiniteSlots

\* A crop never stops growing: one pest takes less than the base rate.
LEMMA RatePositive ==
    ASSUME NEW p, OneEach(p), NEW t
    PROVE  Rate(p, t) \in Nat \ {0}
<1> DEFINE f == Cardinality(ActiveAt(p.fertilizer, t))
           g == Cardinality(ActiveAt(p.pest, t))
<1>1. f \in Nat /\ g \in 0..1 BY ActiveFinite, OneEffect DEF OneEach
<1>2. Rate(p, t) = BaseRate + FertilizerRate * f + PestRate * g BY DEF Rate
<1> HIDE DEF f, g
<1>3. FertilizerRate * f \in Nat BY <1>1
<1>4. PestRate * g \in Int /\ PestRate * g >= PestRate
  <2>1. CASE g = 0 BY <2>1
  <2>2. CASE g = 1 BY <2>2
  <2> QED BY <1>1, <2>1, <2>2
<1> QED BY <1>2, <1>3, <1>4

LEMMA GrownPositive ==
    ASSUME NEW p, OneEach(p), NEW a \in Int, NEW b \in Int, a <= b
    PROVE  Grown(p, a, b) \in Int /\ Grown(p, a, b) >= b - a
<1> DEFINE f == Cardinality(Exposure(p.fertilizer, a, b))
           g == Cardinality(Exposure(p.pest, a, b))
           n == b - a
<1>1. f \in Nat /\ g \in Nat BY ExposureFinite, OneEffect DEF OneEach
<1>2. g <= n
  <2>1. IsFiniteSet(p.pest) /\ Cardinality(p.pest) \in 0..1 BY OneEffect DEF OneEach
  <2>2. IsFiniteSet(a..(b - 1)) /\ Cardinality(a..(b - 1)) = n
    <3>1. b - 1 \in Int OBVIOUS
    <3>2. /\ IsFiniteSet(a..(b - 1))
          /\ Cardinality(a..(b - 1)) = IF a > b - 1 THEN 0 ELSE (b - 1) - a + 1
      BY <3>1, FS_Interval
    <3> QED BY <3>2
  <2>3. /\ IsFiniteSet((a..(b - 1)) \X p.pest)
        /\ Cardinality((a..(b - 1)) \X p.pest) = n * Cardinality(p.pest)
    BY <2>1, <2>2, FS_Product
  <2>4. Exposure(p.pest, a, b) \in SUBSET ((a..(b - 1)) \X p.pest) BY DEF Exposure
  <2>5. g <= n * Cardinality(p.pest) BY <2>3, <2>4, FS_Subset
  <2>6. CASE Cardinality(p.pest) = 0 BY <1>1, <2>5, <2>6
  <2>7. CASE Cardinality(p.pest) = 1 BY <1>1, <2>5, <2>7
  <2> QED BY <2>1, <2>6, <2>7
<1>3. Grown(p, a, b) = BaseRate * n + FertilizerRate * f + PestRate * g BY DEF Grown
<1>4. n \in Nat OBVIOUS
<1> HIDE DEF f, g, n
<1>5. FertilizerRate * f \in Nat BY <1>1
<1>6. PestRate * g \in Int /\ PestRate * g >= PestRate * n
  <2>1. (0 - PestRate) \in Nat /\ n - g \in Nat BY <1>1, <1>2, <1>4
  <2>2. (0 - PestRate) * (n - g) >= 0 BY <2>1
  <2>3. (0 - PestRate) * (n - g) = PestRate * g - PestRate * n BY <1>1, <1>4
  <2> QED BY <1>1, <1>4, <2>2, <2>3
<1>7. (BaseRate + PestRate) * n >= n
  <2>1. BaseRate + PestRate - 1 \in Nat OBVIOUS
  <2>2. (BaseRate + PestRate - 1) * n >= 0 BY <1>4, <2>1
  <2>3. (BaseRate + PestRate - 1) * n = (BaseRate + PestRate) * n - n BY <1>4
  <2>4. (BaseRate + PestRate) * n \in Int BY <1>4
  <2> QED BY <1>4, <2>2, <2>3, <2>4
<1>8. (BaseRate + PestRate) * n = BaseRate * n + PestRate * n BY <1>4
<1>9. BaseRate * n \in Int /\ PestRate * n \in Int BY <1>4
<1>10. Grown(p, a, b) \in Int /\ Grown(p, a, b) >= n
  BY <1>3, <1>4, <1>5, <1>6, <1>7, <1>8, <1>9
<1> QED BY <1>10 DEF n

-----------------------------------------------------------------------------
(* growthBetween computes it piece by piece.                               *)

Typed(p) == p.fertilizer \in SUBSET Effect /\ p.pest \in SUBSET Effect

LEMMA BoundariesType == ASSUME NEW p, Typed(p) PROVE Boundaries(p) \in SUBSET Int
BY DEF Typed, Effect, Times, Boundaries, Slots

LEMMA PieceEndFacts ==
    ASSUME NEW p, Typed(p), NEW c \in Int, NEW to \in Int, c < to
    PROVE  /\ PieceEnd(p, c, to) \in (c + 1)..to
           /\ \A d \in Boundaries(p) : ~ (c < d /\ d < PieceEnd(p, c, to))
<1> DEFINE S == {d \in Boundaries(p) \cup {to} : d > c}
<1>1. Boundaries(p) \in SUBSET Int BY BoundariesType
<1>2. S \in SUBSET Int /\ to \in S /\ \A d \in S : c <= d BY <1>1
<1>3. Min(S) \in S /\ \A d \in S : Min(S) <= d
  <2> HIDE DEF S
  <2> QED BY <1>2, LeastInt
<1>4. PieceEnd(p, c, to) = Min(S) BY DEF PieceEnd
<1>5. Min(S) \in Int /\ Min(S) > c /\ Min(S) <= to BY <1>1, <1>3
<1>6. \A d \in Boundaries(p) : ~ (c < d /\ d < Min(S)) BY <1>1, <1>3, <1>5
<1> HIDE DEF S
<1> QED BY <1>4, <1>5, <1>6

PieceStep(p, to, h, c) ==
    IF c = to THEN 0
    ELSE (PieceEnd(p, c, to) - c) * Rate(p, c) + h[PieceEnd(p, c, to)]

Pieces(p, from, to) == CHOOSE h : h = [c \in from..to |-> PieceStep(p, to, h, c)]

LEMMA GrowthIsPieces ==
    ASSUME NEW p, NEW from, NEW to
    PROVE  GrowthBetween(p, from, to) = IF to <= from THEN 0 ELSE Pieces(p, from, to)[from]
BY DEF GrowthBetween, Pieces, PieceStep

\* One piece and the rest.
LEMMA PieceAndRest ==
    ASSUME NEW p, Typed(p), FiniteSlots(p), NEW c \in Int, NEW to \in Int, c < to
    PROVE  Grown(p, c, to) =
             (PieceEnd(p, c, to) - c) * Rate(p, c) + Grown(p, PieceEnd(p, c, to), to)
<1> DEFINE n == PieceEnd(p, c, to)
<1>1. n \in Int /\ c < n /\ n <= to /\ \A d \in Boundaries(p) : ~ (c < d /\ d < n)
  BY PieceEndFacts
<1> HIDE DEF n
<1>2. Grown(p, c, n) = (n - c) * Rate(p, c) BY <1>1, GrownPiece DEF Typed
<1>3. Grown(p, c, to) = Grown(p, c, n) + Grown(p, n, to) BY <1>1, GrownSplit
<1> QED BY <1>2, <1>3 DEF n

LEMMA PiecesStep ==
    ASSUME NEW p, Typed(p), FiniteSlots(p), NEW from \in Int, NEW to \in Int,
           NEW c \in from..to
    PROVE  Pieces(p, from, to)[c] = PieceStep(p, to, Pieces(p, from, to), c)
<1> DEFINE Solves(h) == h = [x \in from..to |-> PieceStep(p, to, h, x)]
           g == [x \in from..to |-> Grown(p, x, to)]
<1>1. \A x \in from..to : g[x] = PieceStep(p, to, g, x)
  <2> SUFFICES ASSUME NEW x \in from..to PROVE g[x] = PieceStep(p, to, g, x)
    OBVIOUS
  <2>1. CASE x = to BY <2>1, GrownNothing DEF PieceStep
  <2>2. CASE x # to
    <3>1. x \in Int /\ x < to BY <2>2
    <3>2. PieceEnd(p, x, to) \in from..to BY <3>1, PieceEndFacts
    <3>3. g[PieceEnd(p, x, to)] = Grown(p, PieceEnd(p, x, to), to) BY <3>2
    <3>4. Grown(p, x, to) =
             (PieceEnd(p, x, to) - x) * Rate(p, x) + Grown(p, PieceEnd(p, x, to), to)
      BY <3>1, PieceAndRest
    <3> QED BY <2>2, <3>3, <3>4 DEF PieceStep
  <2> QED BY <2>1, <2>2
<1>2. Solves(g)
  <2>1. g = [x \in from..to |-> g[x]] OBVIOUS
  <2> HIDE DEF g
  <2> QED BY <1>1, <2>1
<1>3. Solves(CHOOSE h : Solves(h))
  <2> HIDE DEF Solves
  <2> QED BY <1>2
<1>4. Pieces(p, from, to) = [x \in from..to |-> PieceStep(p, to, Pieces(p, from, to), x)]
  BY <1>3 DEF Pieces
<1> QED BY <1>4

\* The last argument at which the two would differ.
LEMMA PiecesAreGrown ==
    ASSUME NEW p, Typed(p), FiniteSlots(p), NEW from \in Int, NEW to \in Int
    PROVE  \A c \in from..to : Pieces(p, from, to)[c] = Grown(p, c, to)
<1> DEFINE h == Pieces(p, from, to)
           Bad == {c \in from..to : h[c] # Grown(p, c, to)}
<1>1. SUFFICES ASSUME Bad # {} PROVE FALSE OBVIOUS
<1> DEFINE c == Max(Bad)
<1>2. c \in Bad /\ \A d \in Bad : d <= c
  <2>1. Bad \in SUBSET Int /\ \A d \in Bad : d <= to OBVIOUS
  <2> HIDE DEF Bad
  <2> QED BY <1>1, <2>1, GreatestInt
<1> HIDE DEF c, h
<1>3. c \in from..to /\ h[c] # Grown(p, c, to) BY <1>2
<1>4. h[c] = PieceStep(p, to, h, c) BY <1>3, PiecesStep DEF h
<1>5. CASE c = to BY <1>3, <1>4, <1>5, GrownNothing DEF PieceStep
<1>6. CASE c # to
  <2> DEFINE n == PieceEnd(p, c, to)
  <2>1. c \in Int /\ c < to BY <1>3, <1>6
  <2>2. n \in (c + 1)..to BY <2>1, PieceEndFacts
  <2>3. h[n] = Grown(p, n, to)
    <3> HIDE DEF n
    <3>1. n \in from..to /\ ~ (n <= c) BY <1>3, <2>2
    <3> QED BY <1>2, <3>1
  <2>4. Grown(p, c, to) = (n - c) * Rate(p, c) + Grown(p, n, to) BY <2>1, PieceAndRest
  <2> QED BY <1>3, <1>4, <1>6, <2>3, <2>4 DEF PieceStep
<1> QED BY <1>5, <1>6

\* growthBetween agrees with the sum over the milliseconds.
THEOREM GrowthBetweenIsGrown ==
    ASSUME NEW p, Typed(p), FiniteSlots(p), NEW from \in Int, NEW to \in Int, from <= to
    PROVE  GrowthBetween(p, from, to) = Grown(p, from, to)
<1>1. CASE from = to BY <1>1, GrowthIsPieces, GrownNothing
<1>2. CASE from < to
  <2>1. from \in from..to /\ ~ (to <= from) BY <1>2
  <2> QED BY <2>1, GrowthIsPieces, PiecesAreGrown
<1> QED BY <1>1, <1>2

-----------------------------------------------------------------------------
(* estimatePlotMatureAtMS finds the first millisecond of maturity.         *)

THEOREM EstimateIsFirst ==
    ASSUME NEW p, Typed(p), OneEach(p), NEW from \in Int,
           p.settled \in Int, p.settled < Maturity
    PROVE  /\ Estimate(p, from) \in Int /\ Estimate(p, from) > from
           /\ Grown(p, from, Estimate(p, from)) >= Maturity - p.settled
           /\ Grown(p, from, Estimate(p, from) - 1) < Maturity - p.settled
<1> DEFINE remaining == Maturity - p.settled
           cuts == {from} \cup {t \in Boundaries(p) : t > from}
           C == {c \in cuts : GrowthBetween(p, from, c) < remaining}
           cursor == Max(C)
           G(c) == Grown(p, from, c)
<1>1. FiniteSlots(p) BY OneEachFinite
<1>2. cuts \in SUBSET Int /\ \A c \in cuts : from <= c
  BY BoundariesType
<1>3. remaining \in Nat \ {0} OBVIOUS
<1> HIDE DEF remaining, cuts
<1>4. \A c \in cuts : GrowthBetween(p, from, c) = G(c) /\ G(c) \in Int /\ G(c) >= c - from
  BY <1>1, <1>2, GrowthBetweenIsGrown, GrownPositive
<1> HIDE DEF G
<1>5. cursor \in C /\ \A c \in C : c <= cursor
  <2>1. from \in cuts BY DEF cuts
  <2>2. G(from) = 0 BY GrownNothing DEF G
  <2>3. from \in C BY <1>3, <1>4, <2>1, <2>2
  <2>4. C \in SUBSET Int BY <1>2
  <2>5. ASSUME NEW c \in C PROVE c <= from + remaining
    <3>1. c \in cuts /\ G(c) < remaining BY <1>4, <2>5
    <3>2. c \in Int /\ G(c) \in Int /\ G(c) >= c - from BY <1>2, <1>4, <3>1
    <3> QED BY <1>3, <3>1, <3>2
  <2>6. from + remaining \in Int BY <1>3
  <2> HIDE DEF C
  <2> QED BY <2>3, <2>4, <2>5, <2>6, GreatestInt
<1>6. /\ cursor \in cuts /\ cursor \in Int /\ from <= cursor
      /\ GrowthBetween(p, from, cursor) = G(cursor) /\ G(cursor) \in Int
      /\ G(cursor) < remaining
  <2>1. cursor \in cuts /\ GrowthBetween(p, from, cursor) < remaining BY <1>5
  <2> HIDE DEF cursor
  <2> QED BY <1>2, <1>4, <2>1
<1>7. \A d \in Boundaries(p) : d > cursor => G(d) \in Int /\ G(d) >= remaining
  <2> SUFFICES ASSUME NEW d \in Boundaries(p), d > cursor
               PROVE  G(d) \in Int /\ G(d) >= remaining
    OBVIOUS
  <2>1. d \in Int BY BoundariesType
  <2> HIDE DEF cursor, C
  <2>2. d \in cuts BY <1>6, <2>1 DEF cuts
  <2>3. d \notin C BY <1>5, <1>6, <2>1
  <2>4. ~ (GrowthBetween(p, from, d) < remaining) BY <2>2, <2>3 DEF C
  <2> QED BY <1>3, <1>4, <2>2, <2>4
<1> DEFINE m == remaining - G(cursor)
           r == Rate(p, cursor)
           q == Ceil(m, r)
           est == cursor + q
<1>8. Estimate(p, from) = est
  <2>1. Estimate(p, from) = cursor + Ceil(remaining - GrowthBetween(p, from, cursor), r)
    BY DEF Estimate, cuts, remaining
  <2> HIDE DEF cursor
  <2> QED BY <1>6, <2>1
<1> HIDE DEF cursor, C
<1>9. m \in Nat \ {0} /\ r \in Nat \ {0} BY <1>3, <1>6, RatePositive
<1> HIDE DEF m, r
<1>10. q \in Nat \ {0} /\ q * r >= m /\ (q - 1) * r < m BY <1>9, CeilIsLeast
<1> HIDE DEF q
<1>11. est \in Int /\ cursor < est BY <1>6, <1>10
\* No boundary lies between the cursor and the estimate.
<1>12. \A d \in Boundaries(p) : ~ (cursor < d /\ d < est)
  <2> SUFFICES ASSUME NEW d \in Boundaries(p), cursor < d, d < est PROVE FALSE
    OBVIOUS
  <2>1. d \in Int BY BoundariesType
  <2> DEFINE n == PieceEnd(p, cursor, d)
  <2>2. n \in Int /\ cursor < n /\ n <= d /\ \A b \in Boundaries(p) : ~ (cursor < b /\ b < n)
    BY <1>6, <2>1, PieceEndFacts
  <2>3. n \in Boundaries(p)
    <3> DEFINE S == {x \in Boundaries(p) \cup {d} : x > cursor}
    <3>1. S \in SUBSET Int /\ d \in S /\ \A x \in S : cursor <= x
      BY <1>6, <2>1, BoundariesType
    <3>2. Min(S) \in S
      <4> HIDE DEF S
      <4> QED BY <1>6, <3>1, LeastInt
    <3> QED BY <3>2 DEF PieceEnd
  <2> HIDE DEF n
  <2>4. G(n) \in Int /\ G(n) >= remaining BY <1>6, <1>7, <2>2, <2>3
  <2>5. G(n) = G(cursor) + Grown(p, cursor, n) BY <1>1, <1>6, <2>2, GrownSplit DEF G
  <2>6. Grown(p, cursor, n) = (n - cursor) * r
    BY <1>1, <1>6, <2>2, GrownPiece DEF Typed, r
  <2>7. (n - cursor) * r \in Int BY <1>6, <1>9, <2>2
  <2>8. (n - cursor) * r >= m BY <1>3, <1>6, <2>4, <2>5, <2>6, <2>7 DEF m
  <2>9. (q - 1) * r < (n - cursor) * r
    <3>1. (q - 1) * r \in Int BY <1>9, <1>10
    <3> QED BY <1>9, <1>10, <2>7, <2>8, <3>1
  <2>10. q - 1 < n - cursor BY <1>6, <1>9, <1>10, <2>2, <2>9, TimesPositive
  <2> QED BY <1>6, <1>10, <2>1, <2>2, <2>10
<1>13. G(est) = G(cursor) + q * r
  <2>1. Grown(p, cursor, est) = (est - cursor) * r
    BY <1>1, <1>6, <1>11, <1>12, GrownPiece DEF Typed, r
  <2>2. est - cursor = q BY <1>6, <1>10
  <2>3. G(est) = G(cursor) + Grown(p, cursor, est) BY <1>1, <1>6, <1>11, GrownSplit DEF G
  <2> QED BY <2>1, <2>2, <2>3
<1>14. G(est - 1) = G(cursor) + (q - 1) * r
  <2>1. CASE q = 1
    <3>1. est - 1 = cursor BY <1>6, <2>1
    <3>2. (q - 1) * r = 0 BY <1>9, <2>1
    <3> QED BY <1>6, <3>1, <3>2
  <2>2. CASE q > 1
    <3>1. est - 1 \in Int /\ cursor < est - 1 /\ est - 1 < est /\ from <= est - 1
      BY <1>6, <1>10, <2>2
    <3>2. \A d \in Boundaries(p) : ~ (cursor < d /\ d < est - 1)
      BY <1>11, <1>12, <3>1, BoundariesType
    <3> HIDE DEF est
    <3>3. Grown(p, cursor, est - 1) = (est - 1 - cursor) * r
      BY <1>1, <1>6, <3>1, <3>2, GrownPiece DEF Typed, r
    <3>4. est - 1 - cursor = q - 1 BY <1>6, <1>10 DEF est
    <3>5. G(est - 1) = G(cursor) + Grown(p, cursor, est - 1)
      BY <1>1, <1>6, <3>1, GrownSplit DEF G
    <3> QED BY <3>3, <3>4, <3>5
  <2> QED BY <1>10, <2>1, <2>2
<1>15. G(est) >= remaining /\ G(est - 1) < remaining
  <2>1. q * r \in Int /\ (q - 1) * r \in Int BY <1>9, <1>10
  <2> HIDE DEF est
  <2> QED BY <1>3, <1>6, <1>10, <1>13, <1>14, <2>1 DEF m
<1> QED BY <1>6, <1>8, <1>11, <1>15 DEF G, remaining

-----------------------------------------------------------------------------
(* Settling, and changing an effect.                                       *)

\* The estimate is the first millisecond of maturity, as seen from a time.
EstimateOK(p, from) ==
    /\ p.estimate \in Nat /\ p.estimate > from
    /\ Grown(p, from, p.estimate) >= Maturity - p.settled
    /\ Grown(p, from, p.estimate - 1) < Maturity - p.settled

\* Only the slots matter for growth.
LEMMA GrownOfSlots ==
    ASSUME NEW p, NEW q, q.fertilizer = p.fertilizer, q.pest = p.pest, NEW a, NEW b
    PROVE  Grown(q, a, b) = Grown(p, a, b)
BY DEF Grown

LEMMA ChangedFacts ==
    ASSUME NEW p \in Plots, OneEach(p), p.settled < Maturity, NEW from \in 0..MaxTime
    PROVE  /\ \E x \in Nat : Changed(p, from) = [p EXCEPT !.estimate = x]
           /\ EstimateOK(Changed(p, from), from)
<1> DEFINE x == Estimate(p, from)
           q == [p EXCEPT !.estimate = x]
<1>1. Typed(p) /\ p.settled \in Int /\ from \in Int BY DEF Plots, Typed
<1>2. /\ x \in Int /\ x > from /\ Grown(p, from, x) >= Maturity - p.settled
      /\ Grown(p, from, x - 1) < Maturity - p.settled
  BY <1>1, EstimateIsFirst
<1> HIDE DEF x
<1>3. x \in Nat BY <1>2
<1>4. /\ q.estimate = x /\ q.settled = p.settled
      /\ q.fertilizer = p.fertilizer /\ q.pest = p.pest
  BY DEF Plots
<1>5. Changed(p, from) = q BY DEF Changed, x
<1> HIDE DEF q
<1>6. Grown(q, from, x) = Grown(p, from, x) /\ Grown(q, from, x - 1) = Grown(p, from, x - 1)
  BY <1>4, GrownOfSlots
<1>7. EstimateOK(q, from) BY <1>2, <1>3, <1>4, <1>6 DEF EstimateOK
<1> QED BY <1>3, <1>5, <1>7 DEF q

LEMMA UnexpiredFacts ==
    ASSUME NEW slot \in SUBSET Effect, NEW t
    PROVE  /\ Unexpired(slot, t) \in SUBSET Effect
           /\ AtMostOne(slot) => AtMostOne(Unexpired(slot, t))
BY DEF Unexpired, AtMostOne

\* settleGrowingPlot, whatever the time of the job.
LEMMA SettleFacts ==
    ASSUME NEW p \in Plots, p.state = "GROWING", GrowingFields(p), NEW now \in Times,
           NEW s, s = Settle(p, now)
    PROVE  /\ s \in Plots /\ Fields(s)
           /\ s.planted = p.planted /\ s.stolen = 0 /\ s.thieves = {}
           /\ s.last = IF now > p.last THEN now ELSE p.last
           /\ \/ /\ s.state = "MATURE" /\ s.fertilizer = {} /\ s.pest = {}
                 /\ Grown(p, p.last, s.last) >= Maturity - p.settled
              \/ /\ s.state = "GROWING"
                 /\ s.settled = p.settled + Grown(p, p.last, s.last)
                 /\ s.fertilizer = Unexpired(p.fertilizer, s.last)
                 /\ s.pest = Unexpired(p.pest, s.last)
                 /\ EstimateOK(s, s.last)
<1> DEFINE until == IF now > p.last THEN now ELSE p.last
           delta == GrowthBetween(p, p.last, until)
           mature == [p EXCEPT !.state = "MATURE", !.settled = Maturity, !.last = until,
                               !.estimate = None, !.fertilizer = {}, !.pest = {}]
           grown == [p EXCEPT !.settled = @ + delta, !.last = until,
                              !.fertilizer = Unexpired(@, until), !.pest = Unexpired(@, until)]
<1>1. s = IF delta >= Maturity - p.settled THEN mature ELSE Changed(grown, until)
  BY DEF Settle, Changed
<1>2. /\ p.last \in 0..MaxTime /\ p.settled \in 0..Maturity /\ p.settled < Maturity
      /\ p.fertilizer \in SUBSET Effect /\ p.pest \in SUBSET Effect /\ OneEach(p) /\ Typed(p)
      /\ p.stolen = 0 /\ p.thieves = {}
  BY DEF Plots, GrowingFields, OneEach, Typed
<1>3. until \in 0..MaxTime /\ p.last <= until BY <1>2 DEF Times
<1> HIDE DEF until
<1>4. delta = Grown(p, p.last, until) /\ delta \in Nat
  <2>1. p.last \in Int /\ until \in Int /\ p.last <= until /\ FiniteSlots(p)
    BY <1>2, <1>3, OneEachFinite
  <2>2. delta = Grown(p, p.last, until) BY <1>2, <2>1, GrowthBetweenIsGrown
  <2>3. Grown(p, p.last, until) \in Int /\ Grown(p, p.last, until) >= until - p.last
    BY <1>2, <2>1, GrownPositive
  <2> QED BY <2>1, <2>2, <2>3
<1> HIDE DEF delta
<1>5. CASE delta >= Maturity - p.settled
  <2>1. s = mature BY <1>1, <1>5
  <2>2. /\ s \in Plots /\ s.state = "MATURE" /\ s.settled = Maturity /\ s.estimate = None
        /\ s.last = until /\ s.planted = p.planted /\ s.fertilizer = {} /\ s.pest = {}
        /\ s.stolen = 0 /\ s.thieves = {}
    <3>1. Maturity \in 0..Maturity /\ {} \in SUBSET Effect OBVIOUS
    <3> QED BY <1>2, <1>3, <2>1, <3>1, ZenonT(60) DEF Plots
  <2>3. Fields(s) BY <2>2 DEF Fields, Slots
  <2> QED BY <1>4, <1>5, <2>2, <2>3 DEF until
<1>6. CASE ~ (delta >= Maturity - p.settled)
  <2>1. s = Changed(grown, until) BY <1>1, <1>6
  <2>2. /\ Unexpired(p.fertilizer, until) \in SUBSET Effect
        /\ AtMostOne(Unexpired(p.fertilizer, until))
        /\ Unexpired(p.pest, until) \in SUBSET Effect /\ AtMostOne(Unexpired(p.pest, until))
    BY <1>2, UnexpiredFacts DEF OneEach
  <2>3. p.settled + delta \in 0..Maturity /\ p.settled + delta < Maturity BY <1>2, <1>4, <1>6
  <2>4. /\ grown \in Plots /\ grown.state = "GROWING" /\ grown.planted = p.planted
        /\ grown.settled = p.settled + delta /\ grown.last = until
        /\ grown.fertilizer = Unexpired(p.fertilizer, until)
        /\ grown.pest = Unexpired(p.pest, until)
        /\ grown.stolen = 0 /\ grown.thieves = {}
    BY <1>2, <1>3, <2>2, <2>3 DEF Plots
  <2> HIDE DEF grown
  <2>5. OneEach(grown) BY <2>2, <2>4 DEF OneEach
  <2>6. PICK x \in Nat : s = [grown EXCEPT !.estimate = x]
    BY <1>3, <2>1, <2>3, <2>4, <2>5, ChangedFacts
  <2>7. EstimateOK(s, until) BY <1>3, <2>1, <2>3, <2>4, <2>5, ChangedFacts
  <2>8. /\ s \in Plots /\ s.state = "GROWING" /\ s.planted = p.planted
        /\ s.settled = p.settled + delta /\ s.last = until /\ s.estimate = x
        /\ s.fertilizer = Unexpired(p.fertilizer, until) /\ s.pest = Unexpired(p.pest, until)
        /\ s.stolen = 0 /\ s.thieves = {}
    BY <2>4, <2>6 DEF Plots
  <2>9. Fields(s) BY <2>2, <2>3, <2>8 DEF Fields, GrowingFields, None
  <2> QED BY <1>4, <2>7, <2>8, <2>9 DEF until
<1> QED BY <1>5, <1>6

-----------------------------------------------------------------------------
(* Growth under the slots and under the history of effects.                *)

\* From the time up to which growth is settled, the slots hold what matters.
LEMMA SlotsAreFuture ==
    ASSUME NEW p \in Plots, NEW all \in Effects, EffectsKept(p, all),
           NEW a \in Int, NEW b \in Int, p.last <= a
    PROVE  Grown(p, a, b) = Grown(all, a, b)
<1>1. p.last \in Int BY DEF Plots
<1>2. ASSUME NEW slot \in SUBSET Effect, NEW u \in a..(b - 1)
      PROVE  ActiveAt(Unexpired(slot, p.last), u) = ActiveAt(slot, u)
  <2>1. \A e \in slot : e.end \in Int BY DEF Effect
  <2> QED BY <1>1, <2>1 DEF ActiveAt, Unexpired
<1>3. all.fertilizer \in SUBSET Effect /\ all.pest \in SUBSET Effect BY DEF Effects
<1>4. p.fertilizer = Unexpired(all.fertilizer, p.last) /\ p.pest = Unexpired(all.pest, p.last)
  BY DEF EffectsKept
<1>5. \A u \in a..(b - 1) : /\ ActiveAt(p.fertilizer, u) = ActiveAt(all.fertilizer, u)
                            /\ ActiveAt(p.pest, u) = ActiveAt(all.pest, u)
  BY <1>2, <1>3, <1>4
<1> QED BY <1>5, GrownSame

LEMMA EstimateExact ==
    ASSUME NEW p \in Plots, NEW all \in Effects, EffectsKept(p, all),
           p.planted <= p.last, p.settled = Grown(all, p.planted, p.last),
           EstimateOK(p, p.last)
    PROVE  GrowingExact(p, all)
<1> DEFINE a == p.planted  b == p.last  x == p.estimate  k == p.settled
<1>1. a \in Int /\ b \in Int /\ a <= b /\ k \in Int BY DEF Plots
<1>2. x \in Int /\ b < x /\ Grown(p, b, x) >= Maturity - k /\ Grown(p, b, x - 1) < Maturity - k
  BY DEF EstimateOK
<1>3. FiniteSlots(all) BY DEF EffectsKept, FiniteSlots
<1>4. k = Grown(all, a, b) OBVIOUS
<1>5. \A c \in Int : b <= c => Grown(p, b, c) = Grown(all, b, c)
  BY <1>1, SlotsAreFuture
<1> HIDE DEF a, b, x, k
<1>6. x - 1 \in Int /\ b <= x /\ b <= x - 1 BY <1>1, <1>2
<1>7. /\ Grown(all, a, x) = k + Grown(all, b, x)
      /\ Grown(all, a, x - 1) = k + Grown(all, b, x - 1)
  BY <1>1, <1>2, <1>3, <1>4, <1>6, GrownSplit
<1>8. Grown(all, b, x) = Grown(p, b, x) /\ Grown(all, b, x - 1) = Grown(p, b, x - 1)
  BY <1>2, <1>5, <1>6
<1>9. Grown(all, b, x) \in Int /\ Grown(all, b, x - 1) \in Int
  BY <1>1, <1>2, <1>3, <1>6, GrownType
<1>10. Grown(all, a, x) >= Maturity /\ Grown(all, a, x - 1) < Maturity
  BY <1>1, <1>2, <1>7, <1>8, <1>9
<1> QED BY <1>2, <1>10 DEF GrowingExact, a, b, x, k

\* Effects that have run out are removed from the slots.
LEMMA EffectsStillKept ==
    ASSUME NEW p \in Plots, NEW s \in Plots, NEW all \in Effects, EffectsKept(p, all),
           p.last <= s.last, s.planted = p.planted,
           s.fertilizer = Unexpired(p.fertilizer, s.last), s.pest = Unexpired(p.pest, s.last)
    PROVE  EffectsKept(s, all)
<1>1. p.last \in Int /\ s.last \in Int BY DEF Plots
<1>2. ASSUME NEW slot \in SUBSET Effect
      PROVE  Unexpired(Unexpired(slot, p.last), s.last) = Unexpired(slot, s.last)
  <2>1. \A e \in slot : e.end \in Int BY DEF Effect
  <2> QED BY <1>1, <2>1 DEF Unexpired
<1>3. all.fertilizer \in SUBSET Effect /\ all.pest \in SUBSET Effect BY DEF Effects
<1>4. s.fertilizer = Unexpired(all.fertilizer, s.last) /\ s.pest = Unexpired(all.pest, s.last)
  BY <1>2, <1>3 DEF EffectsKept
<1>5. \A e \in Slots(all) : s.planted <= e.start /\ e.start <= s.last
  <2>1. \A e \in Slots(all) : e.start \in Int BY <1>3 DEF Slots, Effect, Times
  <2> QED BY <1>1, <2>1 DEF EffectsKept
<1>6. \A e \in s.pest : e \in p.pest BY DEF Unexpired
<1> QED BY <1>4, <1>5, <1>6 DEF EffectsKept

\* Settling keeps growth exact.
LEMMA SettleExact ==
    ASSUME NEW p \in Plots, p.state = "GROWING", GrowingFields(p), NEW now \in Times,
           NEW all \in Effects, GrowingExact(p, all), p.last <= now,
           NEW s, s = Settle(p, now)
    PROVE  s.last = now /\ Exact(s, all)
<1>1. p.last \in Int /\ p.planted \in Int /\ p.settled \in Int /\ now \in Int BY DEF Plots, Times
<1>2. s \in Plots /\ s.planted = p.planted /\ s.last = now
  BY <1>1, SettleFacts
<1>3. EffectsKept(p, all) /\ p.planted <= p.last /\ p.settled = Grown(all, p.planted, p.last)
  BY DEF GrowingExact
<1>4. Grown(all, p.planted, now) = p.settled + Grown(p, p.last, now)
      /\ Grown(p, p.last, now) \in Int
  <2>1. FiniteSlots(all) BY <1>3 DEF EffectsKept, FiniteSlots
  <2>2. Grown(all, p.planted, now) = Grown(all, p.planted, p.last) + Grown(all, p.last, now)
    BY <1>1, <1>3, <2>1, GrownSplit
  <2>3. Grown(p, p.last, now) = Grown(all, p.last, now) BY <1>1, <1>3, SlotsAreFuture
  <2>4. Grown(all, p.last, now) \in Int BY <1>1, <2>1, GrownType
  <2> QED BY <1>3, <2>2, <2>3, <2>4
<1>5. p.planted <= now BY <1>1, <1>3
<1>6. CASE s.state = "MATURE"
  <2>1. Grown(p, p.last, now) >= Maturity - p.settled BY <1>2, <1>6, SettleFacts
  <2>2. Grown(all, s.planted, s.last) >= Maturity BY <1>1, <1>2, <1>4, <2>1
  <2> QED BY <1>2, <1>5, <1>6, <2>2 DEF Exact, MatureExact
<1>7. CASE s.state = "GROWING"
  <2>1. /\ s.settled = p.settled + Grown(p, p.last, s.last)
        /\ s.fertilizer = Unexpired(p.fertilizer, s.last)
        /\ s.pest = Unexpired(p.pest, s.last)
        /\ EstimateOK(s, s.last)
    BY <1>7, SettleFacts
  <2>2. EffectsKept(s, all) BY <1>1, <1>2, <1>3, <2>1, EffectsStillKept
  <2>3. GrowingExact(s, all) BY <1>2, <1>4, <1>5, <2>1, <2>2, EstimateExact
  <2> QED BY <1>2, <1>7, <2>3 DEF Exact
<1> QED BY <1>6, <1>7, SettleFacts

\* materializeDueMaturities, whatever the time of the job, and in order.
LEMMA MaterializeFacts ==
    ASSUME NEW p \in Plots, Fields(p), NEW now \in Times, NEW m, m = Materialize(p, now)
    PROVE  /\ m \in Plots /\ Fields(m)
           /\ m.planted = p.planted /\ m.stolen = p.stolen /\ m.thieves = p.thieves
           /\ m = p \/ (p.state = "GROWING" /\ m.state \in {"GROWING", "MATURE"})
           /\ m.last = p.last \/ m.last = now
<1>1. CASE m = p BY <1>1
<1>2. CASE p.state = "GROWING" /\ m = Settle(p, now)
  <2>1. GrowingFields(p) BY <1>2 DEF Fields
  <2>2. /\ m \in Plots /\ Fields(m)
        /\ m.planted = p.planted /\ m.stolen = 0 /\ m.thieves = {}
        /\ m.last = IF now > p.last THEN now ELSE p.last
        /\ m.state \in {"MATURE", "GROWING"}
    BY <1>2, <2>1, SettleFacts
  <2> QED BY <1>2, <2>1, <2>2 DEF GrowingFields
<1> QED BY <1>1, <1>2 DEF Materialize

LEMMA MaterializeExact ==
    ASSUME NEW p \in Plots, Fields(p), NEW now \in Times, NEW all \in Effects,
           p.last <= now, Exact(p, all), NEW m, m = Materialize(p, now)
    PROVE  m.last <= now /\ Exact(m, all)
<1>1. CASE m = p BY <1>1
<1>2. CASE p.state = "GROWING" /\ m = Settle(p, now)
  <2>1. GrowingFields(p) /\ GrowingExact(p, all) BY <1>2 DEF Fields, Exact
  <2>2. m.last = now /\ Exact(m, all) BY <1>2, <2>1, SettleExact
  <2> QED BY <2>2 DEF Times
<1> QED BY <1>1, <1>2 DEF Materialize

-----------------------------------------------------------------------------
(* An effect begins or is removed.                                         *)

LEMMA ChangeFacts ==
    ASSUME NEW r \in Plots, r.state = "GROWING", GrowingFields(r), NEW now \in Times,
           NEW q, q = Changed(r, now)
    PROVE  /\ q \in Plots /\ q.state = "GROWING" /\ Fields(q) /\ EstimateOK(q, now)
           /\ q.planted = r.planted /\ q.last = r.last /\ q.settled = r.settled
           /\ q.fertilizer = r.fertilizer /\ q.pest = r.pest
           /\ q.stolen = 0 /\ q.thieves = {}
<1>1. OneEach(r) /\ r.settled < Maturity /\ r.stolen = 0 /\ r.thieves = {}
  BY DEF GrowingFields, OneEach
<1>2. now \in 0..MaxTime BY DEF Times
<1>3. PICK x \in Nat : q = [r EXCEPT !.estimate = x] BY <1>1, <1>2, ChangedFacts
<1>4. EstimateOK(q, now) BY <1>1, <1>2, ChangedFacts
<1>5. /\ q \in Plots /\ q.state = "GROWING" /\ q.estimate = x
      /\ q.planted = r.planted /\ q.last = r.last /\ q.settled = r.settled
      /\ q.fertilizer = r.fertilizer /\ q.pest = r.pest
      /\ q.stolen = 0 /\ q.thieves = {}
  BY <1>1, <1>3 DEF Plots
<1>6. Fields(q) BY <1>1, <1>5 DEF Fields, GrowingFields, OneEach, None
<1> QED BY <1>4, <1>5, <1>6

\* What a job is given.
LEMMA RunsFacts ==
    ASSUME TypeOK, NEW w \in Workers, Runs(w)
    PROVE  /\ job[w] \in Times /\ job' \in [Workers -> Times \cup {None}]
           /\ clock' = clock /\ reordered' \in BOOLEAN
           /\ latest' \in 0..MaxTime /\ latest <= latest' /\ job[w] <= latest'
           /\ ~reordered' => ~reordered /\ latest <= job[w]
<1>1. job[w] \in Times /\ job[w] \in Int /\ job[w] \in 0..MaxTime BY DEF TypeOK, Runs, Times
<1>2. job' \in [Workers -> Times \cup {None}] BY DEF TypeOK, Runs
<1>3. reordered \in BOOLEAN /\ latest \in 0..MaxTime BY DEF TypeOK
<1>4. /\ latest' = IF job[w] > latest THEN job[w] ELSE latest
      /\ reordered' = (reordered \/ job[w] < latest) /\ clock' = clock
  BY DEF Runs
<1>5. latest' \in 0..MaxTime /\ latest <= latest' /\ job[w] <= latest' BY <1>1, <1>3, <1>4
<1>6. reordered' \in BOOLEAN BY <1>3, <1>4
<1>7. ~reordered' => ~reordered /\ latest <= job[w]
  <2> HAVE ~reordered'
  <2>1. ~reordered /\ ~(job[w] < latest) BY <1>4, Zenon
  <2>2. latest <= job[w] BY <1>1, <1>3, <2>1
  <2> QED BY <2>1, <2>2
<1> QED BY <1>1, <1>2, <1>4, <1>5, <1>6, <1>7

\* The plot goes on growing with changed slots.
LEMMA ChangedInv ==
    ASSUME Inv, NEW w \in Workers, Runs(w), plot.state = "GROWING",
           NEW r \in Plots, r.state = "GROWING", GrowingFields(r),
           plot' = Changed(r, job[w]), effects' \in Effects, UNCHANGED gathered,
           ~reordered' => /\ r.last = job[w] /\ r.planted <= r.last
                          /\ EffectsKept(r, effects')
                          /\ r.settled = Grown(effects', r.planted, r.last)
    PROVE  Inv'
<1> DEFINE now == job[w]
<1>1. TypeOK BY DEF Inv
<1>2. /\ now \in Times /\ job' \in [Workers -> Times \cup {None}] /\ clock' = clock
      /\ reordered' \in BOOLEAN /\ latest' \in 0..MaxTime /\ now <= latest'
  BY <1>1, RunsFacts
<1>3. /\ plot' \in Plots /\ plot'.state = "GROWING" /\ Fields(plot') /\ EstimateOK(plot', now)
      /\ plot'.planted = r.planted /\ plot'.last = r.last /\ plot'.settled = r.settled
      /\ plot'.fertilizer = r.fertilizer /\ plot'.pest = r.pest
      /\ plot'.stolen = 0 /\ plot'.thieves = {}
  BY <1>2, ChangeFacts
<1>4. TypeOK' BY <1>1, <1>2, <1>3 DEF TypeOK
<1>5. gathered'.visitors = 0 BY DEF Inv, Thefts, Fields, GrowingFields
<1>6. Thefts' /\ YieldShared'
  BY <1>3, <1>5, FS_EmptySet DEF Thefts, YieldShared
<1>7. ~reordered' => plot'.last <= latest' /\ Exact(plot', effects')
  <2> HAVE ~reordered'
  <2>1. plot'.last = now /\ plot'.planted <= plot'.last BY <1>3
  <2>2. EffectsKept(plot', effects') BY <1>3 DEF EffectsKept
  <2>3. plot'.settled = Grown(effects', plot'.planted, plot'.last) BY <1>3
  <2>4. GrowingExact(plot', effects') BY <1>3, <2>1, <2>2, <2>3, EstimateExact
  <2> QED BY <1>2, <1>3, <2>1, <2>4 DEF Exact
<1> QED BY <1>3, <1>4, <1>6, <1>7 DEF Inv

\* An effect that begins at b changes nothing before.
LEMMA BeginsLater ==
    ASSUME NEW slot, NEW e \in Effect, NEW a \in Int
    PROVE  Exposure(slot \cup {e}, a, e.start) = Exposure(slot, a, e.start)
<1>1. e.start \in Int BY DEF Effect, Times
<1>2. ASSUME NEW u \in a..(e.start - 1)
      PROVE  ActiveAt(slot \cup {e}, u) = ActiveAt(slot, u)
  <2>1. ~ (e.start <= u) BY <1>1
  <2> QED BY <2>1 DEF ActiveAt
<1>3. \A u \in a..(e.start - 1) : ActiveAt(slot \cup {e}, u) = ActiveAt(slot, u) BY <1>2
<1> QED BY <1>1, <1>3, ExposureSame, ZenonT(60)

\* A pest that is caught at now counts up to then, as it did before.
LEMMA CaughtCounts ==
    ASSUME NEW rest, IsFiniteSet(rest), NEW e \in Effect, e \notin rest,
           \A f \in rest : f.end <= e.start, NEW now \in Int, now < e.end,
           NEW d, d.start = e.start, d.end = now, NEW a \in Int
    PROVE  Cardinality(Exposure(rest \cup {d}, a, now)) =
             Cardinality(Exposure(rest \cup {e}, a, now))
<1> DEFINE U == {u \in a..(now - 1) : u >= e.start}
<1>1. e.start \in Int /\ e.end \in Int BY DEF Effect, Times
<1>2. d.start = e.start /\ d.end = now OBVIOUS
<1>3. Exposure({e}, a, now) = U \X {e} BY <1>1 DEF Exposure
<1>4. Exposure({d}, a, now) = U \X {d} BY <1>1, <1>2 DEF Exposure
<1>5. IsFiniteSet(U)
  <2>1. IsFiniteSet(a..(now - 1)) BY <1>1, FS_Interval
  <2> QED BY <2>1, FS_Subset
<1>6. IsFiniteSet({e}) /\ IsFiniteSet({d}) BY FS_Singleton
<1> HIDE DEF U
<1>7. Cardinality(Exposure({e}, a, now)) = Cardinality(Exposure({d}, a, now))
  <2>1. \A x : Cardinality(U \X {x}) = Cardinality(U)
    <3> TAKE x
    <3>1. IsFiniteSet({x}) /\ Cardinality({x}) = 1 BY FS_Singleton
    <3>2. Cardinality(U \X {x}) = Cardinality(U) * Cardinality({x}) BY <1>5, <3>1, FS_Product
    <3>3. Cardinality(U) \in Nat BY <1>5, FS_CardinalityType
    <3> QED BY <3>1, <3>2, <3>3
  <2> QED BY <1>3, <1>4, <2>1
<1>8. ASSUME NEW x, x \notin rest
      PROVE  Cardinality(Exposure(rest \cup {x}, a, now)) =
               Cardinality(Exposure(rest, a, now)) + Cardinality(Exposure({x}, a, now))
  <2> DEFINE S == Exposure(rest, a, now)
             T == Exposure({x}, a, now)
  <2>1. Exposure(rest \cup {x}, a, now) = S \cup T BY DEF Exposure
  <2>2. S \cap T = {}
    <3>1. \A y \in S : y[2] \in rest BY DEF Exposure
    <3>2. \A y \in T : y[2] = x BY DEF Exposure
    <3> QED BY <1>8, <3>1, <3>2
  <2>3. IsFiniteSet({x}) BY FS_Singleton
  <2>4. IsFiniteSet(S) /\ IsFiniteSet(T) /\ Cardinality(S) \in Nat /\ Cardinality(T) \in Nat
    BY <1>1, <1>6, <2>3, ExposureFinite
  <2> HIDE DEF S, T
  <2>5. Cardinality(S \cup T) = Cardinality(S) + Cardinality(T) - Cardinality(S \cap T)
    BY <2>4, FS_Union
  <2>6. Cardinality(S \cap T) = 0 BY <2>2, FS_EmptySet
  <2>7. Cardinality(S \cup T) = Cardinality(S) + Cardinality(T) BY <2>4, <2>5, <2>6
  <2> QED BY <2>1, <2>7 DEF S, T
<1>9. CASE d \notin rest BY <1>7, <1>8, <1>9
<1>10. CASE d \in rest
  <2>1. now <= e.start BY <1>2, <1>10
  <2>2. U = {} BY <1>1, <2>1 DEF U
  <2>3. Exposure({e}, a, now) = {} BY <1>3, <2>2
  <2>4. Exposure(rest \cup {e}, a, now) = Exposure(rest, a, now) \cup Exposure({e}, a, now)
    BY DEF Exposure
  <2>5. rest \cup {d} = rest BY <1>10
  <2> QED BY <2>3, <2>4, <2>5
<1> QED BY <1>9, <1>10

\* An effect that begins when growth has just been settled is the only one in
\* its slot that has not run out.
LEMMA FertilizerBegins ==
    ASSUME NEW s \in Plots, NEW all \in Effects, EffectsKept(s, all), s.planted <= s.last,
           s.fertilizer = {}, NEW e \in Effect, e.start = s.last, e.end > s.last,
           NEW r, r = [s EXCEPT !.fertilizer = {e}],
           NEW more, more = [all EXCEPT !.fertilizer = @ \cup {e}]
    PROVE  more \in Effects /\ EffectsKept(r, more)
<1>1. /\ more.fertilizer = all.fertilizer \cup {e} /\ more.pest = all.pest
      /\ more \in Effects
  BY DEF Effects
<1>2. r.fertilizer = {e} /\ r.pest = s.pest /\ r.last = s.last /\ r.planted = s.planted
  BY DEF Plots
<1>3. Unexpired(all.fertilizer \cup {e}, s.last) = {e} BY DEF EffectsKept, Unexpired
<1>4. IsFiniteSet(more.fertilizer) /\ IsFiniteSet(more.pest)
  BY <1>1, FS_AddElement DEF EffectsKept
<1>5. \A f \in Slots(more) : s.planted <= f.start /\ f.start <= s.last
  <2>1. \A f \in Slots(more) : f \in Slots(all) \/ f = e BY <1>1 DEF Slots
  <2>2. s.last <= s.last BY DEF Plots
  <2> QED BY <2>1, <2>2 DEF EffectsKept
<1> QED BY <1>1, <1>2, <1>3, <1>4, <1>5 DEF EffectsKept

LEMMA PestBegins ==
    ASSUME NEW s \in Plots, NEW all \in Effects, EffectsKept(s, all), s.planted <= s.last,
           s.pest = {}, NEW e \in Effect, e.start = s.last, e.end > s.last,
           NEW r, r = [s EXCEPT !.pest = {e}],
           NEW more, more = [all EXCEPT !.pest = @ \cup {e}]
    PROVE  more \in Effects /\ EffectsKept(r, more)
<1>1. /\ more.pest = all.pest \cup {e} /\ more.fertilizer = all.fertilizer
      /\ more \in Effects
  BY DEF Effects
<1>2. r.pest = {e} /\ r.fertilizer = s.fertilizer /\ r.last = s.last /\ r.planted = s.planted
  BY DEF Plots
<1>3. Unexpired(all.pest \cup {e}, s.last) = {e} BY DEF EffectsKept, Unexpired
<1>4. IsFiniteSet(more.fertilizer) /\ IsFiniteSet(more.pest)
  BY <1>1, FS_AddElement DEF EffectsKept
<1>5. \A f \in Slots(more) : s.planted <= f.start /\ f.start <= s.last
  <2>1. \A f \in Slots(more) : f \in Slots(all) \/ f = e BY <1>1 DEF Slots
  <2>2. s.last <= s.last BY DEF Plots
  <2> QED BY <2>1, <2>2 DEF EffectsKept
<1>6. \A f \in all.pest : f.end <= e.start
  <2>1. \A f \in all.pest : ~(f.end > s.last) BY DEF EffectsKept, Unexpired
  <2>2. s.last \in Int /\ \A f \in all.pest : f.end \in Int BY DEF Plots, Effects, Effect
  <2> QED BY <2>1, <2>2
<1> QED BY <1>1, <1>2, <1>3, <1>4, <1>5, <1>6 DEF EffectsKept

\* A pest that is caught has then run out.
LEMMA PestCaught ==
    ASSUME NEW s \in Plots, NEW all \in Effects, EffectsKept(s, all), s.last \in Times,
           NEW e \in Effect, s.pest = {e},
           NEW r, r = [s EXCEPT !.pest = {}],
           NEW less, less = [all EXCEPT !.pest = (@ \ {e}) \cup {[e EXCEPT !.end = s.last]}]
    PROVE  /\ less \in Effects /\ EffectsKept(r, less)
           /\ \A a \in Int : Grown(less, a, s.last) = Grown(all, a, s.last)
<1> DEFINE d == [e EXCEPT !.end = s.last]
<1>0. s.last \in Int /\ s.last \in Nat BY DEF Times
<1>1. d \in Effect /\ d.start = e.start /\ d.end = s.last BY <1>0 DEF Effect
<1> HIDE DEF d
<1>2. /\ less.pest = (all.pest \ {e}) \cup {d} /\ less.fertilizer = all.fertilizer
      /\ less \in Effects
  BY <1>1 DEF Effects, d
<1>3. r.pest = {} /\ r.fertilizer = s.fertilizer /\ r.last = s.last /\ r.planted = s.planted
  BY DEF Plots
<1>4. e \in all.pest /\ e.end > s.last BY DEF EffectsKept, Unexpired
<1>5. \A f \in all.pest \ {e} : f.end <= e.start BY DEF EffectsKept
<1>6. Unexpired(less.pest, s.last) = {}
  <2>1. \A f \in all.pest \ {e} : ~(f.end > s.last) BY DEF EffectsKept, Unexpired
  <2>2. ~(d.end > s.last) BY <1>0, <1>1
  <2> QED BY <1>2, <2>1, <2>2 DEF Unexpired
<1>7. IsFiniteSet(less.fertilizer) /\ IsFiniteSet(less.pest)
  <2>1. IsFiniteSet(all.fertilizer) /\ IsFiniteSet(all.pest) BY DEF EffectsKept
  <2>2. IsFiniteSet(all.pest \ {e}) BY <2>1, FS_RemoveElement
  <2>3. IsFiniteSet((all.pest \ {e}) \cup {d}) BY <2>2, FS_AddElement
  <2> QED BY <1>2, <2>1, <2>3
<1>8. \A f \in Slots(less) : s.planted <= f.start /\ f.start <= s.last
  <2>1. \A f \in Slots(less) : f \in Slots(all) \/ f = d BY <1>2 DEF Slots
  <2>2. e \in Slots(all) BY <1>4 DEF Slots
  <2> QED BY <1>1, <2>1, <2>2 DEF EffectsKept
<1>9. EffectsKept(r, less) BY <1>2, <1>3, <1>6, <1>7, <1>8 DEF EffectsKept
<1>10. ASSUME NEW a \in Int PROVE Grown(less, a, s.last) = Grown(all, a, s.last)
  <2>1. IsFiniteSet(all.pest) /\ s.last < e.end
    <3>1. e.end \in Int BY DEF Effect
    <3> QED BY <1>0, <1>4, <3>1 DEF EffectsKept
  <2> DEFINE rest == all.pest \ {e}
  <2>2. IsFiniteSet(rest) BY <2>1, FS_RemoveElement
  <2>3. /\ e \notin rest /\ \A f \in rest : f.end <= e.start
        /\ less.pest = rest \cup {d} /\ all.pest = rest \cup {e}
    BY <1>2, <1>4, <1>5
  <2> HIDE DEF rest
  <2>4. Cardinality(Exposure(rest \cup {d}, a, s.last)) =
          Cardinality(Exposure(rest \cup {e}, a, s.last))
    BY <1>0, <1>1, <2>1, <2>2, <2>3, CaughtCounts, SMTT(60)
  <2> QED BY <1>2, <2>3, <2>4 DEF Grown
<1> QED BY <1>2, <1>9, <1>10

\* What a change of effects starts from: growth settled, and not mature.
LEMMA SettledForChange ==
    ASSUME NEW p \in Plots, p.state = "GROWING", GrowingFields(p), NEW now \in Times,
           ~Matures(p, now), NEW s, s = SettledFirst(p, now)
    PROVE  /\ s \in Plots /\ s.state = "GROWING" /\ GrowingFields(s)
           /\ s.fertilizer = Unexpired(p.fertilizer, s.last)
           /\ s.pest = Unexpired(p.pest, s.last)
<1>1. s = Settle(p, now) /\ s.state # "MATURE" BY DEF Matures, SettledFirst
<1>2. /\ s \in Plots /\ Fields(s) /\ s.state = "GROWING"
      /\ s.fertilizer = Unexpired(p.fertilizer, s.last)
      /\ s.pest = Unexpired(p.pest, s.last)
  BY <1>1, SettleFacts
<1> QED BY <1>2 DEF Fields

LEMMA SettledForChangeExact ==
    ASSUME NEW p \in Plots, p.state = "GROWING", GrowingFields(p), NEW now \in Times,
           ~Matures(p, now), NEW s, s = SettledFirst(p, now),
           NEW all \in Effects, Exact(p, all), p.last <= now
    PROVE  /\ s.last = now /\ s.planted <= s.last /\ EffectsKept(s, all)
           /\ s.settled = Grown(all, s.planted, s.last)
<1>1. GrowingExact(p, all) /\ s = Settle(p, now) BY DEF Exact, SettledFirst
<1>2. s.last = now /\ Exact(s, all) BY <1>1, SettleExact
<1>3. s.state = "GROWING" BY SettledForChange
<1> QED BY <1>2, <1>3 DEF Exact, GrowingExact

-----------------------------------------------------------------------------
(* The actions.                                                            *)

\* A job that runs in order finds the plot as exact as the invariant says.
LEMMA RunsInOrder ==
    ASSUME Inv, NEW w \in Workers, Runs(w), ~reordered'
    PROVE  plot.last <= job[w] /\ Exact(plot, effects)
<1>1. TypeOK BY DEF Inv
<1>2. ~reordered /\ latest <= job[w] /\ job[w] \in Times BY <1>1, RunsFacts
<1>3. plot.last <= latest /\ Exact(plot, effects) BY <1>2 DEF Inv
<1>4. plot.last \in Int /\ latest \in Int /\ job[w] \in Int BY <1>1, <1>2 DEF TypeOK, Plots, Times
<1> QED BY <1>2, <1>3, <1>4

LEMMA RunsType ==
    ASSUME TypeOK, NEW w \in Workers, Runs(w), plot' \in Plots, effects' \in Effects,
           gathered' \in [owner : Nat, visitors : Nat]
    PROVE  TypeOK'
<1>1. /\ job' \in [Workers -> Times \cup {None}] /\ clock' = clock
      /\ reordered' \in BOOLEAN /\ latest' \in 0..MaxTime
  BY RunsFacts
<1> QED BY <1>1 DEF TypeOK

LEMMA InitInv == Init => Inv
<1> SUFFICES ASSUME Init PROVE Inv OBVIOUS
<1> USE DEF Init
<1>1. Empty \in Plots BY DEF Empty, Plots, None
<1>2. TypeOK
  <2>1. 1 \in Times /\ 0 \in 0..MaxTime /\ {} \in SUBSET Effect BY DEF Times
  <2>2. job \in [Workers -> Times \cup {None}] OBVIOUS
  <2>3. effects \in Effects BY <2>1 DEF Effects, NoEffects
  <2>4. gathered \in [owner : Nat, visitors : Nat] OBVIOUS
  <2>5. reordered \in BOOLEAN OBVIOUS
  <2> QED BY <1>1, <2>1, <2>2, <2>3, <2>4, <2>5 DEF TypeOK
<1>3. /\ plot.state = "EMPTY" /\ plot.last = 0 /\ plot.stolen = 0 /\ plot.thieves = {}
      /\ gathered.visitors = 0
  BY DEF Empty
<1>4. Fields(plot) /\ YieldShared BY <1>3 DEF Fields, YieldShared
<1>5. Thefts BY <1>3, FS_EmptySet DEF Thefts
<1>6. plot.last <= latest /\ Exact(plot, effects) BY <1>3 DEF Exact
<1> QED BY <1>2, <1>4, <1>5, <1>6 DEF Inv

\* Steps that leave the plot and its histories alone.
LEMMA SamePlot ==
    ASSUME Inv, UNCHANGED <<plot, latest, reordered, effects, gathered>>,
           clock' \in Times, job' \in [Workers -> Times \cup {None}]
    PROVE  Inv'
BY DEF Inv, TypeOK, Thefts, YieldShared

LEMMA AdvanceInv == ASSUME Inv, Advance PROVE Inv'
<1>1. clock \in Times /\ clock' \in Times BY DEF Inv, TypeOK, Advance, Times
<1> QED BY <1>1, SamePlot DEF Advance, Inv, TypeOK

LEMMA ReadClockInv == ASSUME Inv, NEW w \in Workers, ReadClock(w) PROVE Inv'
<1>1. clock \in Times /\ job \in [Workers -> Times \cup {None}] BY DEF Inv, TypeOK
<1>2. job' \in [Workers -> Times \cup {None}] BY <1>1 DEF ReadClock
<1> QED BY <1>1, <1>2, SamePlot DEF ReadClock

LEMMA TickInv == ASSUME Inv, NEW w \in Workers, Tick(w) PROVE Inv'
<1> DEFINE now == job[w]
<1>1. TypeOK /\ Runs(w) /\ plot \in Plots /\ Fields(plot) /\ Thefts /\ YieldShared
  BY DEF Inv, Tick, TypeOK
<1>2. now \in Times /\ now <= latest' /\ latest' \in 0..MaxTime BY <1>1, RunsFacts
<1>3. /\ plot' \in Plots /\ Fields(plot') /\ plot'.last \in Int
      /\ plot'.stolen = plot.stolen /\ plot'.thieves = plot.thieves
      /\ plot' = plot \/ (plot.state = "GROWING" /\ plot'.state \in {"GROWING", "MATURE"})
  <2>1. plot' = Materialize(plot, now) BY DEF Tick
  <2>2. plot' \in Plots BY <1>1, <1>2, <2>1, MaterializeFacts
  <2>3. plot'.last \in Int BY <2>2 DEF Plots
  <2> QED BY <1>1, <1>2, <2>1, <2>2, <2>3, MaterializeFacts
<1>4. TypeOK' BY <1>1, <1>3, RunsType DEF Tick, TypeOK
<1>5. gathered' = gathered BY DEF Tick
<1>6. Thefts' /\ YieldShared' BY <1>1, <1>3, <1>5 DEF Thefts, YieldShared
<1>7. ~reordered' => plot'.last <= latest' /\ Exact(plot', effects')
  <2> HAVE ~reordered'
  <2>1. plot.last <= now /\ Exact(plot, effects) BY <1>1, RunsInOrder
  <2>2. plot'.last <= now /\ Exact(plot', effects)
    BY <1>1, <1>2, <2>1, MaterializeExact DEF Tick, TypeOK
  <2>3. now \in Int /\ latest' \in Int BY <1>2 DEF Times
  <2> QED BY <1>2, <1>3, <2>2, <2>3 DEF Tick
<1> QED BY <1>3, <1>4, <1>6, <1>7 DEF Inv

\* A crop without effects.
LEMMA GrownBare ==
    ASSUME NEW a \in Int, NEW k \in Int
    PROVE  Grown(NoEffects, a, a + k) = k * BaseRate
<1>1. Exposure({}, a, a + k) = {} BY DEF Exposure
<1>2. Cardinality({}) = 0 BY FS_EmptySet
<1>3. NoEffects.fertilizer = {} /\ NoEffects.pest = {} BY DEF NoEffects
<1>4. Grown(NoEffects, a, a + k) = BaseRate * ((a + k) - a) + FertilizerRate * 0 + PestRate * 0
  BY <1>1, <1>2, <1>3 DEF Grown
<1>5. (a + k) - a = k OBVIOUS
<1>6. BaseRate * k = k * BaseRate /\ k * BaseRate \in Int OBVIOUS
<1> QED BY <1>4, <1>5, <1>6

LEMMA PlantInv == ASSUME Inv, NEW w \in Workers, Plant(w) PROVE Inv'
<1> DEFINE now == job[w]
           n == Ceil(Maturity, BaseRate)
           x == now + n
<1>1. TypeOK /\ Runs(w) BY DEF Inv, Plant
<1>2. now \in Times /\ now \in 0..MaxTime /\ now \in Int /\ now <= latest'
  BY <1>1, RunsFacts DEF Times
<1>3. n \in Nat \ {0} /\ n * BaseRate >= Maturity /\ (n - 1) * BaseRate < Maturity
  BY CeilIsLeast
<1>4. plot' = [Empty EXCEPT !.state = "GROWING", !.planted = now, !.last = now, !.estimate = x]
  BY DEF Plant, Planted
<1> HIDE DEF n
<1>5. x \in Nat /\ now < x /\ x = now + n /\ x - 1 = now + (n - 1)
      /\ n \in Int /\ n - 1 \in Int
  BY <1>2, <1>3
<1> HIDE DEF x, now
<1>6. /\ plot' \in Plots /\ plot'.state = "GROWING" /\ plot'.planted = now /\ plot'.settled = 0
      /\ plot'.last = now /\ plot'.estimate = x
      /\ plot'.fertilizer = {} /\ plot'.pest = {} /\ plot'.stolen = 0 /\ plot'.thieves = {}
  <2>1. 0 \in 0..Maturity OBVIOUS
  <2> QED BY <1>2, <1>4, <1>5, <2>1 DEF Empty, Plots
<1>7. effects' = NoEffects /\ gathered' = [owner |-> 0, visitors |-> 0] BY DEF Plant
<1>8. TypeOK' BY <1>1, <1>6, <1>7, RunsType DEF NoEffects, Effects
<1>9. Fields(plot') BY <1>5, <1>6 DEF Fields, GrowingFields, AtMostOne, None
<1>10. Thefts' /\ YieldShared' BY <1>6, <1>7, FS_EmptySet DEF Thefts, YieldShared
<1>11. GrowingExact(plot', effects')
  <2>1. Grown(NoEffects, now, now) = 0 BY <1>2, GrownNothing
  <2>2. Grown(NoEffects, now, x) = n * BaseRate BY <1>2, <1>5, GrownBare
  <2>3. Grown(NoEffects, now, x - 1) = (n - 1) * BaseRate BY <1>2, <1>5, GrownBare
  <2>4. EffectsKept(plot', NoEffects)
    BY <1>6, FS_EmptySet DEF EffectsKept, NoEffects, Slots, Unexpired
  <2>5. Grown(NoEffects, now, x) >= Maturity /\ Grown(NoEffects, now, x - 1) < Maturity
    BY <1>3, <2>2, <2>3
  <2>6. now <= now BY <1>2
  <2> QED BY <1>5, <1>6, <1>7, <2>1, <2>4, <2>5, <2>6 DEF GrowingExact
<1> QED BY <1>2, <1>6, <1>8, <1>9, <1>10, <1>11 DEF Inv, Exact

LEMMA ApplyFertilizerInv == ASSUME Inv, NEW w \in Workers, ApplyFertilizer(w) PROVE Inv'
<1> DEFINE now == job[w]
           p == Materialize(plot, now)
           e == FertilizerEffect(now)
           s == SettledFirst(p, now)
           r == [s EXCEPT !.fertilizer = {e}]
<1>1. /\ TypeOK /\ Runs(w) /\ plot \in Plots /\ Fields(plot) /\ effects \in Effects
      /\ p.state = "GROWING" /\ ~Matures(p, now) /\ plot' = Changed(r, now)
      /\ (\A f \in p.fertilizer : now >= f.end)
      /\ effects' = [effects EXCEPT !.fertilizer = @ \cup {e}] /\ UNCHANGED gathered
  BY DEF Inv, ApplyFertilizer, TypeOK
<1>2. now \in Times BY <1>1, RunsFacts
<1>3. e \in Effect /\ e.start = now /\ e.end > now
  BY <1>2 DEF FertilizerEffect, Effect, Times
<1>4. p \in Plots /\ GrowingFields(p) /\ plot.state = "GROWING"
  BY <1>1, <1>2, MaterializeFacts DEF Fields
<1> HIDE DEF p, e
<1>5. /\ s \in Plots /\ s.state = "GROWING" /\ GrowingFields(s)
      /\ s.fertilizer = Unexpired(p.fertilizer, s.last)
  BY <1>1, <1>2, <1>4, SettledForChange
<1> HIDE DEF s
<1>6. /\ r \in Plots /\ r.state = "GROWING" /\ GrowingFields(r)
      /\ r.last = s.last /\ r.planted = s.planted /\ r.settled = s.settled
  BY <1>3, <1>5 DEF Plots, GrowingFields, AtMostOne
<1>7. effects' \in Effects BY <1>1, <1>3 DEF Effects
<1>8. ASSUME ~reordered'
      PROVE  /\ r.last = now /\ r.planted <= r.last /\ EffectsKept(r, effects')
             /\ r.settled = Grown(effects', r.planted, r.last)
  <2>1. plot.last <= now /\ Exact(plot, effects) BY <1>1, <1>8, RunsInOrder
  <2>2. p.last <= now /\ Exact(p, effects) BY <1>1, <1>2, <2>1, MaterializeExact DEF p
  <2>3. /\ s.last = now /\ s.planted <= s.last /\ EffectsKept(s, effects)
        /\ s.settled = Grown(effects, s.planted, s.last)
    BY <1>1, <1>2, <1>4, <2>2, SettledForChangeExact DEF s
  <2>4. s.fertilizer = {}
    <3>1. \A f \in p.fertilizer : f.end \in Int BY <1>4 DEF Plots, Effect
    <3>2. now \in Int BY <1>2 DEF Times
    <3> QED BY <1>1, <1>5, <2>3, <3>1, <3>2 DEF Unexpired
  <2>5. EffectsKept(r, effects') BY <1>1, <1>3, <1>5, <2>3, <2>4, FertilizerBegins
  <2>6. effects'.fertilizer = effects.fertilizer \cup {e} /\ effects'.pest = effects.pest
    BY <1>1 DEF Effects
  <2>7. s.planted \in Int BY <1>5 DEF Plots
  <2>8. Grown(effects', s.planted, e.start) = Grown(effects, s.planted, e.start)
    <3>1. Exposure(effects'.fertilizer, s.planted, e.start) =
            Exposure(effects.fertilizer, s.planted, e.start)
      BY <1>3, <2>6, <2>7, BeginsLater, ZenonT(60)
    <3> QED BY <2>6, <3>1 DEF Grown
  <2> QED BY <1>3, <1>6, <2>3, <2>5, <2>8
<1> HIDE DEF r
<1> QED BY <1>1, <1>4, <1>6, <1>7, <1>8, ChangedInv

LEMMA FriendApplyPestInv == ASSUME Inv, NEW w \in Workers, FriendApplyPest(w) PROVE Inv'
<1> DEFINE now == job[w]
           e == PestEffect(now)
           s == SettledFirst(plot, now)
           r == [s EXCEPT !.pest = {e}]
<1>1. /\ TypeOK /\ Runs(w) /\ plot \in Plots /\ Fields(plot) /\ effects \in Effects
      /\ plot.state = "GROWING" /\ plot.pest = {} /\ ~Matures(plot, now)
      /\ plot' = Changed(r, now)
      /\ effects' = [effects EXCEPT !.pest = @ \cup {e}] /\ UNCHANGED gathered
  BY DEF Inv, FriendApplyPest, FreeForPest, TypeOK
<1>2. now \in Times BY <1>1, RunsFacts
<1>3. e \in Effect /\ e.start = now /\ e.end > now
  BY <1>2 DEF PestEffect, Effect, Times
<1>4. GrowingFields(plot) BY <1>1 DEF Fields
<1> HIDE DEF e
<1>5. /\ s \in Plots /\ s.state = "GROWING" /\ GrowingFields(s)
      /\ s.pest = Unexpired(plot.pest, s.last)
  <2>1. /\ s = SettledFirst(plot, now) /\ plot \in Plots /\ plot.state = "GROWING"
        /\ ~Matures(plot, now)
    BY <1>1
  <2> HIDE DEF s, now
  <2> QED BY <1>2, <1>4, <2>1, SettledForChange
<1> HIDE DEF s
<1>6. /\ r \in Plots /\ r.state = "GROWING" /\ GrowingFields(r)
      /\ r.last = s.last /\ r.planted = s.planted /\ r.settled = s.settled
  BY <1>3, <1>5 DEF Plots, GrowingFields, AtMostOne
<1>7. effects' \in Effects BY <1>1, <1>3 DEF Effects
<1>8. ASSUME ~reordered'
      PROVE  /\ r.last = now /\ r.planted <= r.last /\ EffectsKept(r, effects')
             /\ r.settled = Grown(effects', r.planted, r.last)
  <2>1. plot.last <= now /\ Exact(plot, effects) BY <1>1, <1>8, RunsInOrder
  <2>3. /\ s.last = now /\ s.planted <= s.last /\ EffectsKept(s, effects)
        /\ s.settled = Grown(effects, s.planted, s.last)
    BY <1>1, <1>2, <1>4, <2>1, SettledForChangeExact DEF s
  <2>4. s.pest = {} BY <1>1, <1>5 DEF Unexpired
  <2>5. EffectsKept(r, effects') BY <1>1, <1>3, <1>5, <2>3, <2>4, PestBegins
  <2>6. effects'.pest = effects.pest \cup {e} /\ effects'.fertilizer = effects.fertilizer
    BY <1>1 DEF Effects
  <2>7. s.planted \in Int BY <1>5 DEF Plots
  <2>8. Grown(effects', s.planted, e.start) = Grown(effects, s.planted, e.start)
    <3>1. Exposure(effects'.pest, s.planted, e.start) = Exposure(effects.pest, s.planted, e.start)
      BY <1>3, <2>6, <2>7, BeginsLater, ZenonT(60)
    <3> QED BY <2>6, <3>1 DEF Grown
  <2> QED BY <1>3, <1>6, <2>3, <2>5, <2>8
<1> HIDE DEF r
<1> QED BY <1>1, <1>6, <1>7, <1>8, ChangedInv

\* A pest is caught on the plot as a job finds it, materialized or not.
LEMMA CatchInv ==
    ASSUME Inv, NEW w \in Workers, Runs(w), plot.state = "GROWING",
           NEW p \in Plots, p.state = "GROWING", GrowingFields(p), ~Matures(p, job[w]),
           Settle(p, job[w]).pest # {}, UNCHANGED gathered,
           plot' = Changed([SettledFirst(p, job[w]) EXCEPT !.pest = {}], job[w]),
           effects' = Caught(p, job[w]),
           ~reordered' => p.last <= job[w] /\ Exact(p, effects)
    PROVE  Inv'
<1> DEFINE now == job[w]
           s == SettledFirst(p, now)
           r == [s EXCEPT !.pest = {}]
<1>1. TypeOK /\ effects \in Effects BY DEF Inv, TypeOK
<1>2. now \in Times /\ now \in Nat BY <1>1, RunsFacts DEF Times
<1>3. /\ s \in Plots /\ s.state = "GROWING" /\ GrowingFields(s)
      /\ s.pest = Unexpired(p.pest, s.last)
  BY <1>2, SettledForChange
<1>4. PICK e \in Effect : p.pest = {e} /\ s.pest = {e}
  <2>1. s.pest # {} BY DEF SettledFirst
  <2>2. AtMostOne(p.pest) /\ p.pest \in SUBSET Effect BY DEF GrowingFields, Plots
  <2> QED BY <1>3, <2>1, <2>2 DEF AtMostOne, Unexpired
<1> DEFINE d == [e EXCEPT !.end = now]
<1>5. effects' = [effects EXCEPT !.pest = (@ \ {e}) \cup {d}] BY <1>4 DEF Caught
<1>6. d \in Effect BY <1>2 DEF Effect
<1>7. effects' \in Effects BY <1>1, <1>5, <1>6 DEF Effects
<1> HIDE DEF s
<1>8. /\ r \in Plots /\ r.state = "GROWING" /\ GrowingFields(r)
      /\ r.last = s.last /\ r.planted = s.planted /\ r.settled = s.settled
  BY <1>3 DEF Plots, GrowingFields, AtMostOne
<1>9. ASSUME ~reordered'
      PROVE  /\ r.last = now /\ r.planted <= r.last /\ EffectsKept(r, effects')
             /\ r.settled = Grown(effects', r.planted, r.last)
  <2>1. p.last <= now /\ Exact(p, effects) BY <1>9
  <2>2. /\ s.last = now /\ s.planted <= s.last /\ EffectsKept(s, effects)
        /\ s.settled = Grown(effects, s.planted, s.last)
    BY <1>1, <1>2, <2>1, SettledForChangeExact DEF s
  <2>3. effects' = [effects EXCEPT !.pest = (@ \ {e}) \cup {[e EXCEPT !.end = s.last]}]
    BY <1>5, <2>2
  <2>4. s.planted \in Int BY <1>3 DEF Plots
  <2>5. /\ EffectsKept(r, effects')
        /\ \A a \in Int : Grown(effects', a, s.last) = Grown(effects, a, s.last)
    BY <1>1, <1>2, <1>3, <1>4, <2>2, <2>3, PestCaught
  <2>6. Grown(effects', s.planted, s.last) = Grown(effects, s.planted, s.last)
    BY <2>4, <2>5
  <2> QED BY <1>8, <2>2, <2>5, <2>6
<1>10. plot' = Changed(r, now) BY DEF s
<1> HIDE DEF r
<1> QED BY <1>7, <1>8, <1>9, <1>10, ChangedInv

LEMMA OwnerCatchPestInv == ASSUME Inv, NEW w \in Workers, OwnerCatchPest(w) PROVE Inv'
<1> DEFINE now == job[w]
           p == Materialize(plot, now)
<1>1. /\ TypeOK /\ Runs(w) /\ plot \in Plots /\ Fields(plot) /\ effects \in Effects
      /\ p.state = "GROWING" /\ ~Matures(p, now) /\ Settle(p, now).pest # {}
      /\ plot' = Changed([SettledFirst(p, now) EXCEPT !.pest = {}], now)
      /\ effects' = Caught(p, now) /\ UNCHANGED gathered
  BY DEF Inv, OwnerCatchPest, TypeOK
<1>2. now \in Times BY <1>1, RunsFacts
<1>3. p \in Plots /\ GrowingFields(p) /\ plot.state = "GROWING"
  BY <1>1, <1>2, MaterializeFacts DEF Fields
<1>4. ASSUME ~reordered' PROVE p.last <= now /\ Exact(p, effects)
  <2>1. plot.last <= now /\ Exact(plot, effects) BY <1>1, <1>4, RunsInOrder
  <2> QED BY <1>1, <1>2, <2>1, MaterializeExact
<1> HIDE DEF p
<1> QED BY <1>1, <1>3, <1>4, CatchInv

LEMMA FriendCatchPestInv == ASSUME Inv, NEW w \in Workers, FriendCatchPest(w) PROVE Inv'
<1>1. /\ Runs(w) /\ plot \in Plots /\ plot.state = "GROWING" /\ GrowingFields(plot)
      /\ ~Matures(plot, job[w]) /\ Settle(plot, job[w]).pest # {}
      /\ plot' = Changed([SettledFirst(plot, job[w]) EXCEPT !.pest = {}], job[w])
      /\ effects' = Caught(plot, job[w]) /\ UNCHANGED gathered
  BY DEF Inv, FriendCatchPest, TypeOK, Fields
<1>2. ~reordered' => plot.last <= job[w] /\ Exact(plot, effects) BY <1>1, RunsInOrder
<1> QED BY <1>1, <1>2, CatchInv

LEMMA StealInv ==
    ASSUME Inv, NEW w \in Workers, NEW v \in Visitors, Steal(w, v)
    PROVE  Inv'
<1>1. /\ TypeOK /\ Runs(w) /\ plot \in Plots /\ Fields(plot) /\ Thefts
      /\ plot.state = "MATURE" /\ Cardinality(plot.thieves) < MaxStealTimes
      /\ BaseYield >= plot.stolen + StealQuantity + ProtectedOwnerYield
      /\ v \notin plot.thieves /\ gathered \in [owner : Nat, visitors : Nat]
  BY DEF Inv, Steal, CanSteal, TypeOK
<1>2. /\ plot' = [plot EXCEPT !.stolen = @ + StealQuantity, !.thieves = @ \cup {v}]
      /\ gathered' = [gathered EXCEPT !.visitors = @ + StealQuantity] /\ effects' = effects
  BY DEF Steal
<1>3. /\ plot.stolen \in Nat /\ plot.stolen + StealQuantity \in Nat
      /\ gathered.visitors = plot.stolen
  BY <1>1 DEF Plots, Thefts
<1>4. /\ plot' \in Plots /\ plot'.state = "MATURE" /\ plot'.planted = plot.planted
      /\ plot'.settled = plot.settled /\ plot'.last = plot.last /\ plot'.estimate = plot.estimate
      /\ plot'.fertilizer = plot.fertilizer /\ plot'.pest = plot.pest
      /\ plot'.stolen = plot.stolen + StealQuantity /\ plot'.thieves = plot.thieves \cup {v}
  BY <1>1, <1>2, <1>3 DEF Plots
<1>5. /\ gathered' \in [owner : Nat, visitors : Nat]
      /\ gathered'.visitors = plot'.stolen
  BY <1>1, <1>2, <1>3, <1>4
<1>6. TypeOK' BY <1>1, <1>2, <1>4, <1>5, RunsType DEF TypeOK
<1>7. Fields(plot') BY <1>1, <1>4 DEF Fields, Slots
<1>8. IsFiniteSet(plot'.thieves) /\ Cardinality(plot'.thieves) <= MaxStealTimes
  <2>1. IsFiniteSet(plot.thieves) BY <1>1 DEF Thefts
  <2>2. Cardinality(plot.thieves) \in Nat BY <2>1, FS_CardinalityType
  <2>3. /\ IsFiniteSet(plot.thieves \cup {v})
        /\ Cardinality(plot.thieves \cup {v}) = Cardinality(plot.thieves) + 1
    BY <1>1, <2>1, FS_AddElement
  <2> QED BY <1>1, <1>4, <2>2, <2>3
<1>9. plot'.stolen + ProtectedOwnerYield <= BaseYield BY <1>1, <1>3, <1>4
<1>10. Thefts' BY <1>4, <1>5, <1>8, <1>9 DEF Thefts
<1>11. YieldShared'
  <2>1. plot'.stolen \in Nat BY <1>4 DEF Plots
  <2>2. BaseYield - plot'.stolen >= ProtectedOwnerYield BY <1>9, <2>1
  <2> QED BY <1>4, <1>5, <2>2 DEF YieldShared
<1>12. ~reordered' => plot'.last <= latest' /\ Exact(plot', effects')
  <2> HAVE ~reordered'
  <2>1. plot.last <= job[w] /\ Exact(plot, effects) BY <1>1, RunsInOrder
  <2>2. Exact(plot', effects') BY <1>1, <1>2, <1>4, <2>1 DEF Exact, MatureExact
  <2>3. job[w] \in Times /\ job[w] <= latest' /\ latest' \in 0..MaxTime BY <1>1, RunsFacts
  <2>4. plot.last \in Int /\ job[w] \in Int /\ latest' \in Int BY <1>1, <2>3 DEF Plots, Times
  <2> QED BY <1>4, <2>1, <2>2, <2>3, <2>4
<1> QED BY <1>6, <1>7, <1>10, <1>11, <1>12 DEF Inv

LEMMA HarvestInv == ASSUME Inv, NEW w \in Workers, Harvest(w) PROVE Inv'
<1> DEFINE now == job[w]
           p == Materialize(plot, now)
<1>1. /\ TypeOK /\ Runs(w) /\ plot \in Plots /\ Fields(plot) /\ Thefts /\ YieldShared
      /\ p.state = "MATURE" /\ gathered \in [owner : Nat, visitors : Nat]
  BY DEF Inv, Harvest, TypeOK
<1>2. /\ plot' = [p EXCEPT !.state = "NEED_CLEANUP", !.settled = 0, !.last = 0,
                           !.estimate = None, !.fertilizer = {}, !.pest = {}]
      /\ gathered' = [gathered EXCEPT !.owner = BaseYield - p.stolen] /\ effects' = effects
  BY DEF Harvest
<1>3. now \in Times /\ latest' \in 0..MaxTime BY <1>1, RunsFacts
<1>4. /\ p \in Plots /\ p.stolen = plot.stolen /\ p.thieves = plot.thieves
      /\ plot.state \in {"GROWING", "MATURE"}
  BY <1>1, <1>3, MaterializeFacts
<1> HIDE DEF p, now
<1>5. /\ plot' \in Plots /\ plot'.state = "NEED_CLEANUP" /\ plot'.settled = 0
      /\ plot'.last = 0 /\ plot'.estimate = None /\ plot'.fertilizer = {} /\ plot'.pest = {}
      /\ plot'.stolen = plot.stolen /\ plot'.thieves = plot.thieves
  <2>1. 0 \in 0..Maturity /\ 0 \in 0..MaxTime OBVIOUS
  <2> QED BY <1>2, <1>4, <2>1 DEF Plots
<1>6. gathered.visitors = plot.stolen /\ plot.stolen \in 0..BaseYield
  <2>1. plot.stolen \in Nat BY <1>1 DEF Plots
  <2> QED BY <1>1, <1>4, <2>1 DEF Thefts
<1>7. /\ gathered' \in [owner : Nat, visitors : Nat] /\ gathered'.visitors = gathered.visitors
      /\ gathered'.owner + gathered'.visitors = BaseYield
  BY <1>1, <1>2, <1>4, <1>6
<1>8. TypeOK' BY <1>1, <1>2, <1>5, <1>7, RunsType DEF TypeOK
<1>9. Fields(plot') BY <1>5 DEF Fields, Slots
<1>10. Thefts' /\ YieldShared' BY <1>1, <1>5, <1>6, <1>7 DEF Thefts, YieldShared
<1>11. plot'.last <= latest' /\ Exact(plot', effects') BY <1>3, <1>5 DEF Exact
<1> QED BY <1>8, <1>9, <1>10, <1>11 DEF Inv

LEMMA CleanPlotInv == ASSUME Inv, NEW w \in Workers, CleanPlot(w) PROVE Inv'
<1>1. /\ TypeOK /\ Runs(w) /\ YieldShared /\ plot' = Empty
      /\ effects' = effects /\ gathered' = gathered
  BY DEF Inv, CleanPlot
<1>2. latest' \in 0..MaxTime BY <1>1, RunsFacts
<1>3. Empty \in Plots BY DEF Empty, Plots, None
<1>4. plot'.state = "EMPTY" /\ plot'.last = 0 /\ plot'.stolen = 0 /\ plot'.thieves = {}
  BY <1>1 DEF Empty
<1>5. TypeOK' BY <1>1, <1>3, RunsType DEF TypeOK
<1>6. Fields(plot') BY <1>1, <1>4 DEF Fields
<1>7. Thefts' /\ YieldShared' BY <1>1, <1>4, FS_EmptySet DEF Thefts, YieldShared
<1>8. plot'.last <= latest' /\ Exact(plot', effects') BY <1>2, <1>4 DEF Exact
<1> QED BY <1>5, <1>6, <1>7, <1>8 DEF Inv

-----------------------------------------------------------------------------
(* The theorems.                                                           *)

LEMMA NextInv == Inv /\ [Next]_vars => Inv'
<1> SUFFICES ASSUME Inv, [Next]_vars PROVE Inv' OBVIOUS
<1>1. CASE Advance BY <1>1, AdvanceInv
<1>2. ASSUME NEW w \in Workers, ReadClock(w) PROVE Inv' BY <1>2, ReadClockInv
<1>3. ASSUME NEW w \in Workers, Tick(w) PROVE Inv' BY <1>3, TickInv
<1>4. ASSUME NEW w \in Workers, Plant(w) PROVE Inv' BY <1>4, PlantInv
<1>5. ASSUME NEW w \in Workers, ApplyFertilizer(w) PROVE Inv' BY <1>5, ApplyFertilizerInv
<1>6. ASSUME NEW w \in Workers, OwnerCatchPest(w) PROVE Inv' BY <1>6, OwnerCatchPestInv
<1>7. ASSUME NEW w \in Workers, Harvest(w) PROVE Inv' BY <1>7, HarvestInv
<1>8. ASSUME NEW w \in Workers, CleanPlot(w) PROVE Inv' BY <1>8, CleanPlotInv
<1>9. ASSUME NEW w \in Workers, FriendApplyPest(w) PROVE Inv' BY <1>9, FriendApplyPestInv
<1>10. ASSUME NEW w \in Workers, FriendCatchPest(w) PROVE Inv' BY <1>10, FriendCatchPestInv
<1>11. ASSUME NEW w \in Workers, NEW v \in Visitors, Steal(w, v) PROVE Inv' BY <1>11, StealInv
<1>12. CASE UNCHANGED vars
  BY <1>12 DEF vars, Inv, TypeOK, Thefts, YieldShared
<1> QED
  BY <1>1, <1>2, <1>3, <1>4, <1>5, <1>6, <1>7, <1>8, <1>9, <1>10, <1>11, <1>12 DEF Next

\* The inductive invariant of the plot: its record is well formed in every state
\* of its life cycle, the thefts counted in it are those of this crop, and, while
\* jobs run in the order of their times, its slots are the effects that still
\* count and its settled growth and estimate are exact.
THEOREM InvTheorem == Spec => []Inv
BY InitInv, NextInv, PTL DEF Spec

\* For every crop configuration and every duration and modifier of the effects:
\* settleGrowingPlot loses and invents no growth, however often it runs, and
\* estimatePlotMatureAtMS names the first millisecond of maturity.
THEOREM GrowthExactTheorem == Spec => []GrowthExact
<1>1. Inv => GrowthExact
  BY DEF Inv, GrowthExact, Exact, GrowingExact, MatureExact
<1> QED BY <1>1, InvTheorem, PTL

\* validatePlotRecord accepts every state of the plot that jobs reach in the
\* order of their times, so its checkpoint can be written and activated.
THEOREM SavableInOrderTheorem == Spec => []SavableInOrder
<1>1. ASSUME Inv, ~reordered PROVE Valid(plot)
  <2>1. /\ plot \in Plots /\ Fields(plot) /\ Thefts /\ Exact(plot, effects)
        /\ effects \in Effects
    BY <1>1 DEF Inv, TypeOK
  <2>2. /\ plot.stolen <= BaseYield /\ Cardinality(plot.thieves) <= MaxStealTimes
        /\ plot.planted \in Nat /\ plot.last \in Nat
    <3>1. plot.stolen \in Nat /\ plot.planted \in Nat /\ plot.last \in Nat BY <2>1 DEF Plots
    <3> QED BY <2>1, <3>1 DEF Thefts
  <2>3. CASE plot.state = "EMPTY" BY <2>1, <2>3 DEF Fields, Valid
  <2>4. CASE plot.state = "GROWING"
    <3>1. GrowingFields(plot) /\ GrowingExact(plot, effects) BY <2>1, <2>4 DEF Fields, Exact
    <3>2. plot.settled \in 0..Maturity /\ plot.estimate \in Nat
      BY <2>1, <3>1 DEF Plots, GrowingFields
    <3>3. /\ 0 <= plot.settled /\ plot.settled < Maturity
          /\ plot.last >= plot.planted /\ plot.estimate > plot.last
      BY <2>2, <3>1, <3>2 DEF GrowingFields, GrowingExact
    <3>4. ASSUME NEW e \in Slots(plot) PROVE ValidEffect(plot, e)
      <4>1. EffectsKept(plot, effects) BY <3>1 DEF GrowingExact
      <4>2. e \in Slots(effects) /\ e.end > plot.last
        BY <3>4, <4>1 DEF EffectsKept, Unexpired, Slots
      <4>3. plot.planted <= e.start /\ e.start <= plot.last BY <4>1, <4>2 DEF EffectsKept
      <4>4. e.start \in Int /\ e.end \in Int
        BY <2>1, <4>2 DEF Effects, Slots, Effect, Times
      <4> QED BY <2>2, <4>2, <4>3, <4>4 DEF ValidEffect
    <3> QED BY <2>2, <2>4, <3>3, <3>4 DEF Valid
  <2>5. CASE plot.state = "MATURE"
    <3>1. plot.last >= plot.planted BY <2>1, <2>2, <2>5 DEF Exact, MatureExact
    <3> QED BY <2>1, <2>2, <2>5, <3>1 DEF Fields, Valid
  <2>6. CASE plot.state = "NEED_CLEANUP" BY <2>1, <2>2, <2>6 DEF Fields, Valid
  <2> QED BY <2>1, <2>3, <2>4, <2>5, <2>6 DEF Plots
<1>2. Inv => SavableInOrder BY <1>1 DEF SavableInOrder
<1> QED BY <1>2, InvTheorem, PTL

\* Harvest and StealCrop together give away what the crop bore, and visitors
\* leave the owner the protected yield, in whatever order their jobs run.
THEOREM YieldSharedTheorem == Spec => []YieldShared
BY InvTheorem, PTL DEF Inv
=============================================================================
