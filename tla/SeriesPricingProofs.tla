------------------------- MODULE SeriesPricingProofs -------------------------
(***************************************************************************)
(* What the rounding of the pricing library guarantees, for every amount   *)
(* and every scale.  Two theorems here carry the solvency of a series, on  *)
(* chain and in the simulator.                                             *)
(***************************************************************************)
EXTENDS SeriesPricing, CommonProofs

LEMMA TimesNat ==
    ASSUME NEW a \in Nat, NEW b \in Nat
    PROVE  a * b \in Nat
  OBVIOUS

LEMMA TimesPositive ==
    ASSUME NEW a \in Nat \ {0}, NEW b \in Nat \ {0}
    PROVE  a * b \in Nat \ {0}
  OBVIOUS

\* Multiplication by a natural number is monotone.
LEMMA TimesMonotone ==
    ASSUME NEW a \in Int, NEW b \in Int, NEW k \in Nat, a <= b
    PROVE  a * k <= b * k
  OBVIOUS

LEMMA DivNat ==
    ASSUME NEW a \in Nat, NEW d \in Nat \ {0}
    PROVE  /\ a \div d \in Nat
           /\ (a \div d) * d <= a
           /\ a < (a \div d) * d + d
  OBVIOUS

LEMMA MulDivNat ==
    ASSUME NEW a \in Nat, NEW b \in Nat, NEW d \in Nat \ {0}
    PROVE  MulDiv(a, b, d) \in Nat /\ MulDiv(a, b, d) * d <= a * b
  BY TimesNat, DivNat DEF MulDiv

LEMMA MulDivUpNat ==
    ASSUME NEW a \in Nat, NEW b \in Nat, NEW d \in Nat \ {0}
    PROVE  /\ MulDivUp(a, b, d) \in Nat
           /\ a * b <= MulDivUp(a, b, d) * d
<1> DEFINE x == a * b
           q == (x + d - 1) \div d
<1>1. x \in Nat
  BY TimesNat
<1> HIDE DEF x
<1>2. x + d - 1 \in Nat
  BY <1>1
<1>3. q \in Nat /\ x + d - 1 < q * d + d
  BY <1>2, DivNat
<1>4. q * d \in Nat
  BY <1>3, TimesNat
<1> HIDE DEF q
<1>5. x <= q * d
  BY <1>1, <1>3, <1>4
<1> QED
  BY <1>3, <1>5 DEF MulDivUp, q, x

\* MulDivUp is the least quotient that covers the product.
LEMMA MulDivUpLeast ==
    ASSUME NEW a \in Nat, NEW b \in Nat, NEW d \in Nat \ {0},
           NEW k \in Nat, a * b <= k * d
    PROVE  MulDivUp(a, b, d) <= k
<1> DEFINE x == a * b
           q == (x + d - 1) \div d
<1>1. x \in Nat
  BY TimesNat
<1>2. x <= k * d
  OBVIOUS
<1> HIDE DEF x
<1>3. x + d - 1 \in Nat
  BY <1>1
<1>4. q \in Nat /\ q * d <= x + d - 1
  BY <1>3, DivNat
<1> HIDE DEF q
<1>5. SUFFICES ASSUME k + 1 <= q PROVE FALSE
  BY <1>4 DEF MulDivUp, q, x
<1>6. (k + 1) * d <= q * d
  BY <1>4, <1>5, TimesMonotone
<1>7. (k + 1) * d = k * d + d
  OBVIOUS
<1>8. k * d \in Nat /\ q * d \in Nat
  BY <1>4, TimesNat
<1> QED
  BY <1>1, <1>2, <1>4, <1>6, <1>7, <1>8

-----------------------------------------------------------------------------
(* The integer square root *)

LEMMA IsqrtNat ==
    ASSUME NEW n \in Nat
    PROVE  /\ Isqrt(n) \in Nat
           /\ Isqrt(n) * Isqrt(n) <= n
<1> DEFINE T == {r \in Nat : (r + 1) * (r + 1) > n}
<1>1. n \in T
  <2>1. n * n \in Nat /\ (n + 1) * (n + 1) = n * n + n + n + 1
    BY TimesNat
  <2> QED
    BY <2>1
<1>2. PICK r \in T : \A y \in T : r <= y
  BY <1>1, LeastNumber
<1>3. r \in 0..n /\ (r + 1) * (r + 1) > n
  BY <1>1, <1>2
<1>4. r * r <= n
  <2>1. CASE r = 0
    BY <2>1
  <2>2. CASE r # 0
    <3>1. r - 1 \in Nat /\ ~(r <= r - 1)
      BY <1>3, <2>2
    <3>2. r - 1 \notin T
      BY <1>2, <3>1
    <3>3. ~(((r - 1) + 1) * ((r - 1) + 1) > n)
      BY <3>1, <3>2
    <3>4. (r - 1) + 1 = r
      BY <3>1
    <3> QED
      BY <3>3, <3>4, <1>3
  <2> QED
    BY <2>1, <2>2
<1>5. \E q \in 0..n : q * q <= n /\ (q + 1) * (q + 1) > n
  BY <1>3, <1>4
<1>6. /\ Isqrt(n) \in 0..n
      /\ Isqrt(n) * Isqrt(n) <= n
  BY <1>5 DEF Isqrt
<1> QED
  BY <1>6

LEMMA IsqrtUpNat ==
    ASSUME NEW n \in Nat
    PROVE  IsqrtUp(n) \in Nat
  BY IsqrtNat DEF IsqrtUp

-----------------------------------------------------------------------------
(* Quotes are natural numbers *)

LEMMA AnnualizeNat ==
    ASSUME NEW sum \in Nat, NEW elapsed \in Nat
    PROVE  Annualize(sum, elapsed) \in Nat
<1>1. elapsed # 0 => MulDiv(sum, YEAR, elapsed) \in Nat
  BY ScaleAssumption, MulDivNat
<1> QED
  BY <1>1 DEF Annualize

LEMMA ProjectedVarianceNat ==
    ASSUME NEW realized \in Nat, NEW elapsed \in Nat, NEW forward \in Nat, NEW remaining \in Nat
    PROVE  ProjectedVariance(realized, elapsed, forward, remaining) \in Nat
<1>1. realized * elapsed \in Nat /\ forward * remaining \in Nat
  BY TimesNat
<1> DEFINE x == realized * elapsed + forward * remaining
           d == elapsed + remaining
<1>2. x \in Nat /\ d \in Nat
  BY <1>1
<1>3. ProjectedVariance(realized, elapsed, forward, remaining)
        = IF d = 0 THEN forward ELSE x \div d
  BY DEF ProjectedVariance
<1> HIDE DEF x, d
<1>4. d # 0 => x \div d \in Nat
  BY <1>2, DivNat
<1> QED
  BY <1>3, <1>4

LEMMA ForwardVarianceNat ==
    ASSUME NEW anchor \in Int, NEW decayed \in Int, NEW cap \in Nat
    PROVE  ForwardVariance(anchor, decayed, cap) \in Nat
  BY DEF ForwardVariance, Least, Greatest

LEMMA QuoteNat ==
    ASSUME NEW projected \in Nat, NEW spread \in 0..BPS, NEW cap \in Nat,
           NEW impact \in Nat, NEW remaining \in Nat, NEW duration \in Nat
    PROVE  /\ AskVariance(projected, spread, cap) \in Nat
           /\ BidVariance(projected, spread, cap) \in Nat
           /\ AskSlope(impact, remaining, duration, spread) \in Nat
           /\ BidSlope(impact, remaining, duration, spread) \in Nat
<1>1. /\ BPS \in Nat \ {0} /\ BPS + spread \in Nat /\ BPS - spread \in Nat
      /\ impact * remaining \in Nat
  BY ScaleAssumption, TimesNat
<1>2. duration # 0 => duration * BPS \in Nat \ {0}
  BY ScaleAssumption, TimesPositive
<1>3. /\ MulDivUp(projected, BPS + spread, BPS) \in Nat
      /\ MulDiv(projected, BPS - spread, BPS) \in Nat
  BY <1>1, MulDivNat, MulDivUpNat
<1>4. duration # 0 => /\ MulDivUp(impact * remaining, BPS + spread, duration * BPS) \in Nat
                      /\ MulDiv(impact * remaining, BPS - spread, duration * BPS) \in Nat
  BY <1>1, <1>2, MulDivNat, MulDivUpNat
<1> QED
  BY <1>3, <1>4 DEF AskVariance, BidVariance, AskSlope, BidSlope, Least

\* However many half-lives pass, the skew is an integer.
LEMMA DecaySkewInt ==
    ASSUME NEW skew \in Int, NEW dt \in Nat, NEW halfLife \in Nat
    PROVE  DecaySkew(skew, dt, halfLife) \in Int
<1> DEFINE half == [x \in Int |-> Truncated(x, 2)]
           Halved(h) == h = [k \in Nat |-> IF k = 0 THEN skew ELSE Truncated(h[k - 1], 2)]
           halved == CHOOSE h : Halved(h)
<1>1. half \in [Int -> Int]
  BY DEF Truncated
<1>2. PICK g \in [Nat -> Int] : g[0] = skew /\ \A n \in Nat : g[n + 1] = half[g[n]]
  <2> HIDE DEF half
  <2>1. \E g \in [Nat -> Int] : Iterates(g, skew, half)
    BY <1>1, IterationExists
  <2> QED
    BY <2>1 DEF Iterates
<1>3. Halved(g)
  <2>1. SUFFICES ASSUME NEW k \in Nat
                 PROVE  g[k] = IF k = 0 THEN skew ELSE Truncated(g[k - 1], 2)
    BY <1>2
  <2>2. CASE k = 0
    BY <1>2, <2>2
  <2>3. CASE k # 0
    <3>1. k - 1 \in Nat /\ (k - 1) + 1 = k
      BY <2>3
    <3>2. g[k] = half[g[k - 1]] /\ g[k - 1] \in Int
      BY <1>2, <3>1
    <3> QED
      BY <2>3, <3>2
  <2> QED
    BY <2>2, <2>3
<1>4. Halved(halved)
  BY <1>3
<1> DEFINE I == {n \in Nat : halved[n] \in Int}
<1>5. Nat \subseteq I
  <2>1. \A k \in Nat : halved[k] = IF k = 0 THEN skew ELSE Truncated(halved[k - 1], 2)
    <3> HIDE DEF halved
    <3> QED
      BY <1>4
  <2> HIDE DEF halved
  <2>2. 0 \in I
    BY <2>1
  <2>3. ASSUME NEW n \in Nat, n \in I PROVE n + 1 \in I
    <3>1. halved[n + 1] = Truncated(halved[n], 2) /\ halved[n] \in Int
      BY <2>1, <2>3
    <3> QED
      BY <1>1, <3>1 DEF half
  <2> HIDE DEF I
  <2> QED
    BY <2>2, <2>3, NatInductive
<1>6. halfLife # 0 => dt \div halfLife \in Nat
  BY DivNat
<1>7. DecaySkew(skew, dt, halfLife) = IF halfLife = 0 THEN skew ELSE halved[dt \div halfLife]
  BY DEF DecaySkew
<1> HIDE DEF halved
<1> QED
  BY <1>5, <1>6, <1>7

-----------------------------------------------------------------------------
(* Fills and reservations are natural numbers *)

LEMMA Scales ==
    /\ WAD \in Nat \ {0} /\ WAD * WAD \in Nat \ {0} /\ 2 * WAD \in Nat \ {0}
  BY ScaleAssumption, TimesPositive

LEMMA IssueUnitsForNat ==
    ASSUME NEW ask \in Nat, NEW slope \in Nat, NEW notional \in Nat \ {0},
           NEW amount \in Nat
    PROVE  IssueUnitsFor(ask, slope, notional, amount) \in Nat
<1> DEFINE x == MulDiv(amount, WAD * WAD, notional)
           disc == ask * ask + MulDivUp(2 * slope, x, WAD)
           root == IsqrtUp(disc)
<1>1. x \in Nat
  BY Scales, MulDivNat
<1> HIDE DEF x
<1>2. MulDivUp(2 * slope, x, WAD) \in Nat
  <2>1. 2 * slope \in Nat
    OBVIOUS
  <2> QED
    BY <1>1, <2>1, Scales, MulDivUpNat
<1>3. disc \in Nat
  BY <1>2, TimesNat
<1> HIDE DEF disc
<1>4. root \in Nat
  BY <1>3, IsqrtUpNat
<1> HIDE DEF root
<1>5. CASE ask = 0
  BY <1>5 DEF IssueUnitsFor
<1>6. CASE ask # 0
  <2>1. x \div ask \in Nat
    BY <1>1, <1>6, DivNat
  <2>2. (2 * x) \div (ask + root) \in Nat
    <3>1. 2 * x \in Nat /\ ask + root \in Nat \ {0}
      BY <1>1, <1>4, <1>6
    <3> QED
      BY <3>1, DivNat
  <2>3. IssueUnitsFor(ask, slope, notional, amount) =
            IF slope = 0 THEN x \div ask ELSE (2 * x) \div (ask + root)
    BY <1>6 DEF IssueUnitsFor, root, disc, x
  <2> QED
    BY <2>1, <2>2, <2>3
<1> QED
  BY <1>5, <1>6

LEMMA IssuePremiumNat ==
    ASSUME NEW ask \in Nat, NEW slope \in Nat, NEW notional \in Nat, NEW units \in Nat
    PROVE  IssuePremium(ask, slope, notional, units) \in Nat
<1>1. slope * units \in Nat /\ ask * units \in Nat
  BY TimesNat
<1>2. MulDivUp(slope * units, units, 2 * WAD) \in Nat
  BY <1>1, Scales, MulDivUpNat
<1>3. ask * units + MulDivUp(slope * units, units, 2 * WAD) \in Nat
  BY <1>1, <1>2
<1> QED
  BY <1>3, Scales, MulDivUpNat DEF IssuePremium

LEMMA ExitProceedsInt ==
    ASSUME NEW bid \in Nat, NEW slope \in Nat, NEW notional \in Nat, NEW units \in Nat
    PROVE  ExitProceeds(bid, slope, notional, units) \in Int
<1> DEFINE y == bid * units - MulDiv(slope * units, units, 2 * WAD)
<1>1. slope * units \in Nat /\ bid * units \in Nat
  BY TimesNat
<1>2. MulDiv(slope * units, units, 2 * WAD) \in Nat
  BY <1>1, Scales, MulDivNat
<1>3. y \in Int
  BY <1>1, <1>2
<1> HIDE DEF y
<1>4. notional * y \in Int
  BY <1>3
<1>5. (notional * y) \div (WAD * WAD) \in Int
  BY <1>4, Scales
<1> QED
  BY <1>5 DEF ExitProceeds, MulDiv, y

LEMMA LimitsInt ==
    ASSUME NEW p \in Nat, NEW slope \in Nat, NEW cap \in Nat
    PROVE  /\ IssueUnitsToCap(p, slope, cap) \in Int
           /\ ExitUnitsToZeroBid(p, slope) \in Int
<1>1. slope # 0 => (p * WAD) \div slope \in Int
  BY TimesNat, Scales, DivNat
<1>2. slope # 0 /\ p < cap => ((cap - p) * WAD) \div slope \in Int
  <2>1. p < cap => cap - p \in Nat
    OBVIOUS
  <2> QED
    BY <2>1, TimesNat, Scales, DivNat
<1> QED
  BY <1>1, <1>2 DEF IssueUnitsToCap, ExitUnitsToZeroBid, Unbounded

LEMMA CollateralLimitInt ==
    ASSUME NEW out \in Nat, NEW liability \in Nat, NEW free \in Nat,
           NEW notional \in Nat \ {0}, NEW cap \in Nat \ {0}
    PROVE  IssueUnitsToCollateral(out, liability, free, notional, cap) \in Int
<1>1. liability + free \in Nat /\ notional * cap \in Nat \ {0}
  BY TimesPositive
<1>2. MulDiv(liability + free, WAD * WAD, notional * cap) \in Nat
  BY <1>1, Scales, MulDivNat
<1> QED
  BY <1>1, <1>2 DEF IssueUnitsToCollateral, Greatest

LEMMA MinInt ==
    ASSUME NEW a \in Int, NEW b \in Int, NEW c \in Int
    PROVE  Min({a, b, c}) \in Int /\ Min({a, b, c}) <= b
<1>1. \E x \in {a, b, c} : \A y \in {a, b, c} : x <= y
  <2>1. CASE a <= b /\ a <= c
    BY <2>1
  <2>2. CASE b <= a /\ b <= c
    BY <2>2
  <2>3. CASE c <= a /\ c <= b
    BY <2>3
  <2> QED
    BY <2>1, <2>2, <2>3
<1>2. /\ Min({a, b, c}) \in {a, b, c}
      /\ \A y \in {a, b, c} : Min({a, b, c}) <= y
  BY <1>1 DEF Min
<1> QED
  BY <1>2

LEMMA PayoutPerUnitNat ==
    ASSUME NEW variance \in Nat, NEW cap \in Nat, NEW notional \in Nat
    PROVE  /\ PayoutPerUnit(variance, cap, notional) \in Nat
           /\ PayoutPerUnit(variance, cap, notional) * WAD <= notional * cap
<1> DEFINE m == Least(variance, cap)
           ppu == MulDiv(notional, m, WAD)
<1>1. m \in Nat /\ m <= cap
  BY DEF Least
<1> HIDE DEF m
<1>2. ppu \in Nat /\ ppu * WAD <= notional * m
  BY <1>1, Scales, MulDivNat
<1> HIDE DEF ppu
<1>3. notional * m <= notional * cap
  BY <1>1
<1>4. ppu * WAD \in Nat /\ notional * m \in Nat /\ notional * cap \in Nat
  BY <1>1, <1>2, Scales, TimesNat
<1>5. ppu * WAD <= notional * cap
  BY <1>2, <1>3, <1>4
<1> QED
  BY <1>2, <1>5 DEF PayoutPerUnit, ppu, m

LEMMA MaxLiabilityNat ==
    ASSUME NEW units \in Nat, NEW notional \in Nat, NEW cap \in Nat
    PROVE  MaxLiability(units, notional, cap) \in Nat
  BY TimesNat, Scales, MulDivUpNat DEF MaxLiability

LEMMA FinalLiabilityNat ==
    ASSUME NEW units \in Nat, NEW ppu \in Nat
    PROVE  FinalLiability(units, ppu) \in Nat
  BY Scales, MulDivUpNat DEF FinalLiability

LEMMA SettleProceedsNat ==
    ASSUME NEW units \in Nat, NEW ppu \in Nat
    PROVE  SettleProceeds(units, ppu) \in Nat
  BY Scales, MulDivNat DEF SettleProceeds

-----------------------------------------------------------------------------
(* Reservations cover what they are for *)

LEMMA NothingOwed ==
    ASSUME NEW a \in Nat, NEW b \in Nat, NEW d \in Nat \ {0}, a * b = 0
    PROVE  MulDivUp(a, b, d) = 0
<1>1. a * b <= 0 * d
  OBVIOUS
<1>2. MulDivUp(a, b, d) <= 0
  BY <1>1, MulDivUpLeast
<1> QED
  BY <1>2, MulDivUpNat

LEMMA NoFinalLiability ==
    ASSUME NEW u \in Nat, NEW p \in Nat, u = 0 \/ p = 0
    PROVE  FinalLiability(u, p) = 0
<1>1. u * p = 0
  OBVIOUS
<1> QED
  BY <1>1, Scales, NothingOwed DEF FinalLiability

LEMMA MaxLiabilityLeast ==
    ASSUME NEW units \in Nat, NEW notional \in Nat, NEW cap \in Nat, NEW k \in Nat,
           units * (notional * cap) <= k * (WAD * WAD)
    PROVE  MaxLiability(units, notional, cap) <= k
<1>1. (units * notional) * cap = units * (notional * cap) /\ units * notional \in Nat
  BY TimesNat
<1> QED
  BY <1>1, Scales, MulDivUpLeast DEF MaxLiability

LEMMA MaxLiabilityMonotone ==
    ASSUME NEW u \in Nat, NEW v \in Nat, u <= v, NEW notional \in Nat, NEW cap \in Nat
    PROVE  MaxLiability(u, notional, cap) <= MaxLiability(v, notional, cap)
<1> DEFINE k == MaxLiability(v, notional, cap)
           x == notional * cap
<1>1. x \in Nat /\ k \in Nat /\ u * x <= v * x
  BY TimesNat, TimesMonotone, MaxLiabilityNat
<1>2. v * x <= k * (WAD * WAD)
  <2>1. (v * notional) * cap = v * (notional * cap) /\ v * notional \in Nat
    BY TimesNat
  <2> QED
    BY <2>1, Scales, MulDivUpNat DEF MaxLiability
<1>3. u * x <= k * (WAD * WAD)
  <2>1. u * x \in Nat /\ v * x \in Nat /\ k * (WAD * WAD) \in Nat
    BY <1>1, Scales, TimesNat
  <2> HIDE DEF x, k
  <2> QED
    BY <1>1, <1>2, <2>1
<1> HIDE DEF k
<1>4. MaxLiability(u, notional, cap) <= k
  BY <1>1, <1>3, MaxLiabilityLeast
<1> QED
  BY <1>4 DEF k

LEMMA FinalLiabilityMonotone ==
    ASSUME NEW u \in Nat, NEW v \in Nat, u <= v, NEW ppu \in Nat
    PROVE  FinalLiability(u, ppu) <= FinalLiability(v, ppu)
<1> DEFINE k == FinalLiability(v, ppu)
<1>1. k \in Nat /\ v * ppu <= k * WAD /\ u * ppu <= v * ppu
  BY Scales, MulDivUpNat, TimesMonotone DEF FinalLiability
<1>2. u * ppu \in Nat /\ v * ppu \in Nat /\ k * WAD \in Nat
  BY <1>1, Scales, TimesNat
<1> HIDE DEF k
<1>3. u * ppu <= k * WAD
  BY <1>1, <1>2
<1>4. MulDivUp(u, ppu, WAD) <= k
  BY <1>1, <1>3, Scales, MulDivUpLeast
<1> QED
  BY <1>4 DEF FinalLiability, k

\* Units within the collateral limit raise the reserve by no more than what is
\* free.
LEMMA IssueWithinCollateral ==
    ASSUME NEW out \in Nat, NEW liability \in Nat, NEW free \in Nat,
           NEW notional \in Nat \ {0}, NEW cap \in Nat \ {0}, NEW units \in Nat \ {0},
           units <= IssueUnitsToCollateral(out, liability, free, notional, cap)
    PROVE  MaxLiability(out + units, notional, cap) <= liability + free
<1> DEFINE x == notional * cap
           k == liability + free
           q == MulDiv(k, WAD * WAD, x)
<1>1. x \in Nat \ {0} /\ k \in Nat /\ out + units \in Nat
  BY TimesPositive
<1>2. units <= Greatest(q - out, 0)
  BY <1>1 DEF IssueUnitsToCollateral
<1> HIDE DEF x, k
<1>3. q \in Nat /\ q * x <= k * (WAD * WAD)
  BY <1>1, Scales, MulDivNat
<1> HIDE DEF q
<1>4. out + units <= q
  BY <1>2, <1>3 DEF Greatest
<1>5. (out + units) * x <= q * x
  BY <1>1, <1>3, <1>4, TimesMonotone
<1>6. (out + units) * x <= k * (WAD * WAD)
  <2>1. (out + units) * x \in Nat /\ q * x \in Nat /\ k * (WAD * WAD) \in Nat
    BY <1>1, <1>3, Scales, TimesNat
  <2> QED
    BY <1>3, <1>5, <2>1
<1>7. MaxLiability(out + units, notional, cap) <= k
  BY <1>1, <1>6, MaxLiabilityLeast DEF x
<1> QED
  BY <1>7 DEF k

\* The reserve taken when units are sold covers them at every final variance:
\* finalize can always release what it no longer needs.
THEOREM ReserveCoversVariance ==
    ASSUME NEW units \in Nat, NEW variance \in Nat, NEW cap \in Nat, NEW notional \in Nat
    PROVE  FinalLiability(units, PayoutPerUnit(variance, cap, notional))
                <= MaxLiability(units, notional, cap)
<1> DEFINE p == PayoutPerUnit(variance, cap, notional)
           m == MaxLiability(units, notional, cap)
<1>1. p \in Nat /\ p * WAD <= notional * cap
  BY PayoutPerUnitNat
<1> HIDE DEF p
<1>2. /\ m \in Nat
      /\ (units * notional) * cap <= m * (WAD * WAD)
  BY TimesNat, Scales, MulDivUpNat DEF MaxLiability
<1> HIDE DEF m
<1>3. units * p <= m * WAD
  <2>1. units * (p * WAD) <= units * (notional * cap)
    <3>1. p * WAD \in Nat /\ notional * cap \in Nat
      BY <1>1, Scales, TimesNat
    <3>2. (p * WAD) * units <= (notional * cap) * units
      BY <1>1, <3>1, TimesMonotone
    <3> HIDE DEF p
    <3> QED
      BY <3>1, <3>2
  <2>2. /\ units * (p * WAD) = (units * p) * WAD
        /\ units * (notional * cap) = (units * notional) * cap
        /\ m * (WAD * WAD) = (m * WAD) * WAD
    BY <1>1, <1>2, Scales
  <2> DEFINE x == units * p
             y == m * WAD
  <2>3. x \in Nat /\ y \in Nat
    BY <1>1, <1>2, Scales, TimesNat
  <2>4. x * WAD <= y * WAD
    <3>1. (units * p) * WAD <= (units * notional) * cap
      BY <2>1, <2>2
    <3>2. (units * notional) * cap <= (m * WAD) * WAD
      BY <1>2, <2>2
    <3>3. /\ (units * p) * WAD \in Nat /\ (units * notional) * cap \in Nat
          /\ (m * WAD) * WAD \in Nat
      BY <2>3, Scales, TimesNat
    <3> QED
      BY <3>1, <3>2, <3>3
  <2> HIDE DEF x, y
  <2>5. x <= y
    <3>1. SUFFICES ASSUME y + 1 <= x PROVE FALSE
      BY <2>3
    <3>2. (y + 1) * WAD <= x * WAD
      BY <2>3, <3>1, Scales, TimesMonotone
    <3>3. (y + 1) * WAD = y * WAD + WAD /\ x * WAD \in Nat /\ y * WAD \in Nat
      BY <2>3, Scales, TimesNat
    <3> QED
      BY <2>4, <3>2, <3>3, Scales
  <2> QED
    BY <2>5 DEF x, y
<1>4. MulDivUp(units, p, WAD) <= m
  BY <1>1, <1>2, <1>3, Scales, MulDivUpLeast
<1> QED
  BY <1>4 DEF FinalLiability, p, m

\* A settlement is never cut to what the burn releases, however the receipts
\* are split over settlements: ceil(a + b) >= floor(a) + ceil(b).
THEOREM SettlementWithinRelease ==
    ASSUME NEW out \in Nat, NEW units \in Nat, units <= out, NEW ppu \in Nat
    PROVE  SettleProceeds(units, ppu)
                <= FinalLiability(out, ppu) - FinalLiability(out - units, ppu)
<1> DEFINE rest  == out - units
           paid  == MulDiv(units, ppu, WAD)
           whole == MulDivUp(out, ppu, WAD)
           left  == MulDivUp(rest, ppu, WAD)
<1>1. rest \in Nat /\ out = rest + units
  OBVIOUS
<1> HIDE DEF rest
<1>2. /\ paid \in Nat /\ paid * WAD <= units * ppu
      /\ whole \in Nat /\ out * ppu <= whole * WAD
      /\ left \in Nat
  BY <1>1, Scales, MulDivNat, MulDivUpNat
<1>3. out * ppu = rest * ppu + units * ppu
  BY <1>1
<1> HIDE DEF paid, whole
<1>4. rest * ppu <= (whole - paid) * WAD
  <2> DEFINE a == rest * ppu
             b == units * ppu
             w == whole * WAD
             q == paid * WAD
  <2>1. a \in Nat /\ b \in Nat /\ w \in Nat /\ q \in Nat
    BY <1>1, <1>2, Scales, TimesNat
  <2>2. q <= b /\ a + b <= w
    BY <1>2, <1>3
  <2>3. (whole - paid) * WAD = w - q
    BY <1>2, Scales
  <2> HIDE DEF a, b, w, q
  <2>4. a <= w - q
    BY <2>1, <2>2
  <2> QED
    BY <2>3, <2>4 DEF a
<1>5. whole - paid \in Nat
  <2>1. SUFFICES ASSUME whole + 1 <= paid PROVE FALSE
    BY <1>2
  <2>2. (whole + 1) * WAD <= paid * WAD
    BY <1>2, <2>1, Scales, TimesMonotone
  <2>3. (whole + 1) * WAD = whole * WAD + WAD
    BY <1>2, Scales
  <2>4. (whole - paid) * WAD = whole * WAD - paid * WAD
    BY <1>2, Scales
  <2>5. rest * ppu \in Nat /\ whole * WAD \in Nat /\ paid * WAD \in Nat
    BY <1>1, <1>2, Scales, TimesNat
  <2> QED
    BY <1>4, <2>2, <2>3, <2>4, <2>5, Scales
<1>6. left <= whole - paid
  BY <1>1, <1>4, <1>5, Scales, MulDivUpLeast
<1>7. paid <= whole - left
  BY <1>2, <1>6
<1> QED
  BY <1>7 DEF SettleProceeds, FinalLiability, paid, whole, left, rest
=============================================================================
