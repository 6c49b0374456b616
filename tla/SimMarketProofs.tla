--------------------------- MODULE SimMarketProofs ---------------------------
(***************************************************************************)
(* Theorems about the simulator, for every set of holders and siblings,    *)
(* every path, all terms and every scale: no operation throws, the driver's*)
(* accounts add up, and the vault implements the abstract escrow.          *)
(***************************************************************************)
EXTENDS SimMarket, SeriesPricingProofs

\* No check of the vault has thrown; closing over claims may have.
Vaults == [balance : Nat, locked : Nat, error : {"none", "ClaimsOutstanding"}]

SeriesState ==
    [skew : Int, lastSkew : Nat, outstanding : Nat, available : Nat,
     liability : Nat, finalized : BOOLEAN, ppu : Nat, samples : 1..TotalSamples,
     sum : Nat, premium : Nat, paid : Nat]

Types ==
    /\ now \in 0..Expiry
    /\ vault \in Vaults
    /\ series \in [AllSeries -> SeriesState]
    /\ held \in [Holders \union Siblings -> Nat]
    /\ path \in [AllSeries -> [1..Expiry -> SquaredReturns]]

\* What a series in state r reserves: the most its units can cost before
\* finalization, what they do cost after it.
Due(s, r) == IF r.finalized THEN Owed(r, r.outstanding) ELSE Cap(s, r.outstanding)

Liabilities(ser) == [s \in AllSeries |-> ser[s].liability]
Net(r)           == r.premium - r.paid
Income(ser)      == [s \in AllSeries |-> Net(ser[s])]
MainUnits(hd)    == [h \in Holders |-> hd[h]]

\* The units of each series are its holders'.
UnitsHeld(ser, hd) ==
    /\ ser[Main].outstanding = SumFunction(MainUnits(hd))
    /\ \A s \in Siblings : ser[s].outstanding = hd[s]

\* The inductive invariant.
Sound ==
    /\ Types
    /\ \A s \in AllSeries : series[s].liability = Due(s, series[s])
    /\ vault.locked = SumFunction(Liabilities(series))
    /\ vault.locked <= vault.balance
    /\ vault.balance = Collateral + SumFunction(Income(series))
    /\ UnitsHeld(series, held)
    /\ phase # "window" => \A s \in AllSeries : series[s].finalized

LEMMA Names ==
    /\ IsFiniteSet(AllSeries) /\ IsFiniteSet(Holders)
    /\ Main \in AllSeries /\ Siblings \subseteq AllSeries /\ Main \notin Siblings
    /\ Holders \intersect Siblings = {}
<1>1. IsFiniteSet({Main})
  BY FS_Singleton
<1> QED
  BY <1>1, NamesAssumption, FS_Union DEF AllSeries

LEMMA Terms ==
    ASSUME NEW s \in AllSeries
    PROVE  /\ Params[s].notional \in Nat \ {0} /\ Params[s].cap \in Nat \ {0}
           /\ Params[s].anchor \in Nat /\ Params[s].impact \in Nat
           /\ Params[s].halfLife \in Nat /\ Params[s].spread \in 0..BPS
           /\ Params[s].maxUnits \in Nat
  BY ParamsAssumption DEF AllSeries, ValidParams

LEMMA CapNat ==
    ASSUME NEW s \in AllSeries, NEW units \in Nat
    PROVE  Cap(s, units) \in Nat
  BY Terms, MaxLiabilityNat DEF Cap

LEMMA OwedNat ==
    ASSUME NEW r \in SeriesState, NEW units \in Nat
    PROVE  Owed(r, units) \in Nat
<1>1. r.ppu \in Nat
  BY DEF SeriesState
<1> QED
  BY <1>1, FinalLiabilityNat DEF Owed

-----------------------------------------------------------------------------
(* Samples.  Bringing a series current moves its samples and nothing else. *)

\* The states of a series that differ from r in their samples only.
Refreshed(r) ==
    {q \in SeriesState :
        /\ q.skew = r.skew /\ q.lastSkew = r.lastSkew
        /\ q.outstanding = r.outstanding /\ q.available = r.available
        /\ q.liability = r.liability /\ q.finalized = r.finalized
        /\ q.ppu = r.ppu /\ q.premium = r.premium /\ q.paid = r.paid}

LEMMA AvailableNat ==
    ASSUME NEW t \in Nat
    PROVE  AvailableSamples(t) \in 1..TotalSamples
  BY WindowAssumption DEF AvailableSamples, TotalSamples, Least

LEMMA Resampled ==
    ASSUME NEW r \in SeriesState, NEW k \in 1..TotalSamples, NEW y \in Nat
    PROVE  /\ [r EXCEPT !.samples = k, !.sum = y] \in SeriesState
           /\ [r EXCEPT !.samples = k, !.sum = y].samples = k
  BY DEF SeriesState

\* One bounded call stores at least one sample, if any is missing.
LEMMA CheckpointRefreshes ==
    ASSUME Types, NEW s \in AllSeries, NEW t \in Nat,
           NEW r0 \in SeriesState, NEW r \in Refreshed(r0)
    PROVE  /\ Checkpoint(s, r, t) \in Refreshed(r0)
           /\ Checkpoint(s, r, t).samples
                = Least(AvailableSamples(t), r.samples + MaxSamples)
<1> DEFINE last == Least(AvailableSamples(t), r.samples + MaxSamples)
           steps == r.samples..(last - 1)
           f == [i \in steps |-> path[s][i]]
<1>1. r \in SeriesState /\ r.samples \in 1..TotalSamples /\ r.sum \in Nat
  BY DEF Refreshed, SeriesState
<1>2. last \in 1..TotalSamples
  BY <1>1, AvailableNat, WindowAssumption DEF Least, TotalSamples
<1> HIDE DEF last
<1>3. steps \subseteq 1..Expiry /\ IsFiniteSet(steps)
  <2>1. r.samples \in Int /\ last - 1 \in Int
    BY <1>1, <1>2, WindowAssumption DEF TotalSamples
  <2>2. IsFiniteSet(steps)
    BY <2>1, FS_Interval
  <2>3. ASSUME NEW i \in steps PROVE i \in 1..Expiry
    BY <1>1, <1>2, WindowAssumption DEF TotalSamples
  <2> QED
    BY <2>2, <2>3
<1> HIDE DEF steps
<1>4. SumFunction(f) \in Nat
  <2>1. \A i \in 1..Expiry : path[s][i] \in Nat
    BY InputsAssumption DEF Types
  <2>2. DOMAIN f = steps /\ \A i \in steps : f[i] \in Nat
    BY <1>3, <2>1
  <2> QED
    BY <1>3, <2>2, SumNonNegative DEF SumFunction
<1> DEFINE x == SumFunction(f)
           y == r.sum + x
           q == [r EXCEPT !.samples = last, !.sum = y]
<1>5. Checkpoint(s, r, t) = q
  BY DEF Checkpoint, last, steps
<1>6. y \in Nat
  BY <1>1, <1>4
<1> HIDE DEF y
<1>7. q \in Refreshed(r0) /\ q.samples = last
  <2>1. q \in SeriesState /\ q.samples = last
    BY <1>1, <1>2, <1>6, Resampled
  <2>2. /\ q.skew = r.skew /\ q.lastSkew = r.lastSkew
        /\ q.outstanding = r.outstanding /\ q.available = r.available
        /\ q.liability = r.liability /\ q.finalized = r.finalized
        /\ q.ppu = r.ppu /\ q.premium = r.premium /\ q.paid = r.paid
    BY <1>1 DEF SeriesState
  <2> HIDE DEF q
  <2> QED
    BY <2>1, <2>2 DEF Refreshed
<1> QED
  BY <1>5, <1>7 DEF last

\* bringCurrent's loop, n calls of it.
Walks(s, t, h) ==
    h = [n \in Nat |-> IF n = 0 THEN series[s] ELSE Checkpoint(s, h[n - 1], t)]

LEMMA WalkExists ==
    ASSUME Types, NEW s \in AllSeries, NEW t \in Nat
    PROVE  \E h : Walks(s, t, h)
<1> DEFINE r0 == series[s]
           step == [r \in Refreshed(r0) |-> Checkpoint(s, r, t)]
<1>1. r0 \in SeriesState /\ r0 \in Refreshed(r0)
  BY DEF Types, Refreshed
<1>2. step \in [Refreshed(r0) -> Refreshed(r0)]
  BY <1>1, CheckpointRefreshes
<1>3. PICK h \in [Nat -> Refreshed(r0)] : Iterates(h, r0, step)
  <2> HIDE DEF step
  <2> QED
    BY <1>1, <1>2, IterationExists
<1>4. ASSUME NEW n \in Nat
      PROVE  h[n] = IF n = 0 THEN r0 ELSE Checkpoint(s, h[n - 1], t)
  <2>1. CASE n = 0
    BY <1>3, <2>1 DEF Iterates
  <2>2. CASE n # 0
    <3>1. n - 1 \in Nat /\ (n - 1) + 1 = n
      BY <2>2
    <3>2. h[n] = step[h[n - 1]] /\ h[n - 1] \in Refreshed(r0)
      BY <1>3, <3>1 DEF Iterates
    <3> QED
      BY <2>2, <3>2
  <2> QED
    BY <2>1, <2>2
<1>5. Walks(s, t, h)
  BY <1>3, <1>4 DEF Walks
<1> QED
  BY <1>5

\* The loop ends within the calls a whole window takes.
LEMMA BroughtCurrent ==
    ASSUME Types, NEW s \in AllSeries, NEW t \in Nat
    PROVE  /\ BringCurrent(s, t) \in Refreshed(series[s])
           /\ IsCurrent(BringCurrent(s, t), t)
<1> DEFINE walk == CHOOSE h : Walks(s, t, h)
           I == {n \in Nat : /\ walk[n] \in Refreshed(series[s])
                             /\ \/ walk[n].samples >= AvailableSamples(t)
                                \/ walk[n].samples >= n + 1}
<1>1. Walks(s, t, walk)
  BY WalkExists
<1>2. BringCurrent(s, t) = walk[CHOOSE n \in 0..TotalSamples : IsCurrent(walk[n], t)]
  BY DEF BringCurrent, Walks
<1> HIDE DEF walk
<1>3. /\ walk[0] = series[s]
      /\ \A n \in Nat : walk[n + 1] = Checkpoint(s, walk[n], t)
  <2>1. \A n \in Nat : walk[n] = IF n = 0 THEN series[s] ELSE Checkpoint(s, walk[n - 1], t)
    BY <1>1 DEF Walks
  <2>2. ASSUME NEW n \in Nat PROVE n + 1 \in Nat /\ n + 1 # 0 /\ (n + 1) - 1 = n
    OBVIOUS
  <2> QED
    BY <2>1, <2>2
<1>4. AvailableSamples(t) \in Nat /\ AvailableSamples(t) <= TotalSamples /\ MaxSamples \in Nat \ {0}
      /\ TotalSamples \in Nat
  BY AvailableNat, WindowAssumption DEF TotalSamples
<1>5. Nat \subseteq I
  <2>1. 0 \in I
    <3>1. series[s] \in SeriesState
      BY DEF Types
    <3> QED
      BY <1>3, <3>1 DEF Refreshed, SeriesState
  <2>2. ASSUME NEW n \in Nat, n \in I PROVE n + 1 \in I
    <3>1. series[s] \in SeriesState /\ walk[n] \in Refreshed(series[s])
      BY <2>2 DEF Types
    <3>2. /\ walk[n + 1] \in Refreshed(series[s])
          /\ walk[n + 1].samples = Least(AvailableSamples(t), walk[n].samples + MaxSamples)
      <4>1. walk[n + 1] = Checkpoint(s, walk[n], t)
        BY <1>3
      <4>2. /\ Checkpoint(s, walk[n], t) \in Refreshed(series[s])
            /\ Checkpoint(s, walk[n], t).samples
                 = Least(AvailableSamples(t), walk[n].samples + MaxSamples)
        BY <3>1, CheckpointRefreshes
      <4> QED
        BY <4>1, <4>2
    <3>3. walk[n].samples \in Nat
      BY <3>1 DEF Refreshed, SeriesState
    <3>4. \/ walk[n + 1].samples >= AvailableSamples(t)
          \/ walk[n + 1].samples >= (n + 1) + 1
      BY <1>4, <2>2, <3>2, <3>3 DEF Least
    <3> QED
      BY <3>2, <3>4
  <2> HIDE DEF I
  <2> QED
    BY <2>1, <2>2, NatInductive
<1>6. IsCurrent(walk[TotalSamples], t)
  <2>1. /\ walk[TotalSamples] \in Refreshed(series[s])
        /\ \/ walk[TotalSamples].samples >= AvailableSamples(t)
           \/ walk[TotalSamples].samples >= TotalSamples + 1
    BY <1>4, <1>5
  <2>2. walk[TotalSamples].samples \in Nat
    BY <2>1 DEF Refreshed, SeriesState
  <2> QED
    BY <1>4, <2>1, <2>2 DEF IsCurrent
<1> DEFINE n == CHOOSE n \in 0..TotalSamples : IsCurrent(walk[n], t)
<1>7. n \in 0..TotalSamples /\ IsCurrent(walk[n], t)
  BY <1>4, <1>6
<1>8. BringCurrent(s, t) = walk[n]
  BY <1>2
<1> HIDE DEF n
<1>9. n \in Nat
  BY <1>4, <1>7
<1> QED
  BY <1>5, <1>7, <1>8, <1>9


-----------------------------------------------------------------------------
(* Quotes and fills of a series that is current.                           *)

LEMMA DecayedInt ==
    ASSUME Types, NEW s \in AllSeries, NEW r \in SeriesState
    PROVE  Decayed(s, r) \in Int
<1>1. r.skew \in Int /\ r.lastSkew \in Nat /\ now \in Nat
  BY WindowAssumption DEF SeriesState, Types
<1>2. Greatest(0, now - r.lastSkew) \in Nat
  BY <1>1 DEF Greatest
<1> QED
  BY <1>1, <1>2, Terms, DecaySkewInt DEF Decayed

LEMMA QuoteOfSeries ==
    ASSUME Types, NEW s \in AllSeries, NEW r \in SeriesState
    PROVE  /\ Quote(s, r).ask \in Nat /\ Quote(s, r).bid \in Nat
           /\ Quote(s, r).askSlope \in Nat /\ Quote(s, r).bidSlope \in Nat
<1> DEFINE p == Params[s]
           projected == Projected(s, r)
           remaining == Expiry - Processed(r)
<1>1. /\ Processed(r) \in Nat /\ remaining \in Nat /\ r.sum \in Nat /\ Expiry \in Nat
  BY WindowAssumption DEF Processed, SeriesState, TotalSamples
<1>2. projected \in Nat
  <2> DEFINE forward == ForwardVariance(p.anchor, Decayed(s, r), p.cap)
             realized == RealizedSoFar(r)
  <2>1. forward \in Nat
    <3>1. p.anchor \in Int /\ p.cap \in Nat
      BY Terms
    <3>2. Decayed(s, r) \in Int
      BY DecayedInt
    <3> HIDE DEF p
    <3> QED
      BY <3>1, <3>2, ForwardVarianceNat
  <2>2. realized \in Nat
    BY <1>1, AnnualizeNat DEF RealizedSoFar
  <2>3. projected = ProjectedVariance(realized, Processed(r), forward, remaining)
    BY DEF Projected
  <2> HIDE DEF forward, realized, projected, remaining
  <2> QED
    BY <1>1, <2>1, <2>2, <2>3, ProjectedVarianceNat
<1>3. Quote(s, r) =
        [ask      |-> AskVariance(projected, p.spread, p.cap),
         bid      |-> BidVariance(projected, p.spread, p.cap),
         askSlope |-> AskSlope(p.impact, remaining, Expiry, p.spread),
         bidSlope |-> BidSlope(p.impact, remaining, Expiry, p.spread)]
  BY DEF Quote
<1>4. /\ p.spread \in 0..BPS /\ p.cap \in Nat /\ p.impact \in Nat
  BY Terms
<1> HIDE DEF projected, remaining, p
<1> QED
  BY SMTT(30), <1>1, <1>2, <1>3, <1>4, QuoteNat

LEMMA MinOfFour ==
    ASSUME NEW a \in Int, NEW b \in Int, NEW c \in Int, NEW d \in Int
    PROVE  /\ Min({a, b, c, d}) \in Int
           /\ Min({a, b, c, d}) <= a /\ Min({a, b, c, d}) <= b
           /\ Min({a, b, c, d}) <= c /\ Min({a, b, c, d}) <= d
<1>1. \E x \in {a, b, c, d} : \A y \in {a, b, c, d} : x <= y
  <2>1. CASE a <= b /\ a <= c /\ a <= d
    BY <2>1
  <2>2. CASE b <= a /\ b <= c /\ b <= d
    BY <2>2
  <2>3. CASE c <= a /\ c <= b /\ c <= d
    BY <2>3
  <2>4. CASE d <= a /\ d <= b /\ d <= c
    BY <2>4
  <2> QED
    BY <2>1, <2>2, <2>3, <2>4
<1>2. /\ Min({a, b, c, d}) \in {a, b, c, d}
      /\ \A y \in {a, b, c, d} : Min({a, b, c, d}) <= y
  BY <1>1 DEF Min
<1> QED
  BY <1>2

\* The units of a series r once more of them are sold, and the fill's premium.
LEMMA IssueFillSound ==
    ASSUME Types, vault.locked <= vault.balance, NEW s \in AllSeries, NEW r \in SeriesState,
           NEW amount \in Nat, IssueFill(s, r, amount).units # 0
    PROVE  LET f == IssueFill(s, r, amount) IN
           /\ ~r.finalized
           /\ f.units \in Nat \ {0} /\ f.quote \in Nat
           /\ f.units <= r.available
           /\ Cap(s, r.outstanding + f.units) <= r.liability + Free(vault)
<1> DEFINE p == Params[s]
           q == Quote(s, r)
           units == IssueUnits(s, r, amount)
           premium == IssuePremium(q.ask, q.askSlope, p.notional, units)
           asked == IssueUnitsFor(q.ask, q.askSlope, p.notional, amount)
           toCap == IssueUnitsToCap(q.ask, q.askSlope, p.cap)
           backed == IssueUnitsToCollateral(r.outstanding, r.liability, Free(vault),
                                            p.notional, p.cap)
<1>1. /\ p.notional \in Nat \ {0} /\ p.cap \in Nat \ {0}
      /\ q.ask \in Nat /\ q.askSlope \in Nat
      /\ r.outstanding \in Nat /\ r.available \in Nat /\ r.liability \in Nat
  BY Terms, QuoteOfSeries DEF SeriesState
<1>2. Free(vault) \in Nat
  BY DEF Types, Vaults, Free
<1>3. IssueFill(s, r, amount)
        = IF IssuanceOpen(s, r) /\ units > 0 /\ premium > 0
          THEN [units |-> units, quote |-> premium] ELSE NoFill
  BY DEF IssueFill
<1>4. units = Min({asked, r.available, toCap, backed})
  BY DEF IssueUnits
<1> HIDE DEF p, q, units
<1>5. asked \in Int /\ toCap \in Int /\ backed \in Int
  <2>1. asked \in Int
    <3>1. IssueUnitsFor(q.ask, q.askSlope, p.notional, amount) \in Nat
      BY <1>1, IssueUnitsForNat
    <3> QED
      BY <3>1
  <2>2. toCap \in Int
    BY <1>1, LimitsInt
  <2>3. backed \in Int
    BY <1>1, <1>2, CollateralLimitInt
  <2> QED
    BY <2>1, <2>2, <2>3
<1>6. units \in Int /\ units <= r.available /\ units <= backed
  <2> HIDE DEF asked, toCap, backed
  <2>1. r.available \in Int
    BY <1>1
  <2>2. /\ Min({asked, r.available, toCap, backed}) \in Int
        /\ Min({asked, r.available, toCap, backed}) <= r.available
        /\ Min({asked, r.available, toCap, backed}) <= backed
    BY <1>5, <2>1, MinOfFour
  <2> QED
    BY <1>4, <2>2
<1> HIDE DEF premium
<1>7. /\ IssuanceOpen(s, r) /\ units > 0
      /\ IssueFill(s, r, amount).units = units /\ IssueFill(s, r, amount).quote = premium
  BY <1>3 DEF NoFill
<1>8. units \in Nat \ {0}
  BY <1>6, <1>7
<1>9. premium \in Nat
  BY <1>1, <1>8, IssuePremiumNat DEF premium
<1>10. Cap(s, r.outstanding + units) <= r.liability + Free(vault)
  BY <1>1, <1>2, <1>6, <1>8, IssueWithinCollateral DEF Cap, p
<1> QED
  BY <1>6, <1>7, <1>8, <1>9, <1>10 DEF IssuanceOpen

\* A sale pays out no more than its burn releases.
LEMMA SaleSound ==
    ASSUME Types, NEW r \in SeriesState, NEW units \in Int, NEW amount \in Int, NEW owed \in Nat,
           Sale(r, units, amount, owed).units # 0
    PROVE  LET f == Sale(r, units, amount, owed) IN
           /\ f.units = units /\ units > 0
           /\ f.quote \in Nat \ {0} /\ f.quote <= f.released /\ f.quote <= vault.balance
           /\ f.released = r.liability - owed /\ f.released \in Nat
<1> DEFINE out == Clamped(amount, r.liability - owed)
<1>1. r.liability \in Nat /\ vault.balance \in Nat
  BY DEF SeriesState, Types, Vaults
<1>2. Sale(r, units, amount, owed)
        = IF units > 0 /\ out > 0
          THEN [units |-> units, quote |-> out, released |-> r.liability - owed]
          ELSE NoFill
  BY DEF Sale
<1>3. out \in Int /\ out <= r.liability - owed /\ out <= vault.balance
  BY <1>1 DEF Clamped, Least
<1> HIDE DEF out
<1>4. units > 0 /\ out > 0
  BY <1>2 DEF NoFill
<1> QED
  BY <1>1, <1>2, <1>3, <1>4

LEMMA ExitFillSound ==
    ASSUME Types, NEW s \in AllSeries, NEW r \in SeriesState, NEW want \in Nat,
           ExitFill(s, r, want).units # 0
    PROVE  LET f == ExitFill(s, r, want) IN
           /\ ~r.finalized
           /\ f.units \in Nat /\ f.units <= want /\ f.units <= r.outstanding
           /\ f.quote \in Nat \ {0} /\ f.quote <= f.released /\ f.quote <= vault.balance
           /\ f.released = r.liability - Cap(s, r.outstanding - f.units) /\ f.released \in Nat
<1> DEFINE p == Params[s]
           q == Quote(s, r)
           limit == ExitUnitsToZeroBid(q.bid, q.bidSlope)
           units == Min({want, r.outstanding, limit})
           amount == ExitProceeds(q.bid, q.bidSlope, p.notional, units)
           owed == Cap(s, r.outstanding - units)
<1>1. /\ p.notional \in Nat /\ p.cap \in Nat /\ q.bid \in Nat /\ q.bidSlope \in Nat
      /\ r.outstanding \in Nat
  BY Terms, QuoteOfSeries DEF SeriesState
<1>2. limit \in Int
  BY <1>1, LimitsInt
<1>3. ExitOpen(r) /\ ExitFill(s, r, want) = Sale(r, units, amount, owed)
  BY DEF ExitFill, NoFill
<1> HIDE DEF p, q, limit
<1>4. units \in Int /\ units <= want /\ units <= r.outstanding
  <2>1. want \in Int /\ r.outstanding \in Int
    BY <1>1
  <2>2. /\ Min({r.outstanding, want, limit}) \in Int /\ Min({r.outstanding, want, limit}) <= want
        /\ Min({want, r.outstanding, limit}) <= r.outstanding
    BY <1>2, <2>1, MinInt
  <2>3. {r.outstanding, want, limit} = {want, r.outstanding, limit}
    OBVIOUS
  <2> QED
    BY <2>2, <2>3 DEF units
<1> HIDE DEF units
<1>5. units > 0
  BY <1>3 DEF Sale, NoFill
<1>6. units \in Nat /\ r.outstanding - units \in Nat
  BY <1>1, <1>4, <1>5
<1>7. amount \in Int /\ owed \in Nat
  BY <1>1, <1>6, ExitProceedsInt, CapNat
<1> HIDE DEF amount, owed
<1>8. LET f == Sale(r, units, amount, owed) IN
      /\ f.units = units
      /\ f.quote \in Nat \ {0} /\ f.quote <= f.released /\ f.quote <= vault.balance
      /\ f.released = r.liability - owed /\ f.released \in Nat
  BY <1>3, <1>4, <1>7, SaleSound
<1> QED
  BY <1>3, <1>4, <1>6, <1>8 DEF ExitOpen, owed


-----------------------------------------------------------------------------
(* The state after one series and one holding have changed                 *)

LEMMA SumsOfSeries ==
    ASSUME NEW ser \in [AllSeries -> SeriesState]
    PROVE  /\ Liabilities(ser) \in [AllSeries -> Nat]
           /\ Liabilities(ser) \in [AllSeries -> Int]
           /\ Income(ser) \in [AllSeries -> Int]
           /\ SumFunction(Liabilities(ser)) \in Int /\ SumFunction(Income(ser)) \in Int
<1>1. ASSUME NEW s \in AllSeries
      PROVE  ser[s].liability \in Nat /\ Net(ser[s]) \in Int
  <2>1. ser[s] \in SeriesState
    OBVIOUS
  <2> QED
    BY <2>1 DEF SeriesState, Net
<1>2. /\ Liabilities(ser) \in [AllSeries -> Nat] /\ Income(ser) \in [AllSeries -> Int]
      /\ Liabilities(ser) \in [AllSeries -> Int]
  BY <1>1 DEF Liabilities, Income
<1> QED
  BY <1>2, Names, SumType

\* What the change of one series does to both sums.
LEMMA SumsMove ==
    ASSUME NEW ser \in [AllSeries -> SeriesState], NEW new \in [AllSeries -> SeriesState],
           NEW s \in AllSeries, \A t \in AllSeries \ {s} : new[t] = ser[t]
    PROVE  /\ SumFunction(Liabilities(new))
                = SumFunction(Liabilities(ser)) + (new[s].liability - ser[s].liability)
           /\ SumFunction(Income(new))
                = SumFunction(Income(ser)) + (Net(new[s]) - Net(ser[s]))
<1> DEFINE f == Liabilities(ser)
           e == Liabilities(new)
<1>2. f \in [AllSeries -> Int] /\ e \in [AllSeries -> Int]
  BY SumsOfSeries
<1>3. /\ f[s] = ser[s].liability /\ e[s] = new[s].liability
      /\ \A t \in AllSeries \ {s} : e[t] = f[t]
  BY DEF Liabilities
<1> HIDE DEF f, e
<1>4. SumFunction(e) = SumFunction(f) + (e[s] - f[s])
  <2>1. IsFiniteSet(AllSeries)
    BY Names
  <2>2. \A t \in AllSeries \ {s} : e[t] = f[t]
    BY <1>3
  <2> QED
    BY <1>2, <2>1, <2>2, SumExcept
<1> DEFINE g == Income(ser)
           k == Income(new)
<1>5. g \in [AllSeries -> Int] /\ k \in [AllSeries -> Int]
  BY SumsOfSeries
<1>6. /\ g[s] = Net(ser[s]) /\ k[s] = Net(new[s])
      /\ \A t \in AllSeries \ {s} : k[t] = g[t]
  BY DEF Income
<1> HIDE DEF g, k
<1>7. SumFunction(k) = SumFunction(g) + (k[s] - g[s])
  <2>1. IsFiniteSet(AllSeries)
    BY Names
  <2>2. \A t \in AllSeries \ {s} : k[t] = g[t]
    BY <1>6
  <2> QED
    BY <1>5, <2>1, <2>2, SumExcept
<1> QED
  BY <1>3, <1>4, <1>6, <1>7 DEF f, e, g, k

\* A fill moves d units between a holder and the series it trades.
LEMMA HeldMoves ==
    ASSUME Types, UnitsHeld(series, held), NEW h \in Holders \union Siblings,
           NEW s, s = SeriesOf(h), NEW r \in SeriesState, NEW d \in Int,
           series' = [series EXCEPT ![s] = r],
           held' = [held EXCEPT ![h] = @ + d], held[h] + d \in Nat,
           r.outstanding = series[s].outstanding + d
    PROVE  UnitsHeld(series', held') /\ held' \in [Holders \union Siblings -> Nat]
<1>1. /\ held \in [Holders \union Siblings -> Nat] /\ series \in [AllSeries -> SeriesState]
      /\ series[Main].outstanding = SumFunction(MainUnits(held))
      /\ \A x \in Siblings : series[x].outstanding = held[x]
  BY DEF Types, UnitsHeld
<1>2. held' \in [Holders \union Siblings -> Nat]
  BY <1>1
<1>3. CASE h \in Siblings
  <2>1. s = h /\ s # Main /\ h \notin Holders /\ s \in AllSeries
    BY <1>3, Names DEF SeriesOf
  <2>2. series'[Main] = series[Main] /\ \A x \in Siblings \ {s} : series'[x] = series[x]
    BY <1>1, <2>1, Names
  <2>3. series'[s] = r /\ held'[s] = held[s] + d
    BY <1>1, <1>3, <2>1
  <2>4. MainUnits(held') = MainUnits(held)
    BY <1>1, <2>1 DEF MainUnits
  <2>5. ASSUME NEW x \in Siblings PROVE series'[x].outstanding = held'[x]
    <3>1. CASE x = s
      BY <1>1, <1>3, <2>1, <2>3, <3>1
    <3>2. CASE x # s
      BY <1>1, <2>1, <2>2, <3>2
    <3> QED
      BY <3>1, <3>2
  <2> QED
    BY <1>1, <1>2, <2>2, <2>4, <2>5 DEF UnitsHeld
<1>4. CASE h \notin Siblings
  <2>1. s = Main /\ h \in Holders
    BY <1>4 DEF SeriesOf
  <2>2. \A x \in Siblings : series'[x] = series[x] /\ held'[x] = held[x]
    BY <1>1, <2>1, Names
  <2> DEFINE f == MainUnits(held)
             e == MainUnits(held')
  <2>3. f \in [Holders -> Int] /\ e \in [Holders -> Int]
    BY <1>1, <1>2 DEF MainUnits
  <2>4. f[h] = held[h] /\ e[h] = held[h] + d /\ \A x \in Holders \ {h} : e[x] = f[x]
    BY <1>1, <2>1 DEF MainUnits
  <2> HIDE DEF f, e
  <2>5. SumFunction(e) = SumFunction(f) + (e[h] - f[h])
    BY <2>1, <2>3, <2>4, Names, SumExcept
  <2>6. SumFunction(f) = series[Main].outstanding /\ held[h] \in Int
        /\ series[Main].outstanding \in Int
    BY <1>1, Names DEF f, SeriesState
  <2>7. SumFunction(e) = series[Main].outstanding + d
    BY <2>4, <2>5, <2>6
  <2>8. series'[Main].outstanding = SumFunction(MainUnits(held'))
    BY <1>1, <2>1, <2>7, Names DEF e
  <2> QED
    BY <1>1, <1>2, <2>2, <2>8 DEF UnitsHeld
<1> QED
  BY <1>3, <1>4

LEMMA HeldStays ==
    ASSUME Types, UnitsHeld(series, held), NEW s \in AllSeries, NEW r \in SeriesState,
           series' = [series EXCEPT ![s] = r], UNCHANGED held,
           r.outstanding = series[s].outstanding
    PROVE  UnitsHeld(series', held') /\ held' \in [Holders \union Siblings -> Nat]
<1>1. \A x \in AllSeries : series'[x].outstanding = series[x].outstanding
  BY DEF Types
<1> QED
  BY <1>1, Names DEF UnitsHeld, Types

\* The ledger stays sound when one series changes and the vault follows it.
LEMMA SeriesStep ==
    ASSUME Sound, NEW s \in AllSeries, NEW r \in SeriesState, r.liability = Due(s, r),
           series' = [series EXCEPT ![s] = r],
           vault' \in Vaults,
           vault'.locked = vault.locked + (r.liability - series[s].liability),
           vault'.balance = vault.balance
                              + (Net(r) - Net(series[s])),
           vault'.locked <= vault'.balance,
           held' \in [Holders \union Siblings -> Nat], UnitsHeld(series', held'),
           UNCHANGED <<now, path>>,
           phase' # "window" => \A t \in AllSeries : series'[t].finalized
    PROVE  Sound'
<1>1. series \in [AllSeries -> SeriesState] /\ series' \in [AllSeries -> SeriesState]
  BY DEF Sound, Types
<1>2. Types'
  BY <1>1 DEF Sound, Types
<1>3. ASSUME NEW t \in AllSeries PROVE series'[t].liability = Due(t, series'[t])
  <2>1. CASE t = s
    BY <1>1, <2>1
  <2>2. CASE t # s
    BY <1>1, <2>2 DEF Sound
  <2> QED
    BY <2>1, <2>2
<1>4. /\ SumFunction(Liabilities(series'))
           = SumFunction(Liabilities(series)) + (r.liability - series[s].liability)
      /\ SumFunction(Income(series'))
           = SumFunction(Income(series))
               + (Net(r) - Net(series[s]))
  <2>0. s \in AllSeries
    OBVIOUS
  <2>1. series'[s] = r
    BY <1>1
  <2>2. \A t \in AllSeries \ {s} : series'[t] = series[t]
    BY <1>1
  <2>3. /\ SumFunction(Liabilities(series'))
             = SumFunction(Liabilities(series)) + (series'[s].liability - series[s].liability)
        /\ SumFunction(Income(series'))
             = SumFunction(Income(series)) + (Net(series'[s]) - Net(series[s]))
    BY ONLY <1>1, <2>0, <2>2, SumsMove
  <2> QED
    BY <2>1, <2>3
<1>5. vault'.locked = SumFunction(Liabilities(series'))
  BY <1>4 DEF Sound
<1>6. vault'.balance = Collateral + SumFunction(Income(series'))
  <2> DEFINE x == SumFunction(Income(series))
             y == Net(r) - Net(series[s])
  <2>1. x \in Int /\ y \in Int /\ Collateral \in Nat
    <3>1. series[s] \in SeriesState
      BY <1>1
    <3>2. y \in Int
      BY <3>1 DEF SeriesState, Net
    <3> QED
      BY <1>1, <3>2, InputsAssumption, SumsOfSeries
  <2>2. vault'.balance = (Collateral + x) + y /\ SumFunction(Income(series')) = x + y
    BY <1>4 DEF Sound
  <2> HIDE DEF x, y
  <2> QED
    BY <2>1, <2>2
<1> QED
  BY <1>2, <1>3, <1>5, <1>6 DEF Sound, Due, UnitsHeld, MainUnits, Liabilities, Income, Net, Owed, Cap


-----------------------------------------------------------------------------
(* What the vault does, and what the escrow makes of it                    *)

\* The escrow adds up as the simulator does.
LEMMA SameSum ==
    ASSUME NEW f
    PROVE  Escrow!SumFunction(f) = SumFunction(f)
  BY DEF SumFunction, SumFunctionOnSet, FoldFunctionOnSet, MapThenFoldSet,
         Escrow!SumFunction, Escrow!SumFunctionOnSet, Escrow!FoldFunctionOnSet,
         Escrow!MapThenFoldSet

LEMMA ReservesInEscrow ==
    ASSUME Sound, NEW s \in AllSeries, NEW r \in SeriesState,
           series' = [series EXCEPT ![s] = r], vault'.balance >= vault.balance,
           r.liability >= series[s].liability,
           r.liability - series[s].liability <= Free(vault)
    PROVE  Escrow!Next
<1> DEFINE amount == r.liability - series[s].liability
           old == Liabilities(series)
           new == Liabilities(series')
<1>1. /\ series[s] \in SeriesState /\ series \in [AllSeries -> SeriesState]
      /\ vault.locked = SumFunction(old) /\ vault \in Vaults
  BY DEF Sound, Types
<1>2. series[s].liability \in Nat /\ r.liability \in Nat /\ vault.balance \in Nat
      /\ vault.locked \in Nat
  BY <1>1 DEF SeriesState, Vaults
<1>3. amount \in 0..(vault.balance - vault.locked)
  BY <1>2 DEF Free
<1>4. Escrow!Free = vault.balance - vault.locked
  BY <1>1, SameSum DEF Escrow!Free, Escrow!Reserved, Liabilities
<1>5. new = [old EXCEPT ![s] = @ + amount]
  <2>1. \A t \in AllSeries : series'[t].liability
                                = IF t = s THEN series[s].liability + amount ELSE series[t].liability
    BY <1>1, <1>2
  <2> HIDE DEF amount
  <2> QED
    BY <2>1 DEF Liabilities
<1> HIDE DEF amount
<1>6. Escrow!Reserve(s)
  BY <1>3, <1>4, <1>5 DEF Escrow!Reserve, Liabilities
<1> QED
  BY <1>6 DEF Escrow!Next

LEMMA ReleasesInEscrow ==
    ASSUME Sound, NEW s \in AllSeries, NEW r \in SeriesState,
           series' = [series EXCEPT ![s] = r], r.liability <= series[s].liability,
           vault'.balance \in Int, vault'.balance <= vault.balance,
           vault.balance - vault'.balance <= series[s].liability - r.liability
    PROVE  Escrow!Next
<1> DEFINE amount == series[s].liability - r.liability
           old == Liabilities(series)
           new == Liabilities(series')
<1>1. series[s] \in SeriesState /\ series \in [AllSeries -> SeriesState] /\ vault \in Vaults
  BY DEF Sound, Types
<1>2. series[s].liability \in Nat /\ r.liability \in Nat /\ vault.balance \in Nat
  BY <1>1 DEF SeriesState, Vaults
<1>3. /\ amount \in 0..series[s].liability
      /\ vault'.balance \in (vault.balance - amount)..vault.balance
  BY <1>2
<1>4. new = [old EXCEPT ![s] = @ - amount] /\ old[s] = series[s].liability
  <2>1. \A t \in AllSeries : series'[t].liability
                                = IF t = s THEN series[s].liability - amount ELSE series[t].liability
    BY <1>1, <1>2
  <2> HIDE DEF amount
  <2> QED
    BY <2>1 DEF Liabilities
<1> HIDE DEF amount
<1>5. Escrow!Release(s)
  BY <1>3, <1>4 DEF Escrow!Release, Liabilities
<1> QED
  BY <1>5 DEF Escrow!Next

\* What one series owes is part of what is locked.
LEMMA LiabilityLocked ==
    ASSUME Sound, NEW s \in AllSeries
    PROVE  series[s].liability <= vault.locked
<1>1. Liabilities(series) \in [AllSeries -> Nat] /\ IsFiniteSet(AllSeries)
  BY Names, SumsOfSeries DEF Sound, Types
<1>2. Liabilities(series)[s] <= SumFunction(Liabilities(series))
  BY <1>1, SumBound
<1>3. Liabilities(series)[s] = series[s].liability
  BY DEF Liabilities
<1> QED
  BY <1>2, <1>3 DEF Sound

\* Nothing is thrown when the reservation is within the free collateral.
LEMMA IssueVaultIs ==
    ASSUME Sound, NEW s \in AllSeries, NEW r \in SeriesState, NEW f,
           f.units \in Nat, f.quote \in Nat,
           Cap(s, r.outstanding + f.units) <= r.liability + Free(vault),
           r.liability = series[s].liability
    PROVE  LET d == Cap(s, r.outstanding + f.units) - r.liability IN
           /\ IssueVault(s, r, f) \in Vaults
           /\ IssueVault(s, r, f).locked = vault.locked + d
           /\ IssueVault(s, r, f).balance = vault.balance + f.quote
           /\ IssueVault(s, r, f).error = vault.error
           /\ vault.locked + d <= vault.balance + f.quote
<1> DEFINE cap == Cap(s, r.outstanding + f.units)
           d == cap - r.liability
           v == [vault EXCEPT !.locked = vault.locked + d]
           w == [v EXCEPT !.balance = vault.balance + f.quote]
<1>1. /\ vault.balance \in Nat /\ vault.locked \in Nat /\ vault.locked <= vault.balance
      /\ vault \in Vaults
  BY DEF Sound, Types, Vaults
<1>2. cap \in Nat /\ r.liability \in Nat
  BY CapNat DEF SeriesState
<1>3. r.liability <= vault.locked
  BY LiabilityLocked
<1>4. cap <= r.liability + (vault.balance - vault.locked)
  BY DEF Free
<1> HIDE DEF cap
<1>5. d \in Int /\ vault.locked + d \in Nat /\ vault.locked + d <= vault.balance
  BY <1>1, <1>2, <1>3, <1>4
<1>6. IncreaseLocked(vault, d) = v
  <2>1. v.balance = vault.balance /\ v.locked = vault.locked + d
    BY <1>1 DEF Vaults
  <2>2. ~(v.balance < v.locked)
    BY <1>1, <1>5, <2>1
  <2> HIDE DEF d
  <2> QED
    BY <2>2 DEF IncreaseLocked, AssertSolvent
<1> HIDE DEF d
<1>7. v.balance = vault.balance /\ v.locked = vault.locked + d /\ v \in Vaults
      /\ v.error = vault.error
  BY <1>1, <1>5 DEF Vaults
<1> HIDE DEF v
<1>8. /\ w.balance = vault.balance + f.quote /\ w.locked = vault.locked + d /\ w \in Vaults
      /\ w.error = vault.error
  BY <1>1, <1>7 DEF Vaults
<1>9. vault.locked + d <= vault.balance + f.quote
  BY <1>1, <1>5
<1>10. Credit(v, f.quote) = w
  <2>1. ~(w.balance < w.locked)
    BY <1>1, <1>5, <1>8, <1>9
  <2> QED
    BY <1>7, <2>1 DEF Credit, AssertSolvent
<1>11. IssueVault(s, r, f) = w
  BY <1>6, <1>10 DEF IssueVault, d, cap
<1> QED
  BY <1>8, <1>9, <1>11 DEF d, cap

\* Nothing is thrown when what is released is locked.
LEMMA DecreaseLockedIs ==
    ASSUME NEW v \in Vaults, v.locked <= v.balance, NEW x \in Nat, x <= v.locked
    PROVE  /\ DecreaseLocked(v, x) \in Vaults
           /\ DecreaseLocked(v, x).locked = v.locked - x
           /\ DecreaseLocked(v, x).balance = v.balance
           /\ DecreaseLocked(v, x).error = v.error
<1> DEFINE w == [v EXCEPT !.locked = v.locked - x]
<1>1. v.balance \in Nat /\ v.locked \in Nat /\ v.locked - x \in Nat
  BY DEF Vaults
<1>2. /\ w \in Vaults /\ w.locked = v.locked - x /\ w.balance = v.balance
      /\ w.error = v.error
  BY <1>1 DEF Vaults
<1>3. ~(w.balance < w.locked) /\ ~(x > v.locked)
  BY <1>1, <1>2
<1>4. DecreaseLocked(v, x) = w
  BY <1>3 DEF DecreaseLocked, AssertSolvent
<1> QED
  BY <1>2, <1>4

LEMMA DebitIs ==
    ASSUME NEW v \in Vaults, NEW x \in Nat, v.locked <= v.balance - x
    PROVE  /\ Debit(v, x) \in Vaults
           /\ Debit(v, x).locked = v.locked
           /\ Debit(v, x).balance = v.balance - x
           /\ Debit(v, x).error = v.error
<1> DEFINE w == [v EXCEPT !.balance = v.balance - x]
<1>1. v.balance \in Nat /\ v.locked \in Nat /\ v.balance - x \in Nat
  BY DEF Vaults
<1>2. /\ w \in Vaults /\ w.locked = v.locked /\ w.balance = v.balance - x
      /\ w.error = v.error
  BY <1>1 DEF Vaults
<1>3. ~(w.balance < w.locked) /\ ~(x > v.balance)
  BY <1>1, <1>2
<1>4. Debit(v, x) = w
  BY <1>3 DEF Debit, AssertSolvent
<1> QED
  BY <1>2, <1>4

LEMMA PayOutIs ==
    ASSUME Sound, NEW f, f.quote \in Nat, f.released \in Nat, f.quote <= f.released,
           f.released <= vault.locked
    PROVE  /\ PayOut(f) \in Vaults
           /\ PayOut(f).locked = vault.locked - f.released
           /\ PayOut(f).balance = vault.balance - f.quote
           /\ PayOut(f).error = vault.error
           /\ vault.locked - f.released <= vault.balance - f.quote
<1> DEFINE v == DecreaseLocked(vault, f.released)
<1>1. /\ vault \in Vaults /\ vault.locked <= vault.balance
      /\ vault.locked \in Nat /\ vault.balance \in Nat
  BY DEF Sound, Types, Vaults
<1>2. /\ v \in Vaults /\ v.locked = vault.locked - f.released
      /\ v.balance = vault.balance /\ v.error = vault.error
  BY <1>1, DecreaseLockedIs
<1>3. PayOut(f) = Debit(v, f.quote)
  BY DEF PayOut
<1> HIDE DEF v
<1>4. vault.locked - f.released <= vault.balance - f.quote
  BY <1>1
<1> QED
  BY <1>1, <1>2, <1>3, <1>4, DebitIs

-----------------------------------------------------------------------------
(* The steps of the driver                                                 *)

\* A step that leaves the accounts of a series as they are.
LEMMA IdleStep ==
    ASSUME Sound, phase = "window", NEW s \in AllSeries, NEW r \in SeriesState,
           r.outstanding = series[s].outstanding, r.liability = series[s].liability,
           r.finalized = series[s].finalized, r.ppu = series[s].ppu,
           r.premium = series[s].premium, r.paid = series[s].paid,
           series' = [series EXCEPT ![s] = r],
           UNCHANGED <<now, phase, vault, held, path>>
    PROVE  Sound' /\ Escrow!Next /\ vault'.error = vault.error
<1>1. /\ series[s] \in SeriesState /\ vault \in Vaults /\ Types /\ UnitsHeld(series, held)
      /\ vault.locked <= vault.balance
  BY DEF Sound, Types
<1>2. vault.locked \in Nat /\ vault.balance \in Nat /\ r.liability \in Nat /\ Net(r) \in Int
  BY <1>1 DEF Vaults, SeriesState, Net
<1>3. held' \in [Holders \union Siblings -> Nat] /\ UnitsHeld(series', held')
  BY <1>1, HeldStays
<1>4. r.liability = Due(s, r)
  BY DEF Sound, Due, Owed
<1>5. Net(r) = Net(series[s])
  BY DEF Net
<1>6. /\ vault'.locked = vault.locked + (r.liability - series[s].liability)
      /\ vault'.balance = vault.balance + (Net(r) - Net(series[s]))
      /\ vault' \in Vaults /\ vault'.locked <= vault'.balance
  BY <1>1, <1>2, <1>5
<1>7. Sound'
  BY <1>3, <1>4, <1>6, SeriesStep
<1>8. Escrow!Next
  <2>1. /\ r.liability <= series[s].liability
        /\ vault'.balance \in Int /\ vault'.balance <= vault.balance
        /\ vault.balance - vault'.balance <= series[s].liability - r.liability
    BY <1>2
  <2> QED
    BY <2>1, ReleasesInEscrow
<1> QED
  BY <1>7, <1>8

LEMMA IssuedIs ==
    ASSUME Types, NEW s \in AllSeries, NEW r \in SeriesState, NEW f,
           f.units \in Nat, f.quote \in Nat, f.units <= r.available
    PROVE  /\ Issued(s, r, f) \in SeriesState
           /\ Issued(s, r, f).outstanding = r.outstanding + f.units
           /\ Issued(s, r, f).liability = Cap(s, r.outstanding + f.units)
           /\ Issued(s, r, f).finalized = r.finalized
           /\ Net(Issued(s, r, f)) = Net(r) + f.quote
<1> DEFINE skew == Decayed(s, r) + (Params[s].impact * f.units) \div WAD
           cap == Cap(s, r.outstanding + f.units)
           q == [r EXCEPT !.outstanding = r.outstanding + f.units,
                          !.available = r.available - f.units,
                          !.liability = cap, !.premium = r.premium + f.quote,
                          !.skew = skew, !.lastSkew = now]
<1>1. /\ r.outstanding + f.units \in Nat /\ r.available - f.units \in Nat
      /\ r.premium + f.quote \in Nat /\ r.premium \in Int /\ r.paid \in Int
  BY DEF SeriesState
<1>2. cap \in Nat
  BY <1>1, CapNat
<1>3. skew \in Int
  <2>1. Params[s].impact * f.units \in Nat
    BY Terms, TimesNat
  <2>2. (Params[s].impact * f.units) \div WAD \in Nat
    BY <2>1, Scales, DivNat
  <2>3. Decayed(s, r) \in Int
    BY DecayedInt
  <2> QED
    BY <2>2, <2>3
<1>4. now \in Nat
  BY WindowAssumption DEF Types
<1>5. Issued(s, r, f) = q
  BY DEF Issued
<1> HIDE DEF skew, cap
<1>6. q \in SeriesState
  BY <1>1, <1>2, <1>3, <1>4 DEF SeriesState
<1>7. /\ q.outstanding = r.outstanding + f.units /\ q.liability = cap
      /\ q.finalized = r.finalized /\ q.premium = r.premium + f.quote /\ q.paid = r.paid
  BY DEF SeriesState
<1> HIDE DEF q
<1>8. Net(q) = Net(r) + f.quote
  BY <1>1, <1>7 DEF Net
<1> QED
  BY <1>5, <1>6, <1>7, <1>8 DEF cap

\* A fill reserves what its units can cost, out of free collateral.
LEMMA BuySound ==
    ASSUME Sound, phase = "window", NEW h \in Holders \union Siblings,
           NEW s, s = SeriesOf(h), NEW amount \in Nat, BuyOf(s, h, amount),
           UNCHANGED <<now, phase, path>>
    PROVE  Sound' /\ Escrow!Next /\ vault'.error = vault.error
<1> DEFINE r == BringCurrent(s, now)
           f == IssueFill(s, r, amount)
<1>1. /\ Types /\ vault.locked <= vault.balance /\ vault \in Vaults /\ now \in Nat
      /\ UnitsHeld(series, held) /\ s \in AllSeries /\ series[s] \in SeriesState
  BY Names, WindowAssumption DEF Sound, Types, SeriesOf, AllSeries
<1>2. /\ r \in SeriesState /\ r.outstanding = series[s].outstanding
      /\ r.liability = series[s].liability
      /\ r.finalized = series[s].finalized /\ r.ppu = series[s].ppu
      /\ r.premium = series[s].premium /\ r.paid = series[s].paid
  <2>1. r \in Refreshed(series[s])
    BY <1>1, BroughtCurrent
  <2> HIDE DEF r
  <2> QED
    BY <2>1 DEF Refreshed
<1>3. IF f.units = 0
      THEN series' = [series EXCEPT ![s] = r] /\ UNCHANGED <<vault, held>>
      ELSE /\ series' = [series EXCEPT ![s] = Issued(s, r, f)]
           /\ vault' = IssueVault(s, r, f)
           /\ held' = [held EXCEPT ![h] = @ + f.units]
  BY DEF BuyOf
<1> HIDE DEF r
<1>4. CASE f.units = 0
  BY <1>1, <1>2, <1>3, <1>4, IdleStep
<1>5. CASE f.units # 0
  <2> DEFINE q == Issued(s, r, f)
             d == q.liability - series[s].liability
  <2>1. /\ ~r.finalized /\ f.units \in Nat \ {0} /\ f.quote \in Nat
        /\ f.units <= r.available
        /\ Cap(s, r.outstanding + f.units) <= r.liability + Free(vault)
    BY <1>1, <1>2, <1>5, IssueFillSound
  <2> HIDE DEF f
  <2>2. /\ q \in SeriesState
        /\ q.outstanding = series[s].outstanding + f.units
        /\ q.liability = Cap(s, q.outstanding) /\ ~q.finalized
        /\ Net(q) = Net(r) + f.quote
        /\ q.liability = Cap(s, r.outstanding + f.units)
    BY <1>1, <1>2, <2>1, IssuedIs
  <2>3. /\ vault' \in Vaults
        /\ vault'.locked = vault.locked + d
        /\ vault'.balance = vault.balance + f.quote
        /\ vault'.error = vault.error
        /\ vault'.locked <= vault'.balance
    BY <1>1, <1>2, <1>3, <1>5, <2>1, <2>2, IssueVaultIs
  <2>4. /\ series[s].liability \in Nat /\ q.liability \in Nat /\ vault.balance \in Nat
        /\ Net(r) = Net(series[s]) /\ Net(r) \in Int /\ f.quote \in Nat
        /\ r.outstanding \in Nat /\ held[h] \in Nat
    <3>1. held[h] \in Nat
      BY DEF Sound, Types
    <3>2. series[s].liability \in Nat /\ r.outstanding \in Nat /\ r.premium \in Nat
          /\ r.paid \in Nat
      BY <1>1, <1>2 DEF SeriesState
    <3>3. q.liability \in Nat
      <4> HIDE DEF q
      <4> QED
        BY <2>2 DEF SeriesState
    <3>4. Net(r) = Net(series[s]) /\ Net(r) \in Int
      BY <1>2, <3>2 DEF Net
    <3> QED
      BY <1>1, <2>1, <3>1, <3>2, <3>3, <3>4 DEF Vaults
  <2>5. vault'.balance = vault.balance + (Net(q) - Net(series[s]))
    BY <2>2, <2>3, <2>4
  <2>6. UnitsHeld(series', held') /\ held' \in [Holders \union Siblings -> Nat]
    <3>1. f.units \in Int /\ held[h] + f.units \in Nat
      BY <2>1, <2>4
    <3> HIDE DEF q
    <3> QED
      BY ZenonT(60), <1>1, <1>3, <1>5, <2>2, <3>1, HeldMoves DEF q
  <2>7. q.liability = Due(s, q)
    BY <2>2 DEF Due
  <2>8. series' = [series EXCEPT ![s] = q]
    BY <1>3, <1>5
  <2>9. phase' # "window" => \A t \in AllSeries : series'[t].finalized
    OBVIOUS
  <2> HIDE DEF q
  <2>10. Sound'
    BY <1>1, <2>2, <2>3, <2>5, <2>6, <2>7, <2>8, <2>9, SeriesStep
  <2>11. Escrow!Next
    <3>1. series[s].liability = Cap(s, r.outstanding)
      BY <1>1, <1>2, <2>1 DEF Sound, Due
    <3>2. r.outstanding <= r.outstanding + f.units /\ r.outstanding + f.units \in Nat
      BY <2>1, <2>4
    <3>3. Cap(s, r.outstanding) <= Cap(s, r.outstanding + f.units)
      BY <1>1, <2>4, <3>2, Terms, MaxLiabilityMonotone DEF Cap
    <3>4. q.liability >= series[s].liability /\ d <= Free(vault)
      <4>1. Free(vault) \in Int
        BY <1>1 DEF Vaults, Free
      <4> QED
        BY <1>2, <2>1, <2>2, <2>4, <3>1, <3>3, <4>1
    <3>5. vault'.balance >= vault.balance
      BY <2>3, <2>4
    <3> QED
      BY <1>1, <2>2, <2>8, <3>4, <3>5, ReservesInEscrow
  <2> QED
    BY <2>3, <2>10, <2>11
<1> QED
  BY <1>4, <1>5

\* A payout and the burn it is for: an exit at the bid, or a settlement.
LEMMA PayoutSound ==
    ASSUME Sound, NEW h \in Holders \union Siblings, NEW s, s = SeriesOf(h),
           NEW f, f.units \in Nat, f.units <= held[h],
           f.quote \in Nat, f.released \in Nat, f.quote <= f.released,
           NEW q \in SeriesState, q.outstanding = series[s].outstanding - f.units,
           q.liability = series[s].liability - f.released, q.liability = Due(s, q),
           q.finalized = series[s].finalized, Net(q) = Net(series[s]) - f.quote,
           series' = [series EXCEPT ![s] = q], vault' = PayOut(f),
           held' = [held EXCEPT ![h] = @ - f.units],
           UNCHANGED <<now, phase, path>>
    PROVE  Sound' /\ Escrow!Next /\ vault'.error = vault.error
<1>1. /\ Types /\ vault \in Vaults /\ UnitsHeld(series, held)
      /\ s \in AllSeries /\ series[s] \in SeriesState
      /\ held \in [Holders \union Siblings -> Nat] /\ held[h] \in Nat
  BY Names DEF Sound, Types, SeriesOf, AllSeries
<1>2. /\ series[s].liability \in Nat /\ series[s].outstanding \in Nat /\ q.liability \in Nat
      /\ vault.balance \in Nat /\ vault.locked \in Nat
      /\ Net(series[s]) \in Int /\ series \in [AllSeries -> SeriesState]
  <2>1. q.liability \in Nat
    BY DEF SeriesState
  <2>2. series[s].liability \in Nat /\ series[s].outstanding \in Nat /\ Net(series[s]) \in Int
    BY <1>1 DEF SeriesState, Net
  <2>3. vault.balance \in Nat /\ vault.locked \in Nat
    BY <1>1 DEF Vaults
  <2>4. series \in [AllSeries -> SeriesState]
    BY <1>1 DEF Types
  <2> QED
    BY <2>1, <2>2, <2>3, <2>4
<1>3. f.released <= vault.locked
  <2>1. series[s].liability <= vault.locked
    BY <1>1, LiabilityLocked
  <2> QED
    BY <1>2, <2>1
<1>4. /\ vault' \in Vaults /\ vault'.error = vault.error
      /\ vault'.locked = vault.locked - f.released
      /\ vault'.balance = vault.balance - f.quote
      /\ vault'.locked <= vault'.balance
  BY <1>3, PayOutIs
<1>5. /\ vault'.locked = vault.locked + (q.liability - series[s].liability)
      /\ vault'.balance = vault.balance + (Net(q) - Net(series[s]))
  BY <1>2, <1>4
<1>6. UnitsHeld(series', held') /\ held' \in [Holders \union Siblings -> Nat]
  <2> DEFINE d == -f.units
  <2>1. /\ d \in Int /\ held[h] + d \in Nat /\ held[h] + d = held[h] - f.units
        /\ q.outstanding = series[s].outstanding + d
    BY <1>1, <1>2
  <2> HIDE DEF d
  <2>2. held' = [held EXCEPT ![h] = @ + d]
    BY <2>1
  <2> QED
    BY <1>1, <2>1, <2>2, HeldMoves
<1>7. phase' # "window" => \A t \in AllSeries : series'[t].finalized
  <2>1. ASSUME NEW t \in AllSeries PROVE series'[t].finalized = series[t].finalized
    BY <1>2
  <2> QED
    BY <2>1 DEF Sound
<1>8. Sound'
  BY <1>1, <1>4, <1>5, <1>6, <1>7, SeriesStep
<1>9. Escrow!Next
  <2>1. /\ q.liability <= series[s].liability
        /\ vault'.balance \in Int /\ vault'.balance <= vault.balance
        /\ vault.balance - vault'.balance <= series[s].liability - q.liability
    BY <1>2, <1>4
  <2> QED
    BY <1>1, <2>1, ReleasesInEscrow
<1> QED
  BY <1>4, <1>8, <1>9

LEMMA BurnedIs ==
    ASSUME NEW r \in SeriesState, NEW f,
           f.units \in Nat, f.units <= r.outstanding, f.quote \in Nat,
           f.released \in Nat, f.released <= r.liability
    PROVE  /\ Burned(r, f) \in SeriesState
           /\ Burned(r, f).outstanding = r.outstanding - f.units
           /\ Burned(r, f).liability = r.liability - f.released
           /\ Burned(r, f).finalized = r.finalized /\ Burned(r, f).ppu = r.ppu
           /\ Net(Burned(r, f)) = Net(r) - f.quote
<1> DEFINE q == [r EXCEPT !.outstanding = r.outstanding - f.units,
                          !.liability = r.liability - f.released, !.paid = r.paid + f.quote]
<1>1. /\ r.outstanding - f.units \in Nat /\ r.liability - f.released \in Nat
      /\ r.paid + f.quote \in Nat /\ r.premium \in Int /\ r.paid \in Int
  BY DEF SeriesState
<1>2. Burned(r, f) = q
  BY DEF Burned
<1>3. /\ q \in SeriesState /\ q.outstanding = r.outstanding - f.units
      /\ q.liability = r.liability - f.released /\ q.finalized = r.finalized
      /\ q.ppu = r.ppu /\ q.premium = r.premium /\ q.paid = r.paid + f.quote
  BY <1>1 DEF SeriesState
<1> HIDE DEF q
<1>4. Net(q) = Net(r) - f.quote
  BY <1>1, <1>3 DEF Net
<1> QED
  BY <1>2, <1>3, <1>4

LEMMA ExitedIs ==
    ASSUME Types, NEW s \in AllSeries, NEW r \in SeriesState, NEW f,
           f.units \in Nat, f.units <= r.outstanding, f.quote \in Nat,
           f.released \in Nat, f.released <= r.liability
    PROVE  /\ Exited(s, r, f) \in SeriesState
           /\ Exited(s, r, f).outstanding = r.outstanding - f.units
           /\ Exited(s, r, f).liability = r.liability - f.released
           /\ Exited(s, r, f).finalized = r.finalized
           /\ Net(Exited(s, r, f)) = Net(r) - f.quote
<1> DEFINE skew == Decayed(s, r) - (Params[s].impact * f.units) \div WAD
           b == Burned(r, f)
           q == [b EXCEPT !.skew = skew, !.lastSkew = now]
<1>1. skew \in Int /\ now \in Nat
  <2>1. Params[s].impact * f.units \in Nat
    BY Terms, TimesNat
  <2>2. (Params[s].impact * f.units) \div WAD \in Nat
    BY <2>1, Scales, DivNat
  <2>3. Decayed(s, r) \in Int
    BY DecayedInt
  <2>4. now \in Nat
    BY WindowAssumption DEF Types
  <2> QED
    BY <2>2, <2>3, <2>4
<1>2. /\ b \in SeriesState /\ b.outstanding = r.outstanding - f.units
      /\ b.liability = r.liability - f.released
      /\ b.finalized = r.finalized /\ Net(b) = Net(r) - f.quote
  BY BurnedIs
<1>3. Exited(s, r, f) = q
  BY DEF Exited
<1> HIDE DEF skew, b
<1>4. /\ q \in SeriesState /\ q.outstanding = b.outstanding /\ q.liability = b.liability
      /\ q.finalized = b.finalized /\ q.premium = b.premium /\ q.paid = b.paid
  BY <1>1, <1>2 DEF SeriesState
<1> HIDE DEF q
<1>5. Net(q) = Net(b)
  BY <1>4 DEF Net
<1> QED
  BY <1>2, <1>3, <1>4, <1>5

\* A sale at the bid releases what its units could have cost.
LEMMA ExitSound ==
    ASSUME Sound, NEW h \in Holders, NEW n \in ExitShares, ExitUnits(h, held[h] \div n)
    PROVE  Sound' /\ Escrow!Next /\ vault'.error = vault.error
<1> DEFINE want == held[h] \div n
           r == BringCurrent(Main, now)
           f == ExitFill(Main, r, want)
<1>1. /\ Types /\ vault.locked <= vault.balance /\ now \in Nat /\ Main \in AllSeries
      /\ series[Main] \in SeriesState /\ held[h] \in Nat
      /\ Main = SeriesOf(h) /\ h \in Holders \union Siblings
  BY Names, WindowAssumption DEF Sound, Types, SeriesOf
<1>2. want \in Nat /\ want <= held[h]
  <2>1. n \in Nat \ {0}
    BY InputsAssumption
  <2> DEFINE k == want
  <2>2. k \in Nat /\ k * n <= held[h]
    BY <1>1, <2>1, DivNat
  <2> HIDE DEF k
  <2>3. k <= k * n
    BY <2>1, <2>2
  <2>4. k * n \in Nat
    BY <2>1, <2>2, TimesNat
  <2>5. k <= held[h]
    BY <1>1, <2>2, <2>3, <2>4
  <2> QED
    BY <2>2, <2>5 DEF k
<1>3. /\ phase = "window" /\ UNCHANGED <<now, phase, path>>
      /\ IF f.units = 0
         THEN series' = [series EXCEPT ![Main] = r] /\ UNCHANGED <<vault, held>>
         ELSE /\ series' = [series EXCEPT ![Main] = Exited(Main, r, f)]
              /\ vault' = PayOut(f)
              /\ held' = [held EXCEPT ![h] = @ - f.units]
  BY DEF ExitUnits, Trading, Runs
<1> HIDE DEF want
<1>4. /\ r \in SeriesState /\ r.outstanding = series[Main].outstanding
      /\ r.liability = series[Main].liability
      /\ r.finalized = series[Main].finalized /\ r.ppu = series[Main].ppu
      /\ r.premium = series[Main].premium /\ r.paid = series[Main].paid
  <2>1. r \in Refreshed(series[Main])
    BY <1>1, BroughtCurrent
  <2> HIDE DEF r
  <2> QED
    BY <2>1 DEF Refreshed
<1> HIDE DEF r
<1>5. CASE f.units = 0
  BY <1>1, <1>3, <1>4, <1>5, IdleStep
<1>6. CASE f.units # 0
  <2> DEFINE q == Exited(Main, r, f)
  <2>1. /\ ~r.finalized /\ f.units \in Nat /\ f.units <= want /\ f.units <= r.outstanding
        /\ f.quote \in Nat /\ f.quote <= f.released
        /\ f.released = r.liability - Cap(Main, r.outstanding - f.units)
        /\ f.released \in Nat
    BY <1>1, <1>2, <1>4, <1>6, ExitFillSound
  <2> HIDE DEF f
  <2>2. r.outstanding \in Nat /\ r.outstanding - f.units \in Nat /\ r.liability \in Nat
    BY <1>4, <2>1 DEF SeriesState
  <2>3. Cap(Main, r.outstanding - f.units) \in Nat
    BY <1>1, <2>2, CapNat
  <2>4. f.released <= r.liability
    BY <2>1, <2>2, <2>3
  <2>5. /\ q \in SeriesState /\ q.outstanding = r.outstanding - f.units
        /\ q.liability = r.liability - f.released
        /\ q.finalized = r.finalized /\ Net(q) = Net(r) - f.quote
    BY <1>1, <1>4, <2>1, <2>4, ExitedIs
  <2>6. q.liability = Cap(Main, q.outstanding)
    BY <2>1, <2>2, <2>3, <2>5
  <2>7. series' = [series EXCEPT ![Main] = q] /\ vault' = PayOut(f)
        /\ held' = [held EXCEPT ![h] = @ - f.units]
    BY <1>3, <1>6
  <2> HIDE DEF q
  <2>8. q.liability = Due(Main, q)
    BY <2>1, <2>5, <2>6 DEF Due
  <2>9. Net(r) = Net(series[Main])
    BY <1>4 DEF Net
  <2>10. f.units <= held[h]
    BY <1>1, <1>2, <2>1
  <2>11. /\ q \in SeriesState /\ q.outstanding = series[Main].outstanding - f.units
         /\ q.liability = series[Main].liability - f.released
         /\ q.finalized = series[Main].finalized /\ Net(q) = Net(series[Main]) - f.quote
    BY <1>4, <2>5, <2>9
  <2> QED
    BY <1>1, <1>3, <2>1, <2>7, <2>8, <2>10, <2>11, PayoutSound
<1> QED
  BY <1>5, <1>6

\* A settlement releases at least what it pays.
LEMMA SettleSound ==
    ASSUME Sound, phase = "redeem", NEW h \in Holders \union Siblings,
           NEW s, s = SeriesOf(h), Settle(s, h), UNCHANGED <<now, phase, path>>
    PROVE  Sound' /\ Escrow!Next /\ vault'.error = vault.error
<1> DEFINE r == series[s]
           units == Least(held[h], r.outstanding)
           amount == SettleProceeds(units, r.ppu)
           owed == Owed(r, r.outstanding - units)
           f == SettleFill(r, held[h])
           q == Burned(r, f)
<1>1. /\ Types /\ s \in AllSeries /\ r \in SeriesState /\ held[h] \in Nat
      /\ r.finalized
  BY Names DEF Sound, Types, SeriesOf, AllSeries
<1>2. r.outstanding \in Nat /\ r.ppu \in Nat /\ r.liability \in Nat
  BY <1>1 DEF SeriesState
<1>3. f.units > 0 /\ series' = [series EXCEPT ![s] = q] /\ vault' = PayOut(f)
      /\ held' = [held EXCEPT ![h] = @ - f.units]
  BY DEF Settle
<1>4. f = Sale(r, units, amount, owed)
  BY DEF SettleFill
<1> HIDE DEF f, r
<1>5. units \in Nat /\ units <= held[h] /\ units <= r.outstanding
      /\ r.outstanding - units \in Nat
  BY <1>1, <1>2 DEF Least
<1> HIDE DEF units
<1>6. amount \in Int /\ owed \in Nat
  <2>1. amount \in Nat
    BY <1>2, <1>5, SettleProceedsNat
  <2>2. owed \in Nat
    BY <1>1, <1>5, OwedNat
  <2> QED
    BY <2>1, <2>2
<1> HIDE DEF amount, owed
<1>7. /\ f.units = units /\ f.quote \in Nat /\ f.quote <= f.released
      /\ f.released = r.liability - owed /\ f.released \in Nat
  <2>1. Sale(r, units, amount, owed).units # 0
    BY <1>3, <1>4, <1>5
  <2>2. LET e == Sale(r, units, amount, owed) IN
        /\ e.units = units
        /\ e.quote \in Nat \ {0} /\ e.quote <= e.released
        /\ e.released = r.liability - owed /\ e.released \in Nat
    BY <1>1, <1>5, <1>6, <2>1, SaleSound
  <2> QED
    BY <1>4, <2>2
<1>8. f.released <= r.liability
  BY <1>2, <1>6, <1>7
<1>9. /\ q \in SeriesState /\ q.outstanding = r.outstanding - f.units
      /\ q.liability = r.liability - f.released
      /\ q.finalized = r.finalized /\ q.ppu = r.ppu /\ Net(q) = Net(r) - f.quote
  BY <1>1, <1>5, <1>7, <1>8, BurnedIs
<1>10. q.liability = owed
  BY <1>2, <1>6, <1>7, <1>9
<1> HIDE DEF q
<1>11. q.liability = Due(s, q)
  BY <1>1, <1>7, <1>9, <1>10 DEF Due, Owed, owed
<1> QED
  BY <1>1, <1>3, <1>5, <1>7, <1>9, <1>11, PayoutSound DEF r

\* No holder has more units than are out.
LEMMA HeldBound ==
    ASSUME Sound, NEW h \in Holders \union Siblings
    PROVE  held[h] <= series[SeriesOf(h)].outstanding
<1>1. held \in [Holders \union Siblings -> Nat] /\ UnitsHeld(series, held)
  BY DEF Sound, Types
<1>2. CASE h \in Siblings
  BY <1>1, <1>2 DEF SeriesOf, UnitsHeld
<1>3. CASE h \notin Siblings
  <2>1. h \in Holders /\ MainUnits(held) \in [Holders -> Nat] /\ MainUnits(held)[h] = held[h]
    BY <1>1, <1>3 DEF MainUnits
  <2>2. MainUnits(held)[h] <= SumFunction(MainUnits(held))
    BY <2>1, Names, SumBound
  <2> QED
    BY <1>1, <1>3, <2>1, <2>2 DEF SeriesOf, UnitsHeld
<1> QED
  BY <1>2, <1>3

\* Burning worthless units releases nothing: nothing was owed on them.
LEMMA BurnSound ==
    ASSUME Sound, phase = "redeem", NEW h \in Holders \union Siblings,
           NEW s, s = SeriesOf(h), Burn(s, h), UNCHANGED <<now, phase, path>>
    PROVE  Sound' /\ Escrow!Next /\ vault'.error = vault.error
<1> DEFINE r == series[s]
           f == [units |-> held[h], quote |-> 0, released |-> 0]
           q == Burned(r, f)
<1>1. /\ s \in AllSeries /\ r \in SeriesState /\ r.finalized
      /\ held \in [Holders \union Siblings -> Nat] /\ held[h] \in Nat
      /\ series \in [AllSeries -> SeriesState] /\ vault \in Vaults
      /\ r.liability = Due(s, r)
  BY Names DEF Sound, Types, SeriesOf, AllSeries
<1>2. r.outstanding \in Nat /\ r.liability \in Nat /\ held[h] <= r.outstanding /\ Net(r) \in Int
      /\ r.paid \in Nat
  BY <1>1, HeldBound DEF SeriesState, Net
<1>3. r.ppu = 0 /\ r.liability = 0
  <2>1. r.ppu = 0
    BY DEF Burn
  <2>2. FinalLiability(r.outstanding, 0) = 0
    BY <1>2, NoFinalLiability
  <2> QED
    BY <1>1, <2>1, <2>2 DEF Due, Owed
<1>4. /\ q \in SeriesState /\ q.outstanding = r.outstanding - held[h] /\ q.liability = 0
      /\ q.finalized = r.finalized /\ q.ppu = 0 /\ Net(q) = Net(r) - 0
  <2>1. /\ f.units = held[h] /\ f.quote = 0 /\ f.released = 0
    OBVIOUS
  <2> HIDE DEF f, r
  <2>2. /\ f.units \in Nat /\ f.units <= r.outstanding /\ f.quote \in Nat
        /\ f.released \in Nat /\ f.released <= r.liability
    BY <1>1, <1>2, <1>3, <2>1
  <2>3. /\ q \in SeriesState
        /\ q.outstanding = r.outstanding - f.units
        /\ q.liability = r.liability - f.released
        /\ q.finalized = r.finalized /\ q.ppu = r.ppu
        /\ Net(q) = Net(r) - f.quote
    BY <1>1, <2>2, BurnedIs
  <2> HIDE DEF q
  <2> QED
    BY <1>3, <2>1, <2>3
<1>5. series' = [series EXCEPT ![s] = q]
  <2>1. series' = [series EXCEPT ![s] = [r EXCEPT !.outstanding = r.outstanding - Least(held[h], r.outstanding),
                                                  !.liability = 0]]
    BY <1>1 DEF Burn
  <2>2. Least(held[h], r.outstanding) = held[h]
    BY <1>1, <1>2 DEF Least
  <2>3. q = [r EXCEPT !.outstanding = r.outstanding - held[h], !.liability = 0]
    <3>1. q = [r EXCEPT !.outstanding = r.outstanding - held[h],
                        !.liability = r.liability - 0, !.paid = r.paid + 0]
      BY DEF Burned
    <3>2. r.liability - 0 = 0 /\ r.paid + 0 = r.paid
      BY <1>2, <1>3
    <3> HIDE DEF q
    <3> QED
      BY <1>1, <3>1, <3>2 DEF SeriesState
  <2> HIDE DEF q
  <2> QED
    BY <2>1, <2>2, <2>3
<1>6. vault' = PayOut(f)
  <2>1. vault.locked \in Nat /\ vault.balance \in Nat /\ vault.locked <= vault.balance
    BY <1>1 DEF Vaults, Sound
  <2>2. vault.locked - 0 = vault.locked /\ vault.balance - 0 = vault.balance
    BY <2>1
  <2>3. DecreaseLocked(vault, 0) = vault
    BY <1>1, <2>1, <2>2 DEF DecreaseLocked, AssertSolvent, Vaults
  <2>4. Debit(vault, 0) = vault
    BY <1>1, <2>1, <2>2 DEF Debit, AssertSolvent, Vaults
  <2>5. vault' = DecreaseLocked(vault, 0)
    BY <1>3 DEF Burn
  <2> QED
    BY <2>3, <2>4, <2>5 DEF PayOut
<1>7. held' = [held EXCEPT ![h] = @ - held[h]]
  <2>1. held' = [held EXCEPT ![h] = 0]
    BY DEF Burn
  <2>2. held[h] - held[h] = 0
    BY <1>1
  <2> QED
    BY <2>1, <2>2
<1>8. /\ f.units \in Nat /\ f.units <= held[h] /\ f.units = held[h]
      /\ f.quote \in Nat /\ f.released \in Nat /\ f.quote <= f.released
      /\ f.quote = 0 /\ f.released = 0
  BY <1>1
<1> HIDE DEF f
<1>9. q.liability = Due(s, q)
  <2>1. FinalLiability(q.outstanding, 0) = 0
    <3>1. q.outstanding \in Nat
      BY <1>1, <1>2, <1>4
    <3> HIDE DEF q
    <3> QED
      BY <3>1, NoFinalLiability
  <2> HIDE DEF q
  <2> QED
    BY <1>1, <1>4, <2>1 DEF Due, Owed
<1> HIDE DEF q
<1>10. q.liability = series[s].liability - f.released /\ q.outstanding = series[s].outstanding - f.units
       /\ Net(q) = Net(series[s]) - f.quote
  BY <1>3, <1>4, <1>8
<1> QED
  BY <1>1, <1>4, <1>5, <1>6, <1>7, <1>8, <1>9, <1>10, PayoutSound

\* Finalization releases what the variance turned out not to cost.
LEMMA FinalizeSound ==
    ASSUME Sound, NEW s \in AllSeries, Finalize(s)
    PROVE  Sound' /\ Escrow!Next /\ vault'.error = vault.error
<1> DEFINE r == BringCurrent(s, Expiry)
           q == Finalized(s, r)
           ppu == PayoutPerUnit(Annualize(r.sum, Expiry), Params[s].cap, Params[s].notional)
           amount == Greatest(r.liability - q.liability, 0)
<1>1. /\ Types /\ vault \in Vaults /\ vault.locked <= vault.balance
      /\ series[s] \in SeriesState /\ UnitsHeld(series, held)
      /\ series \in [AllSeries -> SeriesState]
      /\ Expiry \in Nat \ {0} /\ series[s].liability <= vault.locked
  BY WindowAssumption, LiabilityLocked DEF Sound, Types
<1>2. /\ ~series[s].finalized /\ phase = "window"
      /\ series' = [series EXCEPT ![s] = q]
      /\ vault' = DecreaseLocked(vault, amount)
      /\ phase' = IF \A x \in AllSeries \ {s} : series[x].finalized THEN "redeem" ELSE "window"
      /\ UNCHANGED <<now, held, path>>
  BY DEF Finalize, Runs
<1>3. /\ r \in SeriesState /\ r.outstanding = series[s].outstanding
      /\ r.liability = series[s].liability
      /\ r.finalized = series[s].finalized
      /\ r.premium = series[s].premium /\ r.paid = series[s].paid
  <2>1. r \in Refreshed(series[s])
    BY <1>1, BroughtCurrent
  <2> HIDE DEF r
  <2> QED
    BY <2>1 DEF Refreshed
<1> HIDE DEF r
<1>4. /\ r.outstanding \in Nat /\ r.liability \in Nat /\ r.sum \in Nat
  BY <1>3 DEF SeriesState
<1>5. Annualize(r.sum, Expiry) \in Nat
  BY <1>1, <1>4, AnnualizeNat
<1>6. ppu \in Nat /\ FinalLiability(r.outstanding, ppu) <= r.liability
  <2> DEFINE variance == Annualize(r.sum, Expiry)
  <2>1. Params[s].cap \in Nat /\ Params[s].notional \in Nat
    BY Terms
  <2> HIDE DEF variance
  <2>2. PayoutPerUnit(variance, Params[s].cap, Params[s].notional) \in Nat
    BY <1>5, <2>1, PayoutPerUnitNat DEF variance
  <2>3. FinalLiability(r.outstanding, PayoutPerUnit(variance, Params[s].cap, Params[s].notional))
          <= MaxLiability(r.outstanding, Params[s].notional, Params[s].cap)
    BY <1>4, <1>5, <2>1, ReserveCoversVariance DEF variance
  <2>4. r.liability = Cap(s, r.outstanding)
    BY <1>2, <1>3 DEF Sound, Due
  <2> QED
    BY <2>2, <2>3, <2>4 DEF variance, Cap
<1> DEFINE owed == FinalLiability(r.outstanding, ppu)
<1>7. q = [r EXCEPT !.finalized = TRUE, !.ppu = ppu, !.liability = owed]
  BY DEF Finalized
<1> HIDE DEF ppu
<1>8. owed \in Nat
  BY <1>4, <1>6, FinalLiabilityNat
<1>9. /\ q \in SeriesState /\ q.finalized /\ q.liability = owed
      /\ q.outstanding = r.outstanding /\ q.ppu = ppu
      /\ q.premium = r.premium /\ q.paid = r.paid
  <2> HIDE DEF q, owed
  <2> QED
    BY <1>3, <1>6, <1>7, <1>8 DEF SeriesState
<1> HIDE DEF q
<1>10. q.liability = Due(s, q)
  BY <1>9 DEF Due, Owed
<1> HIDE DEF owed
<1>11. amount \in Nat /\ amount = series[s].liability - q.liability /\ amount <= vault.locked
       /\ q.liability <= series[s].liability /\ series[s].liability \in Nat /\ q.liability \in Nat
       /\ vault.locked \in Nat /\ vault.balance \in Nat
  <2>1. q.liability <= r.liability /\ q.liability \in Nat
    BY <1>6, <1>8, <1>9 DEF owed
  <2>2. vault.locked \in Nat /\ vault.balance \in Nat
    BY <1>1 DEF Vaults
  <2> QED
    BY <1>1, <1>3, <1>4, <2>1, <2>2 DEF Greatest
<1> HIDE DEF amount
<1>12. /\ vault' \in Vaults /\ vault'.locked = vault.locked - amount
       /\ vault'.balance = vault.balance /\ vault'.error = vault.error
  BY <1>1, <1>2, <1>11, DecreaseLockedIs
<1>13. Net(q) = Net(series[s]) /\ Net(q) \in Int
  <2>1. series[s].premium \in Nat /\ series[s].paid \in Nat
    BY <1>1 DEF SeriesState
  <2> QED
    BY <1>3, <1>9, <2>1 DEF Net
<1>14. /\ vault'.locked = vault.locked + (q.liability - series[s].liability)
       /\ vault'.balance = vault.balance + (Net(q) - Net(series[s]))
       /\ vault'.locked <= vault'.balance
  BY <1>1, <1>11, <1>12, <1>13
<1>15. UnitsHeld(series', held') /\ held' \in [Holders \union Siblings -> Nat]
  BY <1>1, <1>2, <1>3, <1>9, HeldStays
<1>16. phase' # "window" => \A t \in AllSeries : series'[t].finalized
  <2>1. series'[s].finalized /\ \A t \in AllSeries \ {s} : series'[t] = series[t]
    BY <1>1, <1>2, <1>9
  <2> QED
    BY <1>2, <2>1
<1>17. Sound'
  BY <1>2, <1>9, <1>10, <1>12, <1>14, <1>15, <1>16, SeriesStep
<1>18. Escrow!Next
  <2>1. /\ vault'.balance \in Int /\ vault'.balance <= vault.balance
        /\ vault.balance - vault'.balance <= series[s].liability - q.liability
    BY <1>11, <1>12
  <2> QED
    BY <1>2, <1>9, <1>11, <2>1, ReleasesInEscrow
<1> QED
  BY <1>12, <1>17, <1>18

LEMMA StopSound ==
    ASSUME Sound, StopIssuance
    PROVE  Sound' /\ Escrow!Next /\ vault'.error = vault.error
<1> DEFINE r == [series[Main] EXCEPT !.available = 0]
<1>1. series[Main] \in SeriesState /\ Main \in AllSeries
  BY Names DEF Sound, Types
<1>2. /\ r \in SeriesState
      /\ r.outstanding = series[Main].outstanding /\ r.liability = series[Main].liability
      /\ r.finalized = series[Main].finalized /\ r.ppu = series[Main].ppu
      /\ r.premium = series[Main].premium /\ r.paid = series[Main].paid
  BY <1>1 DEF SeriesState
<1>3. /\ phase = "window" /\ series' = [series EXCEPT ![Main] = r]
      /\ UNCHANGED <<now, phase, vault, held, path>>
  BY DEF StopIssuance, Trading, Runs
<1> HIDE DEF r
<1> QED
  BY <1>1, <1>2, <1>3, IdleStep

LEMMA NextStepSound ==
    ASSUME Sound, NextStep
    PROVE  Sound' /\ UNCHANGED Escrow!vars /\ vault'.error = vault.error
<1>1. UNCHANGED <<phase, vault, series, held, path>> /\ now' = now + 1 /\ now < Expiry
  BY DEF NextStep, Trading
<1>2. now' \in 0..Expiry
  BY <1>1, WindowAssumption DEF Sound, Types
<1>3. Types'
  BY <1>1, <1>2 DEF Sound, Types
<1> QED
  BY <1>1, <1>3 DEF Sound, Due, Owed, Cap, UnitsHeld, MainUnits, Liabilities, Income, Net,
                    Escrow!vars

\* A series without units owes nothing.
LEMMA NoClaims ==
    ASSUME Sound, phase # "window", NEW s \in AllSeries, Closed(s)
    PROVE  series[s].liability = 0
<1>1. series[s] \in SeriesState /\ series[s].liability = Owed(series[s], 0)
  BY DEF Sound, Types, Due, Closed
<1>2. series[s].ppu \in Nat
  BY <1>1 DEF SeriesState
<1> QED
  BY <1>1, <1>2, NoFinalLiability DEF Owed

\* Closing releases what nothing is owed on: the accounts stay as they are.
LEMMA CloseSound ==
    ASSUME Sound, Close
    PROVE  /\ Sound' /\ UNCHANGED Escrow!vars
           /\ \/ vault'.error = vault.error
              \/ vault'.error = "ClaimsOutstanding" /\ UNCHANGED series
<1>1. /\ phase = "redeem" /\ vault.error = "none" /\ vault \in Vaults
      /\ vault.locked <= vault.balance /\ series \in [AllSeries -> SeriesState]
      /\ UNCHANGED <<now, held, path>>
  BY DEF Close, Runs, Sound, Types
<1>2. vault.locked \in Nat /\ vault.balance \in Nat
  BY <1>1 DEF Vaults
<1>3. CASE Closed(Main)
  <2> DEFINE freed == [s \in AllSeries |-> IF Closed(s) THEN series[s].liability ELSE 0]
             new(s) == [series[s] EXCEPT !.available = 0, !.liability = 0]
  <2>1. /\ series' = [s \in AllSeries |-> IF Closed(s) THEN new(s) ELSE series[s]]
        /\ vault' = DecreaseLocked(vault, SumFunction(freed))
        /\ phase' = "done"
    BY <1>3 DEF Close
  <2>2. SumFunction(freed) = 0
    <3>1. \A s \in AllSeries : freed[s] = 0
      BY <1>1, NoClaims
    <3>2. freed \in [AllSeries -> Int]
      BY <3>1
    <3> HIDE DEF freed
    <3> QED
      BY <3>1, <3>2, Names, SumZero
  <2>3. vault' = vault
    <3>1. vault.locked - 0 = vault.locked
      BY <1>2
    <3>2. DecreaseLocked(vault, 0) = vault
      BY <1>1, <1>2, <3>1 DEF DecreaseLocked, AssertSolvent, Vaults
    <3> QED
      BY <2>1, <2>2, <3>2
  <2>4. ASSUME NEW s \in AllSeries
        PROVE  /\ series'[s] \in SeriesState
               /\ series'[s].outstanding = series[s].outstanding
               /\ series'[s].liability = series[s].liability
               /\ series'[s].finalized = series[s].finalized
               /\ series'[s].ppu = series[s].ppu
               /\ series'[s].premium = series[s].premium
               /\ series'[s].paid = series[s].paid
    <3>1. series[s] \in SeriesState
      BY <1>1
    <3>2. series'[s] = IF Closed(s) THEN new(s) ELSE series[s]
      BY <2>1
    <3>3. CASE Closed(s)
      <4>1. series[s].liability = 0
        BY <1>1, <3>3, NoClaims
      <4>2. series'[s] = new(s)
        BY <3>2, <3>3
      <4> QED
        BY <3>1, <4>1, <4>2 DEF SeriesState
    <3>4. CASE ~Closed(s)
      BY <3>1, <3>2, <3>4
    <3> QED
      BY <3>3, <3>4
  <2>5. series' \in [AllSeries -> SeriesState]
    <3>1. series' = [s \in AllSeries |-> series'[s]]
      BY <2>1
    <3> QED
      BY <2>4, <3>1
  <2>6. Liabilities(series') = Liabilities(series) /\ Income(series') = Income(series)
    BY <2>4 DEF Liabilities, Income, Net
  <2>7. Types'
    BY <1>1, <2>3, <2>5 DEF Sound, Types
  <2>8. ASSUME NEW s \in AllSeries
        PROVE  /\ series'[s].liability = Due(s, series'[s])
               /\ series'[s].finalized
    <3>1. series[s].liability = Due(s, series[s]) /\ series[s].finalized
      BY <1>1 DEF Sound
    <3> QED
      BY <2>4, <3>1 DEF Due, Owed
  <2>9. UnitsHeld(series', held')
    BY <1>1, <2>4, Names DEF Sound, UnitsHeld
  <2>10. /\ vault'.locked = SumFunction(Liabilities(series'))
         /\ vault'.locked <= vault'.balance
         /\ vault'.balance = Collateral + SumFunction(Income(series'))
    BY <2>3, <2>6 DEF Sound
  <2>11. UNCHANGED Escrow!vars
    BY <2>3, <2>6 DEF Escrow!vars, Liabilities
  <2>12. Sound'
    BY <2>7, <2>8, <2>9, <2>10 DEF Sound, Due, Owed, Cap, UnitsHeld, MainUnits, Liabilities,
                                   Income, Net
  <2> QED
    BY <2>3, <2>11, <2>12
<1>4. CASE ~Closed(Main)
  <2>1. vault' = Throw(vault, "ClaimsOutstanding") /\ UNCHANGED <<series, phase>>
    BY <1>4 DEF Close
  <2>2. vault' = [vault EXCEPT !.error = "ClaimsOutstanding"]
    BY <1>1, <2>1 DEF Throw
  <2>3. /\ vault' \in Vaults /\ vault'.balance = vault.balance /\ vault'.locked = vault.locked
        /\ vault'.error = "ClaimsOutstanding"
    BY <1>1, <2>2 DEF Vaults
  <2>4. Types'
    BY <1>1, <2>1, <2>3 DEF Sound, Types
  <2> QED
    BY <1>1, <2>1, <2>3, <2>4 DEF Sound, Due, Owed, Cap, UnitsHeld, MainUnits, Liabilities,
                                  Income, Net, Escrow!vars
<1> QED
  BY <1>3, <1>4

\* What is left unpaid when the driver cannot close is less than one unit of
\* account per holder.
LEMMA NothingToSettle ==
    ASSUME Sound, phase = "redeem", NEW h \in Holders, Redeemed(h)
    PROVE  SettleProceeds(held[h], series[Main].ppu) = 0
<1> DEFINE r == series[Main]
           units == Least(held[h], r.outstanding)
           amount == SettleProceeds(units, r.ppu)
           released == r.liability - Owed(r, r.outstanding - units)
<1>1. /\ h \in Holders \union Siblings /\ SeriesOf(h) = Main /\ Main \in AllSeries
      /\ r \in SeriesState /\ r.finalized /\ held[h] \in Nat /\ vault \in Vaults
      /\ vault.locked <= vault.balance /\ r.liability = Due(Main, r)
  BY Names DEF Sound, Types, SeriesOf
<1>2. r.outstanding \in Nat /\ r.ppu \in Nat /\ r.liability \in Nat /\ vault.balance \in Nat
      /\ vault.locked \in Nat
  BY <1>1 DEF SeriesState, Vaults
<1>3. CASE held[h] = 0
  <2>1. SettleProceeds(0, r.ppu) \in Nat /\ SettleProceeds(0, r.ppu) * WAD <= 0 * r.ppu
    BY <1>2, Scales, MulDivNat DEF SettleProceeds
  <2> DEFINE k == SettleProceeds(0, r.ppu)
  <2>2. k \in Nat /\ k * WAD <= 0 /\ WAD \in Nat \ {0}
    BY <1>2, <2>1, ScaleAssumption
  <2> HIDE DEF k
  <2>3. k = 0
    BY <2>2
  <2> QED
    BY <1>3, <2>3 DEF k
<1>4. CASE held[h] # 0
  <2>1. SettleFill(r, held[h]).units = 0
    BY <1>1, <1>4 DEF Redeemed
  <2>2. units = held[h] /\ units \in Nat /\ units > 0 /\ units <= r.outstanding
    <3>1. held[h] <= r.outstanding
      BY <1>1, HeldBound
    <3> QED
      BY <1>1, <1>2, <1>4, <3>1 DEF Least
  <2>3. SettleFill(r, held[h]) = Sale(r, units, amount, Owed(r, r.outstanding - units))
    BY DEF SettleFill
  <2> HIDE DEF r, units
  <2>4. amount <= released /\ released <= r.liability /\ released \in Int /\ amount \in Nat
    <3>1. r.outstanding - units \in Nat
      BY <1>2, <2>2
    <3>2. Owed(r, r.outstanding - units) \in Nat
      BY <1>1, <3>1, OwedNat
    <3>3. SettleProceeds(units, r.ppu)
            <= FinalLiability(r.outstanding, r.ppu) - FinalLiability(r.outstanding - units, r.ppu)
      BY <1>2, <2>2, SettlementWithinRelease
    <3>4. amount \in Nat
      BY <1>2, <2>2, SettleProceedsNat
    <3>5. amount <= r.liability - Owed(r, r.outstanding - units)
      BY <1>1, <3>3 DEF Owed, Due
    <3> HIDE DEF amount
    <3> QED
      BY <1>2, <3>2, <3>4, <3>5
  <2>5. amount <= vault.balance
    <3>1. r.liability <= vault.locked
      BY <1>1, LiabilityLocked DEF r
    <3> HIDE DEF amount, released
    <3> QED
      BY <1>1, <1>2, <2>4, <3>1
  <2>6. Clamped(amount, released) = amount
    <3> HIDE DEF amount, released
    <3> QED
      BY <1>2, <2>4, <2>5 DEF Clamped, Least
  <2>7. ~(amount > 0)
    <3>1. Sale(r, units, amount, Owed(r, r.outstanding - units))
            = IF units > 0 /\ amount > 0
              THEN [units |-> units, quote |-> amount, released |-> released]
              ELSE NoFill
      BY <2>6 DEF Sale
    <3> HIDE DEF amount, released
    <3> QED
      BY <2>1, <2>2, <2>3, <3>1
  <2>8. amount = 0
    <3> HIDE DEF amount
    <3> QED
      BY <2>4, <2>7
  <2> QED
    BY <2>2, <2>8 DEF r
<1> QED
  BY <1>3, <1>4

-----------------------------------------------------------------------------
(* The invariant                                                           *)

\* An error ends the run, and the only one there is comes when nothing is left
\* that could be paid.
SoundRun == Sound /\ NeverThrows

LEMMA InitSound == Init => SoundRun /\ Escrow!Init
<1> SUFFICES ASSUME Init PROVE SoundRun /\ Escrow!Init
  OBVIOUS
<1>1. ASSUME NEW s \in AllSeries
      PROVE  /\ series[s] \in SeriesState
             /\ series[s].liability = 0 /\ series[s].outstanding = 0
             /\ Net(series[s]) = 0 /\ series[s].liability = Due(s, series[s])
  <2>1. series[s] = NewSeries(s)
    BY DEF Init
  <2>2. /\ NewSeries(s) \in SeriesState
        /\ NewSeries(s).liability = 0 /\ NewSeries(s).outstanding = 0
        /\ ~NewSeries(s).finalized /\ NewSeries(s).premium = 0 /\ NewSeries(s).paid = 0
    <3>1. Params[s].maxUnits \in Nat /\ 1 \in 1..TotalSamples
      BY Terms, WindowAssumption DEF TotalSamples
    <3> QED
      BY <3>1 DEF NewSeries, SeriesState
  <2>3. Cap(s, 0) = 0
    <3>1. Params[s].notional \in Nat /\ Params[s].cap \in Nat /\ 0 * Params[s].notional = 0
          /\ 0 * Params[s].cap = 0
      BY Terms
    <3> QED
      BY <3>1, Scales, NothingOwed DEF Cap, MaxLiability
  <2> QED
    BY <2>1, <2>2, <2>3 DEF Net, Due
<1>2. series \in [AllSeries -> SeriesState]
  BY <1>1 DEF Init
<1>3. SumFunction(Liabilities(series)) = 0 /\ SumFunction(Income(series)) = 0
  <2>1. /\ Liabilities(series) \in [AllSeries -> Int] /\ Income(series) \in [AllSeries -> Int]
    BY <1>2, SumsOfSeries
  <2>2. \A s \in AllSeries : Liabilities(series)[s] = 0 /\ Income(series)[s] = 0
    BY <1>1 DEF Liabilities, Income
  <2> QED
    BY <2>1, <2>2, Names, SumZero
<1>4. vault = [balance |-> Collateral, locked |-> 0, error |-> "none"] /\ Collateral \in Nat
  BY InputsAssumption DEF Init
<1>5. Types
  <2>1. now \in 0..Expiry
    BY WindowAssumption DEF Init
  <2>2. vault \in Vaults
    BY <1>4 DEF Vaults
  <2> QED
    BY <1>2, <2>1, <2>2 DEF Types, Init
<1>6. UnitsHeld(series, held)
  <2>1. MainUnits(held) \in [Holders -> Int] /\ \A h \in Holders : MainUnits(held)[h] = 0
    BY DEF Init, MainUnits
  <2>2. SumFunction(MainUnits(held)) = 0
    BY <2>1, Names, SumZero
  <2>3. \A s \in Siblings : held[s] = 0
    BY DEF Init
  <2> QED
    BY <1>1, <2>2, <2>3, Names DEF UnitsHeld
<1>7. Sound
  BY <1>1, <1>3, <1>4, <1>5, <1>6 DEF Sound, Init
<1>8. Escrow!Init
  <2>1. \A s \in AllSeries : series[s].liability = 0
    BY <1>1
  <2> QED
    BY <1>4, <2>1 DEF Escrow!Init
<1>9. NeverThrows
  BY <1>4 DEF NeverThrows
<1> QED
  BY <1>7, <1>8, <1>9 DEF SoundRun

LEMMA NextSound == SoundRun /\ [Next]_vars => SoundRun' /\ [Escrow!Next]_(Escrow!vars)
<1> SUFFICES ASSUME SoundRun, [Next]_vars PROVE SoundRun' /\ [Escrow!Next]_(Escrow!vars)
  OBVIOUS
<1>1. Sound /\ NeverThrows
  BY DEF SoundRun
<1>2. ASSUME vault.error = "none", vault'.error = vault.error PROVE NeverThrows'
  BY <1>2 DEF NeverThrows
<1>3. ASSUME NEW h \in Holders, NEW a \in Amounts, Buy(h, a)
      PROVE  SoundRun' /\ Escrow!Next
  <2>1. /\ phase = "window" /\ vault.error = "none" /\ BuyOf(Main, h, a)
        /\ UNCHANGED <<now, phase, path>>
    BY <1>3 DEF Buy, Trading, Runs
  <2>2. h \in Holders \union Siblings /\ Main = SeriesOf(h) /\ a \in Nat
    BY Names, InputsAssumption DEF SeriesOf
  <2>3. Sound' /\ Escrow!Next /\ vault'.error = vault.error
    BY <1>1, <2>1, <2>2, BuySound
  <2> QED
    BY <1>2, <2>1, <2>3 DEF SoundRun
<1>4. ASSUME NEW s \in Siblings, BuySibling(s)
      PROVE  SoundRun' /\ Escrow!Next
  <2>1. /\ phase = "window" /\ vault.error = "none" /\ BuyOf(s, s, SiblingAmount)
        /\ UNCHANGED <<now, phase, path>>
    BY <1>4 DEF BuySibling, Runs
  <2>2. s \in Holders \union Siblings /\ s = SeriesOf(s) /\ SiblingAmount \in Nat
    BY InputsAssumption DEF SeriesOf
  <2>3. Sound' /\ Escrow!Next /\ vault'.error = vault.error
    BY <1>1, <2>1, <2>2, BuySound
  <2> QED
    BY <1>2, <2>1, <2>3 DEF SoundRun
<1>5. ASSUME NEW h \in Holders, NEW n \in ExitShares, ExitUnits(h, held[h] \div n)
      PROVE  SoundRun' /\ Escrow!Next
  <2>1. vault.error = "none"
    BY <1>5 DEF ExitUnits, Trading, Runs
  <2>2. Sound' /\ Escrow!Next /\ vault'.error = vault.error
    BY <1>1, <1>5, ExitSound
  <2> QED
    BY <1>2, <2>1, <2>2 DEF SoundRun
<1>6. ASSUME StopIssuance PROVE SoundRun' /\ Escrow!Next
  <2>1. vault.error = "none"
    BY <1>6 DEF StopIssuance, Trading, Runs
  <2>2. Sound' /\ Escrow!Next /\ vault'.error = vault.error
    BY <1>1, <1>6, StopSound
  <2> QED
    BY <1>2, <2>1, <2>2 DEF SoundRun
<1>7. ASSUME NextStep PROVE SoundRun' /\ UNCHANGED Escrow!vars
  <2>1. vault.error = "none"
    BY <1>7 DEF NextStep, Trading, Runs
  <2>2. Sound' /\ UNCHANGED Escrow!vars /\ vault'.error = vault.error
    BY <1>1, <1>7, NextStepSound
  <2> QED
    BY <1>2, <2>1, <2>2 DEF SoundRun
<1>8. ASSUME NEW s \in AllSeries, Finalize(s) PROVE SoundRun' /\ Escrow!Next
  <2>1. vault.error = "none"
    BY <1>8 DEF Finalize, Runs
  <2>2. Sound' /\ Escrow!Next /\ vault'.error = vault.error
    BY <1>1, <1>8, FinalizeSound
  <2> QED
    BY <1>2, <2>1, <2>2 DEF SoundRun
<1>9. ASSUME NEW h \in Holders \union Siblings, Redeem(h) PROVE SoundRun' /\ Escrow!Next
  <2>1. /\ phase = "redeem" /\ vault.error = "none" /\ UNCHANGED <<now, phase, path>>
        /\ Burn(SeriesOf(h), h) \/ Settle(SeriesOf(h), h)
    BY <1>9 DEF Redeem, Runs
  <2>2. Sound' /\ Escrow!Next /\ vault'.error = vault.error
    <3>1. CASE Burn(SeriesOf(h), h)
      BY <1>1, <2>1, <3>1, BurnSound
    <3>2. CASE Settle(SeriesOf(h), h)
      BY <1>1, <2>1, <3>2, SettleSound
    <3> QED
      BY <2>1, <3>1, <3>2
  <2> QED
    BY <1>2, <2>1, <2>2 DEF SoundRun
<1>10. ASSUME Close PROVE SoundRun' /\ UNCHANGED Escrow!vars
  <2>1. /\ phase = "redeem" /\ vault.error = "none" /\ UNCHANGED <<now, held, path>>
        /\ \A h \in Holders \union Siblings : Redeemed(h)
    BY <1>10 DEF Close, Runs
  <2>2. /\ Sound' /\ UNCHANGED Escrow!vars
        /\ \/ vault'.error = vault.error
           \/ vault'.error = "ClaimsOutstanding" /\ UNCHANGED series
    BY <1>1, <1>10, CloseSound
  <2>3. CASE vault'.error = vault.error
    BY <1>2, <2>1, <2>2, <2>3 DEF SoundRun
  <2>4. CASE vault'.error # vault.error
    <3>1. UNCHANGED series
      BY <2>2, <2>4
    <3>2. \A h \in Holders : SettleProceeds(held[h], series[Main].ppu) = 0
      BY <1>1, <2>1, NothingToSettle
    <3>3. \A h \in Holders : SettleProceeds(held'[h], series'[Main].ppu) = 0
      BY <2>1, <3>1, <3>2
    <3> QED
      BY <2>2, <2>4, <3>3 DEF SoundRun, NeverThrows
  <2> QED
    BY <2>3, <2>4
<1>11. CASE UNCHANGED vars
  BY <1>1, <1>11 DEF SoundRun, NeverThrows, vars, Sound, Types, Due, Owed, Cap, UnitsHeld,
                     MainUnits, Liabilities, Income, Net, Escrow!vars
<1>12. CASE Next
  BY <1>3, <1>4, <1>5, <1>6, <1>7, <1>8, <1>9, <1>10, <1>12 DEF Next, Flow
<1> QED
  BY <1>11, <1>12

\* Every operation of Vault and of Series passes the checks that market.ts
\* makes before it ("Every mutation asserts the vault's solvency invariant"):
\* the clamps of quoteIssue and of the payouts come before what could throw,
\* however many series compete for the free collateral.  Only the driver's
\* closing may throw, over claims that each pay nothing.
THEOREM NeverThrowsTheorem == Spec => []NeverThrows
<1>1. Spec => []SoundRun
  BY InitSound, NextSound, PTL DEF Spec
<1> QED
  BY <1>1, PTL DEF SoundRun

\* The reconciliation of the driver (scenarios.ts) holds after every step: the
\* vault holds the deposit plus premiums minus payouts, locks exactly what its
\* series owe, every unit out is some holder's, and a run that closed every
\* series locks nothing.
THEOREM AccountedTheorem == Spec => []Accounted
<1>1. SoundRun => Accounted
  <2> SUFFICES ASSUME Sound PROVE Accounted
    BY DEF SoundRun
  <2>1. /\ vault.balance
             = Collateral + SumFunction([s \in AllSeries |-> series[s].premium - series[s].paid])
        /\ vault.locked = SumFunction([s \in AllSeries |-> series[s].liability])
    BY DEF Sound, Income, Net, Liabilities
  <2>2. /\ series[Main].outstanding = SumFunction([h \in Holders |-> held[h]])
        /\ \A s \in Siblings : series[s].outstanding = held[s]
    BY DEF Sound, UnitsHeld, MainUnits
  <2>3. ASSUME phase = "done", \A s \in AllSeries : Closed(s) PROVE vault.locked = 0
    <3>1. \A s \in AllSeries : Liabilities(series)[s] = 0
      BY <2>3, NoClaims DEF Liabilities
    <3>2. Liabilities(series) \in [AllSeries -> Int]
      BY SumsOfSeries DEF Sound, Types
    <3> QED
      BY <3>1, <3>2, Names, SumZero DEF Sound
  <2> QED
    BY <2>1, <2>2, <2>3 DEF Accounted
<1>2. Spec => []SoundRun
  BY InitSound, NextSound, PTL DEF Spec
<1> QED
  BY <1>1, <1>2, PTL

\* The simulated vault implements the abstract escrow: increaseLocked takes
\* only what is free, a payout is covered by what its burn or its settlement
\* releases, and no step of one series touches what another has reserved.
THEOREM EscrowTheorem == Spec => ImplementsEscrow
<1>1. Spec => []SoundRun
  BY InitSound, NextSound, PTL DEF Spec
<1>2. Spec => Escrow!Spec
  BY <1>1, InitSound, NextSound, PTL DEF Spec, Escrow!Spec
<1> QED
  BY <1>2 DEF ImplementsEscrow
=============================================================================
