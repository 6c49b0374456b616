--------------------------- MODULE SeriesPricing ----------------------------
(***************************************************************************)
(* The integer arithmetic of a variance series: sim/src/pricing.ts, the    *)
(* replica of contracts/src/libs/VariancePricing.sol.  Variances, slopes   *)
(* and units are WAD numbers, notionals and amounts base units of the      *)
(* quote token.  The scales are constants, so that an instance with small  *)
(* ones rounds where the code with 10^18 does.                             *)
(***************************************************************************)
EXTENDS Integers

CONSTANTS
    WAD,    \* one, of variances and units
    BPS,    \* one, of the half-spread
    YEAR    \* time units variance is annualized over

ASSUME ScaleAssumption == /\ WAD \in Nat \ {0}
                          /\ BPS \in Nat \ {0}
                          /\ YEAR \in Nat \ {0}

Least(a, b)    == IF a < b THEN a ELSE b
Greatest(a, b) == IF a > b THEN a ELSE b

\* Quotients of naturals, rounded down and up.
MulDiv(a, b, d)   == (a * b) \div d
MulDivUp(a, b, d) == (a * b + d - 1) \div d

\* Integer square root, rounded down and up.
Isqrt(n)   == CHOOSE r \in 0..n : r * r <= n /\ (r + 1) * (r + 1) > n
IsqrtUp(n) == IF Isqrt(n) * Isqrt(n) < n THEN Isqrt(n) + 1 ELSE Isqrt(n)

\* An amount no clamp can bind: UINT256_MAX.
Unbounded == 2147483647

-----------------------------------------------------------------------------
(* Quotes                                                                  *)

\* Quotient rounded toward zero, as BigInt division does.
Truncated(a, d) == IF a < 0 THEN -((-a) \div d) ELSE a \div d

\* The skew halves every halfLife; instances let whole half-lives pass.
DecaySkew(skew, dt, halfLife) ==
    LET halved[k \in Nat] == IF k = 0 THEN skew ELSE Truncated(halved[k - 1], 2)
    IN  IF halfLife = 0 THEN skew ELSE halved[dt \div halfLife]

ForwardVariance(anchor, decayed, cap) ==
    Least(Greatest(anchor + decayed, 0), cap)

ProjectedVariance(realized, elapsed, forward, remaining) ==
    IF elapsed + remaining = 0 THEN forward
    ELSE (realized * elapsed + forward * remaining) \div (elapsed + remaining)

Annualize(sum, elapsed) == IF elapsed = 0 THEN 0 ELSE MulDiv(sum, YEAR, elapsed)

AskVariance(projected, spread, cap) ==
    Least(MulDivUp(projected, BPS + spread, BPS), cap)

BidVariance(projected, spread, cap) ==
    Least(MulDiv(projected, BPS - spread, BPS), cap)

AskSlope(impact, remaining, duration, spread) ==
    IF duration = 0 THEN 0
    ELSE MulDivUp(impact * remaining, BPS + spread, duration * BPS)

BidSlope(impact, remaining, duration, spread) ==
    IF duration = 0 THEN 0
    ELSE MulDiv(impact * remaining, BPS - spread, duration * BPS)

-----------------------------------------------------------------------------
(* Fills                                                                   *)

\* The integral of the ask over the units, rounded up.
IssuePremium(ask, slope, notional, units) ==
    MulDivUp(notional, ask * units + MulDivUp(slope * units, units, 2 * WAD), WAD * WAD)

\* The units an amount buys, rounded down.
IssueUnitsFor(ask, slope, notional, amount) ==
    LET x    == MulDiv(amount, WAD * WAD, notional)
        root == IsqrtUp(ask * ask + MulDivUp(2 * slope, x, WAD))
    IN  IF ask = 0 THEN 0
        ELSE IF slope = 0 THEN x \div ask ELSE (2 * x) \div (ask + root)

IssueUnitsToCap(ask, slope, cap) ==
    IF ask >= cap THEN 0
    ELSE IF slope = 0 THEN Unbounded ELSE ((cap - ask) * WAD) \div slope

IssueUnitsToCollateral(outstanding, liability, free, notional, cap) ==
    IF notional * cap = 0 THEN Unbounded
    ELSE Greatest(MulDiv(liability + free, WAD * WAD, notional * cap) - outstanding, 0)

\* The integral of the bid, rounded down.
ExitProceeds(bid, slope, notional, units) ==
    MulDiv(notional, bid * units - MulDiv(slope * units, units, 2 * WAD), WAD * WAD)

ExitUnitsToZeroBid(bid, slope) ==
    IF slope = 0 THEN Unbounded ELSE (bid * WAD) \div slope

PayoutPerUnit(variance, cap, notional) == MulDiv(notional, Least(variance, cap), WAD)

SettleProceeds(units, ppu) == MulDiv(units, ppu, WAD)

\* What a position reserves before finalization and after.
MaxLiability(units, notional, cap) == MulDivUp(units * notional, cap, WAD * WAD)

FinalLiability(units, ppu) == MulDivUp(units, ppu, WAD)
=============================================================================
