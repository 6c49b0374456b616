---------------------------- MODULE PortfolioMath ----------------------------
(***************************************************************************)
(* The reserve, payout and price arithmetic of the portfolio market        *)
(* (contracts/src/portfolio/PortfolioMath.sol).  Every division is the     *)
(* integer division of the EVM; WAD, 1e18 in the code, is a parameter so   *)
(* that small instances still meet every rounding case.  Solidity 0.8      *)
(* checks overflow, and _validate bounds amounts to 128 bits and the       *)
(* liability to 248, so no product below wraps.                            *)
(***************************************************************************)
EXTENDS Integers

CONSTANT WAD      \* the fixed-point unit: one whole claim is WAD units

ASSUME WADAssumption == WAD \in Nat \ {0}

\* Rounds up in the vault's favour.
CeilMul(units, perUnit) == (units * perUnit + WAD - 1) \div WAD

\* Rounds down in the vault's favour.
FloorMul(units, perUnit) == (units * perUnit) \div WAD

MaxOf(a, b) == IF a > b THEN a ELSE b
MinOf(a, b) == IF a < b THEN a ELSE b

\* Mutant: the reserve covers the smaller side only.
ReserveOfSmallerSide(h, c, capPayout) == CeilMul(MinOf(h, c), capPayout)

\* One reserve covers both sides: the claims complement each other.
Reserve(h, c, capPayout) == CeilMul(MaxOf(h, c), capPayout)

\* Mutant: the capacity rounds up.
MaxSideUnitsRoundedUp(currentReserve, free, capPayout) ==
    ((currentReserve + free) * WAD + capPayout - 1) \div capPayout

\* The largest a side may become with the collateral at hand.
MaxSideUnits(currentReserve, free, capPayout) ==
    ((currentReserve + free) * WAD) \div capPayout

\* The finalized variance as a share of the cap, in WAD.
NormalizedOutcome(variance, capVariance) ==
    IF variance >= capVariance THEN WAD ELSE (variance * WAD) \div capVariance

\* CALM is the exact integer complement of HIGH.
FinalPayouts(xWad, capPayout) ==
    [HIGH |-> FloorMul(capPayout, xWad),
     CALM |-> capPayout - FloorMul(capPayout, xWad)]

\* Mutant: settlements round in the holder's favour.
SettleProceedsRoundedUp(units, ppu) == CeilMul(units, ppu)

FinalSideLiability(units, ppu)  == FloorMul(units, ppu)
SettleProceeds(units, ppu)      == FloorMul(units, ppu)
ExitProceeds(units, bid)        == FloorMul(units, bid)
IssuePremium(units, ask)        == CeilMul(units, ask)
IssueUnitsFor(amountIn, ask)    == (amountIn * WAD) \div ask
=============================================================================
