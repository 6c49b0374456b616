----------------------------- MODULE SimMarket ------------------------------
(***************************************************************************)
(* The simulator: the vault and the series of sim/src/market.ts, and the   *)
(* driver of sim/src/scenarios.ts that walks them through a window of      *)
(* sampling steps, finalization, redemption and closing.                   *)
(*                                                                         *)
(* The first series is the scenario's own, with named holders; the others  *)
(* share its vault and each has one holder.  A price path enters only by   *)
(* the squared return of each step, which is all a series reads of it.     *)
(* Time is counted in sampling intervals from the start of the window.     *)
(***************************************************************************)
EXTENDS SeriesPricing, FiniteSetsExt

CONSTANTS
    Main, Siblings,     \* the series
    Holders,            \* who trades the main one
    Params,             \* series -> parameters, fixed for its life
    Collateral,         \* what the writer deposits
    Amounts,            \* what a buyer may spend at once
    SiblingAmount,      \* what a sibling's buyer spends
    SquaredReturns,     \* squared returns a path may have
    MaxSamples,         \* samples one checkpoint call stores at most
    ExitShares,         \* the fractions 1/n of a position sold at once
    Expiry              \* steps of the window

\* The terms of the scenarios: amounts, variances and a spread within 100 %.
ValidParams(p) ==
    /\ p.notional \in Nat \ {0} /\ p.cap \in Nat \ {0} /\ p.anchor \in Nat
    /\ p.impact \in Nat /\ p.halfLife \in Nat /\ p.maxUnits \in Nat
    /\ p.spread \in 0..BPS

ASSUME WindowAssumption == Expiry \in Nat \ {0} /\ MaxSamples \in Nat \ {0}
ASSUME NamesAssumption ==
    /\ IsFiniteSet(Siblings) /\ IsFiniteSet(Holders)
    /\ Main \notin Siblings /\ Holders \intersect Siblings = {}
ASSUME ParamsAssumption == \A s \in {Main} \union Siblings : ValidParams(Params[s])
ASSUME InputsAssumption ==
    /\ Collateral \in Nat /\ Amounts \subseteq Nat /\ SiblingAmount \in Nat
    /\ SquaredReturns \subseteq Nat /\ ExitShares \subseteq Nat \ {0}

VARIABLES
    now,      \* the step the driver is at
    phase,    \* "window", then "redeem", then "done"
    vault,    \* balance, locked, and the error an operation threw
    series,   \* the series' state
    held,     \* units of the main holders and of the siblings' holders
    path      \* series -> step -> squared return

vars == <<now, phase, vault, series, held, path>>

AllSeries == {Main} \union Siblings

-----------------------------------------------------------------------------
(* Vault: every operation asserts that the balance covers what is locked.  *)

Throw(v, error) == [v EXCEPT !.error = IF @ = "none" THEN error ELSE @]

AssertSolvent(v) ==
    IF v.balance < v.locked THEN Throw(v, "Undercollateralized") ELSE v

Free(v) == v.balance - v.locked

Credit(v, amount) == AssertSolvent([v EXCEPT !.balance = @ + amount])

Debit(v, amount) ==
    IF amount > v.balance THEN Throw(v, "ExceedsBalance")
    ELSE AssertSolvent([v EXCEPT !.balance = @ - amount])

IncreaseLocked(v, amount) == AssertSolvent([v EXCEPT !.locked = @ + amount])

DecreaseLocked(v, amount) ==
    IF amount > v.locked THEN Throw(v, "ExceedsLocked")
    ELSE AssertSolvent([v EXCEPT !.locked = @ - amount])

-----------------------------------------------------------------------------
(* Series: samples.                                                        *)

NewSeries(s) ==
    [skew |-> 0, lastSkew |-> 0, outstanding |-> 0,
     available |-> Params[s].maxUnits, liability |-> 0,
     finalized |-> FALSE, ppu |-> 0, samples |-> 1, sum |-> 0,
     premium |-> 0, paid |-> 0]

AvailableSamples(t) == Least(t, Expiry) + 1

TotalSamples == Expiry + 1

IsCurrent(r, t) == r.samples >= AvailableSamples(t)

\* One bounded call; sample i brings the squared return of step i.
Checkpoint(s, r, t) ==
    LET last == Least(AvailableSamples(t), r.samples + MaxSamples)
    IN  [r EXCEPT !.samples = last,
                  !.sum = @ + SumFunction([i \in r.samples..(last - 1) |-> path[s][i]])]

\* bringCurrent: bounded calls until the window is current.
BringCurrent(s, t) ==
    LET walk[n \in Nat] ==
            IF n = 0 THEN series[s] ELSE Checkpoint(s, walk[n - 1], t)
    IN  walk[CHOOSE n \in 0..TotalSamples : IsCurrent(walk[n], t)]

Processed(r) == r.samples - 1

RealizedSoFar(r) == Annualize(r.sum, Processed(r))

-----------------------------------------------------------------------------
(* Series: quote and fills.                                                *)

Decayed(s, r) == DecaySkew(r.skew, Greatest(0, now - r.lastSkew), Params[s].halfLife)

Projected(s, r) ==
    LET p == Params[s] IN
    ProjectedVariance(RealizedSoFar(r), Processed(r),
                      ForwardVariance(p.anchor, Decayed(s, r), p.cap),
                      Expiry - Processed(r))

Quote(s, r) ==
    LET p == Params[s]
        remaining == Expiry - Processed(r)
    IN [ask      |-> AskVariance(Projected(s, r), p.spread, p.cap),
        bid      |-> BidVariance(Projected(s, r), p.spread, p.cap),
        askSlope |-> AskSlope(p.impact, remaining, Expiry, p.spread),
        bidSlope |-> BidSlope(p.impact, remaining, Expiry, p.spread)]

IssuanceOpen(s, r) ==
    ~r.finalized /\ now <= Params[s].saleEnd /\ r.available > 0

ExitOpen(r) == ~r.finalized /\ now < Expiry /\ r.outstanding > 0

Cap(s, units)  == MaxLiability(units, Params[s].notional, Params[s].cap)
Owed(r, units) == FinalLiability(units, r.ppu)

NoFill == [units |-> 0, quote |-> 0, released |-> 0]

\* Mutant: the collateral clamp looks at the balance, not at what is free.
IssueUnitsOfBalance(s, r, amount) ==
    LET p == Params[s]
        q == Quote(s, r)
    IN  Min({IssueUnitsFor(q.ask, q.askSlope, p.notional, amount),
             r.available,
             IssueUnitsToCap(q.ask, q.askSlope, p.cap),
             IssueUnitsToCollateral(r.outstanding, r.liability, vault.balance,
                                    p.notional, p.cap)})

\* What an amount buys, after every clamp.
IssueUnits(s, r, amount) ==
    LET p == Params[s]
        q == Quote(s, r)
    IN  Min({IssueUnitsFor(q.ask, q.askSlope, p.notional, amount),
             r.available,
             IssueUnitsToCap(q.ask, q.askSlope, p.cap),
             IssueUnitsToCollateral(r.outstanding, r.liability, Free(vault),
                                    p.notional, p.cap)})

IssueFill(s, r, amount) ==
    LET q       == Quote(s, r)
        units   == IssueUnits(s, r, amount)
        premium == IssuePremium(q.ask, q.askSlope, Params[s].notional, units)
    IN  IF IssuanceOpen(s, r) /\ units > 0 /\ premium > 0
        THEN [units |-> units, quote |-> premium] ELSE NoFill

\* The reservation comes first, at the cap, from the aggregate position.
Issued(s, r, f) ==
    [r EXCEPT !.outstanding = @ + f.units, !.available = @ - f.units,
              !.liability = Cap(s, r.outstanding + f.units),
              !.premium = @ + f.quote,
              !.skew = Decayed(s, r) + (Params[s].impact * f.units) \div WAD,
              !.lastSkew = now]

IssueVault(s, r, f) ==
    Credit(IncreaseLocked(vault, Cap(s, r.outstanding + f.units) - r.liability), f.quote)

\* A payout never exceeds what its burn releases, nor the balance.
Clamped(amount, released) == Least(Least(amount, released), vault.balance)

\* A sale of units that may owe `owed` after it.
Sale(r, units, amount, owed) ==
    LET released == r.liability - owed
        out      == Clamped(amount, released)
    IN  IF units > 0 /\ out > 0
        THEN [units |-> units, quote |-> out, released |-> released]
        ELSE NoFill

ExitFill(s, r, want) ==
    LET q     == Quote(s, r)
        units == Min({want, r.outstanding, ExitUnitsToZeroBid(q.bid, q.bidSlope)})
    IN  IF ExitOpen(r)
        THEN Sale(r, units, ExitProceeds(q.bid, q.bidSlope, Params[s].notional, units),
                  Cap(s, r.outstanding - units))
        ELSE NoFill

SettleFill(r, want) ==
    LET units == Least(want, r.outstanding) IN
    Sale(r, units, SettleProceeds(units, r.ppu), Owed(r, r.outstanding - units))

Burned(r, f) ==
    [r EXCEPT !.outstanding = @ - f.units, !.liability = @ - f.released,
              !.paid = @ + f.quote]

Exited(s, r, f) ==
    [Burned(r, f) EXCEPT
        !.skew = Decayed(s, r) - (Params[s].impact * f.units) \div WAD,
        !.lastSkew = now]

\* Mutant: a payout leaves the reservation it extinguishes in place.
PaidOnly(f) == Debit(vault, f.quote)

PayOut(f) == Debit(DecreaseLocked(vault, f.released), f.quote)

-----------------------------------------------------------------------------
(* Driver: the window.                                                     *)

Init ==
    /\ now = 0
    /\ phase = "window"
    /\ vault = [balance |-> Collateral, locked |-> 0, error |-> "none"]
    /\ series = [s \in AllSeries |-> NewSeries(s)]
    /\ held = [h \in Holders \union Siblings |-> 0]
    /\ path \in [AllSeries -> [1..Expiry -> SquaredReturns]]

Runs(p) == phase = p /\ vault.error = "none"

Trading == Runs("window") /\ now < Expiry

\* A buy, by a holder of the main series or by the one holder of a sibling.
BuyOf(s, h, amount) ==
    LET r == BringCurrent(s, now)
        f == IssueFill(s, r, amount)
    IN  IF f.units = 0
        THEN series' = [series EXCEPT ![s] = r] /\ UNCHANGED <<vault, held>>
        ELSE /\ series' = [series EXCEPT ![s] = Issued(s, r, f)]
             /\ vault' = IssueVault(s, r, f)
             /\ held' = [held EXCEPT ![h] = @ + f.units]

Buy(h, amount) ==
    /\ Trading
    /\ now <= Params[Main].saleEnd
    /\ BuyOf(Main, h, amount)
    /\ UNCHANGED <<now, phase, path>>

BuySibling(s) ==
    /\ Runs("window")
    /\ IssuanceOpen(s, series[s])
    /\ BuyOf(s, s, SiblingAmount)
    /\ UNCHANGED <<now, phase, path>>

ExitUnits(h, units) ==
    LET r == BringCurrent(Main, now)
        f == ExitFill(Main, r, units)
    IN  /\ Trading
        /\ units > 0
        /\ IF f.units = 0
           THEN series' = [series EXCEPT ![Main] = r] /\ UNCHANGED <<vault, held>>
           ELSE /\ series' = [series EXCEPT ![Main] = Exited(Main, r, f)]
                /\ vault' = PayOut(f)
                /\ held' = [held EXCEPT ![h] = @ - f.units]
        /\ UNCHANGED <<now, phase, path>>

\* The flag issuanceStopped, too, only closes issuance: so does this.
StopIssuance ==
    /\ Trading
    /\ series' = [series EXCEPT ![Main].available = 0]
    /\ UNCHANGED <<now, phase, vault, held, path>>

NextStep ==
    /\ Trading
    /\ now' = now + 1
    /\ UNCHANGED <<phase, vault, series, held, path>>

-----------------------------------------------------------------------------
(* Driver: finalization, redemption, closing.                              *)

Finalized(s, r) ==
    LET variance == Annualize(r.sum, Expiry)
        ppu      == PayoutPerUnit(variance, Params[s].cap, Params[s].notional)
    IN  [r EXCEPT !.finalized = TRUE, !.ppu = ppu,
                  !.liability = FinalLiability(r.outstanding, ppu)]

Finalize(s) ==
    LET r == BringCurrent(s, Expiry) IN
    /\ Runs("window")
    /\ now = Expiry
    /\ ~series[s].finalized
    /\ \A x \in AllSeries : s = Main \/ series[Main].finalized
    /\ series' = [series EXCEPT ![s] = Finalized(s, r)]
    /\ vault' = DecreaseLocked(vault, Greatest(r.liability - Finalized(s, r).liability, 0))
    /\ phase' = IF \A x \in AllSeries \ {s} : series[x].finalized
                THEN "redeem" ELSE "window"
    /\ UNCHANGED <<now, held, path>>

\* A worthless series is burned, and its first burn releases all that is
\* reserved; any other is settled, unless the claim rounds to nothing.
Burn(s, h) ==
    LET r == series[s] IN
    /\ r.ppu = 0
    /\ series' = [series EXCEPT ![s].outstanding = @ - Least(held[h], @),
                               ![s].liability = 0]
    /\ vault' = DecreaseLocked(vault, r.liability)
    /\ held' = [held EXCEPT ![h] = 0]

Settle(s, h) ==
    LET f == SettleFill(series[s], held[h]) IN
    /\ f.units > 0
    /\ series' = [series EXCEPT ![s] = Burned(series[s], f)]
    /\ vault' = PayOut(f)
    /\ held' = [held EXCEPT ![h] = @ - f.units]

SeriesOf(h) == IF h \in Siblings THEN h ELSE Main

Redeem(h) ==
    /\ Runs("redeem")
    /\ held[h] > 0
    /\ Burn(SeriesOf(h), h) \/ Settle(SeriesOf(h), h)
    /\ UNCHANGED <<now, phase, path>>

Redeemed(h) ==
    LET r == series[SeriesOf(h)] IN
    held[h] = 0 \/ (r.ppu > 0 /\ SettleFill(r, held[h]).units = 0)

\* Closing a series with claims throws; the driver closes the main series in
\* any case, and those siblings that have none.
Closed(s) == series[s].outstanding = 0

Close ==
    /\ Runs("redeem")
    /\ \A h \in Holders \union Siblings : Redeemed(h)
    /\ IF Closed(Main)
       THEN /\ series' = [s \in AllSeries |->
                            IF Closed(s) THEN [series[s] EXCEPT !.available = 0, !.liability = 0]
                                         ELSE series[s]]
            /\ vault' = DecreaseLocked(vault,
                           SumFunction([s \in AllSeries |->
                                    IF Closed(s) THEN series[s].liability ELSE 0]))
            /\ phase' = "done"
       ELSE vault' = Throw(vault, "ClaimsOutstanding") /\ UNCHANGED <<series, phase>>
    /\ UNCHANGED <<now, held, path>>

Flow ==
    \/ \E h \in Holders, a \in Amounts : Buy(h, a)
    \/ \E h \in Holders : \E n \in ExitShares : ExitUnits(h, held[h] \div n)
    \/ StopIssuance

Next ==
    \/ Flow
    \/ \E s \in Siblings : BuySibling(s)
    \/ NextStep
    \/ \E s \in AllSeries : Finalize(s)
    \/ \E h \in Holders \union Siblings : Redeem(h)
    \/ Close

Spec == Init /\ [][Next]_vars

-----------------------------------------------------------------------------
(* Properties.                                                             *)

\* "Every mutation asserts the vault's solvency invariant" (market.ts): no
\* operation of the vault or of a series throws, however two series compete
\* for the free collateral, so every clamp comes before the check it is for.
\* A run ends in ClaimsOutstanding only over claims too small to pay.
NeverThrows ==
    \/ vault.error = "none"
    \/ /\ vault.error = "ClaimsOutstanding"
       /\ \A h \in Holders : SettleProceeds(held[h], series[Main].ppu) = 0

\* The driver's checks: the vault's balance equals deposits plus premiums
\* minus payouts, the lock is the sum of the series' liabilities, the units
\* out are the holders', and nothing is locked without a claim.
Accounted ==
    /\ vault.balance
         = Collateral + SumFunction([s \in AllSeries |-> series[s].premium - series[s].paid])
    /\ vault.locked = SumFunction([s \in AllSeries |-> series[s].liability])
    /\ series[Main].outstanding = SumFunction([h \in Holders |-> held[h]])
    /\ \A s \in Siblings : series[s].outstanding = held[s]
    /\ phase = "done" /\ (\A s \in AllSeries : Closed(s)) => vault.locked = 0

\* The simulator's vault keeps the promise of an escrow: what it locks is
\* what its series reserve, reservations come out of free collateral, and a
\* payout is covered by what it releases.
Escrow == INSTANCE CollateralEscrow WITH
    Positions <- AllSeries,
    balance   <- vault.balance,
    reserved  <- [s \in AllSeries |-> series[s].liability]

ImplementsEscrow == Escrow!Spec
=============================================================================
