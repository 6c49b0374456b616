----------------------------- MODULE SeriesPages ------------------------------
(***************************************************************************)
(* The v2 market seen through the Lens (contracts/src/TremorLens.sol) and  *)
(* the web pages of SeriesViews: what a page offers between two            *)
(* transactions, against what the controller would do.                     *)
(*                                                                         *)
(* Prices are left out of the Lens's answer: no offer depends on them.     *)
(***************************************************************************)
EXTENDS SeriesController, SeriesPage

\* The page computes in the contract's unit; undefined is neither an amount
\* nor one of the reasons a ticket refuses for.
ASSUME ShownAssumption ==
    /\ UNIT = WAD
    /\ Unknown \notin Nat
    /\ Unknown \notin {"Contracts not deployed", "Connect a wallet", "Series closed",
                       "Sale closed", "Sold out", "Issuance closed",
                       "Update the market first", "Vault does not back this series",
                       "Not for sale", "Insufficient USDC", "Window has not started",
                       "Expired", "No exit market", "Exit unavailable", "No receipts held",
                       "Exceeds your balance", "Locked until expiry",
                       "Finalize the variance first", "Redemption unavailable"}

\* Of a series that exists. Aqua reports a docked strategy as empty and
\* inactive; the vault's allowance never runs out.
LegActive(s, kind) == aqua[s][kind] # Docked

VaultState ==
    [balance |-> balance, locked |-> lockedQuote, free |-> FreeQuote,
     allowanceSufficient |-> TRUE]

OracleProgress(s) ==
    [samplesStored |-> samples[s], samplesAvailable |-> AvailableSamples(s),
     samplesTotal |-> TotalSamples(s),
     checkpointsCurrent |-> samples[s] >= AvailableSamples(s)]

LensStatus(s) ==
    IF series[s].closed THEN 4
    ELSE IF series[s].finalized THEN 3
    ELSE IF now >= Params[s].expiry THEN 2
    ELSE IF now < Params[s].start THEN 0 ELSE 1

Lens(s) ==
    LET r == series[s]
        p == Params[s]
        available == IF LegActive(s, "ISSUE") THEN aqua[s]["ISSUE"] ELSE 0
        o == OracleProgress(s)
    IN  [id |-> s, status |-> LensStatus(s), expiry |-> p.expiry,
         unitNotional |-> p.notional, capVariance |-> p.cap, askVariance |-> 0,
         bidVariance |-> 0, realizedVarianceSoFar |-> 0, finalVariance |-> 0,
         unitsOutstanding |-> r.outstandingUnits, unitsAvailable |-> available,
         lockedLiability |-> r.lockedLiability, payoutPerUnit |-> r.payoutPerUnit,
         samplesStored |-> o.samplesStored, samplesAvailable |-> o.samplesAvailable,
         samplesTotal |-> o.samplesTotal, checkpointsCurrent |-> o.checkpointsCurrent,
         issueLegActive |-> LegActive(s, "ISSUE"), exitLegActive |-> LegActive(s, "EXIT"),
         settleLegActive |-> LegActive(s, "SETTLE"),
         issuanceOpen |-> ~r.closed /\ ~r.issuanceStopped /\ ~r.finalized
                          /\ now <= p.saleEnd /\ available > 0 /\ LegActive(s, "ISSUE"),
         exitOpen |-> ~r.closed /\ ~r.finalized /\ now < p.expiry
                      /\ r.outstandingUnits > 0 /\ LegActive(s, "EXIT"),
         settleOpen |-> ~r.closed /\ r.finalized /\ r.outstandingUnits > 0
                        /\ LegActive(s, "SETTLE"),
         fullyCollateralized |-> VaultState.balance >= VaultState.locked
                                 /\ VaultState.allowanceSufficient
                                 /\ (r.outstandingUnits = 0 \/ LegActive(s, "EXIT")
                                     \/ LegActive(s, "SETTLE")),
         vaultState |-> VaultState]

-----------------------------------------------------------------------------
\* What the pages make of it.

Shown(s) == fromLensState(Lens(s))
Wallet(s, h) == [deployed |-> TRUE, connected |-> TRUE, usdc |-> Unknown,
                 receipts |-> receipts[s][h]]
Typed(units) == [parsed |-> units, running |-> FALSE, mode |-> "exactOut",
                 quote |-> [units |-> units, premium |-> 0]]

\* A page is read between transactions.
Read == stack = << >>
Existing == {s \in AllSeries : series[s].created}

Redeeming(s, h, units) == RedeemTicket(Shown(s), Wallet(s, h), Typed(units), Unknown)
Selling(s, h, units) == ExitTicket(Shown(s), Wallet(s, h), Typed(units), Unknown)
Buying(s, h, units) == BuyTicket(Shown(s), Wallet(s, h), Typed(units), Unknown, FALSE)
Oracle(s, h) == OracleTicket(Shown(s), Wallet(s, h), Unknown, FALSE, FALSE)
Position(s, h) == PositionSummary(Shown(s), Wallet(s, h), Unknown)
Tab(s, side) == LET sides == sidesFor(Shown(s)) IN \E i \in DOMAIN sides : sides[i] = side

\* What a whole payout needs of the controller, Aqua and the vault.
Pays(s, kind, h, units, out, owedAfter) ==
    LET released == series[s].lockedLiability - owedAfter IN
    /\ units <= receipts[s][h] /\ units <= series[s].outstandingUnits
    /\ out <= released /\ out <= aqua[s][kind] /\ out <= balance /\ released <= lockedQuote

\* What closeSeries needs besides the end of the sale: two strategies to dock
\* and a residual that is locked.
Closable(s) ==
    /\ ~series[s].closed /\ series[s].outstandingUnits = 0
    /\ aqua[s]["EXIT"] # Docked /\ aqua[s]["SETTLE"] # Docked
    /\ series[s].lockedLiability <= lockedQuote

\* A button that is live does what it says: a sale passes every check that
\* does not depend on its price, a redemption worth a base unit is paid in
\* full, a worthless burn, a checkpoint, a finalization and a stop go
\* through, and so does a close once the sale is over (before, it reverts: see
\* the README); and the position of a holder is shown at what it redeems for.
OffersExecute ==
    Read =>
    /\ \A s \in Existing :
        canClose(Shown(s)) /\ (series[s].issuanceStopped \/ now > Params[s].saleEnd)
            => Closable(s)
    /\ \A s \in Existing, h \in Holders, units \in UnitAmounts :
           LET r == series[s]
               owed == SettleProceeds(units, r.payoutPerUnit)
           IN  /\ Buying(s, h, units).submits =>
                   IssuanceOpen(s) /\ IsCurrent(s) /\ aqua[s]["ISSUE"] > 0
               /\ Selling(s, h, units).submits =>
                   /\ ExitOpen(s) /\ IsCurrent(s)
                   /\ Pays(s, "EXIT", h, units, 0, Liability(s, r.outstandingUnits - units))
               /\ (Redeeming(s, h, units).redeems /\ owed > 0) =>
                   /\ r.finalized /\ aqua[s]["SETTLE"] # Docked
                   /\ Pays(s, "SETTLE", h, units, owed,
                           FinalLiability(r.outstandingUnits - units, r.payoutPerUnit))
               /\ Redeeming(s, h, units).burns =>
                   r.finalized /\ r.payoutPerUnit = 0 /\ units <= r.outstandingUnits
               /\ Oracle(s, h).checkpoints => samples[s] < AvailableSamples(s)
               /\ Oracle(s, h).finalizes =>
                   ~r.finalized /\ now >= Params[s].expiry /\ samples[s] = TotalSamples(s)
               /\ Shown(s).issuanceOpen => ~r.issuanceStopped
               /\ Position(s, h).shown /\ r.finalized =>
                   Position(s, h).value = SettleProceeds(receipts[s][h], r.payoutPerUnit)

\* Whoever holds receipts always finds a tab with something to do: from the
\* start of the window a holder can sell or has a checkpoint to make, from
\* expiry on a checkpoint, the finalization, a redemption or a burn.
WayOut ==
    Read =>
    \A s \in Existing, h \in Holders :
        LET held == receipts[s][h] IN
        (held > 0 /\ now >= Params[s].start) =>
            \/ Tab(s, "exit") /\ Selling(s, h, held).submits
            \/ Tab(s, "oracle") /\ (Oracle(s, h).checkpoints \/ Oracle(s, h).finalizes)
            \/ Tab(s, "redeem") /\ (Redeeming(s, h, held).redeems \/ Redeeming(s, h, held).burns)
=============================================================================
