-------------------------- MODULE SeriesController ---------------------------
(***************************************************************************)
(* The v2 market: the controller contracts/src/VarianceSeriesFactory.sol   *)
(* with the engine that prices its fills, the receipts and one writer's    *)
(* vault, run through the router of SwapRouter and watched by the subgraph *)
(* of SeriesSubgraph.                                                      *)
(*                                                                         *)
(* Of the accumulator only its progress counts here, in sampling           *)
(* intervals; what it measured enters as the ask, the bid and the final    *)
(* variance, any of a set.  The skew is left out with it: all it does is   *)
(* move the next ask and bid.                                              *)
(***************************************************************************)
EXTENDS SeriesPricing, MakerVault, SwapRouter, SeriesSubgraph

CONSTANTS
    AllSeries,    \* the series the writer may create
    Holders,      \* who trades
    Params,       \* terms of each series
    Asks, Bids,   \* variances a fill may be priced from
    Variances,    \* final variances the accumulator may report
    Deposits,     \* amounts that move in and out of the vault
    Amounts,      \* premiums a buyer may offer
    UnitAmounts,  \* units a taker or a holder may name
    MaxDeposited, \* bound on what is ever deposited
    MaxTime       \* bound on the clock

\* _validate: the terms a series can be created with.
ValidParams(p) ==
    /\ p.start \in Nat /\ p.saleEnd \in Nat /\ p.expiry \in Nat
    /\ p.start < p.expiry /\ p.start <= p.saleEnd /\ p.saleEnd <= p.expiry
    /\ p.notional \in Nat \ {0}
    /\ p.cap \in Nat \ {0}
    /\ p.slope \in Nat
    /\ p.maxUnits \in Nat \ {0}

ASSUME SeriesAssumption == IsFiniteSet(AllSeries)
\* The zero address holds no receipts: ERC20 refuses to send it any.
ASSUME HoldersAssumption ==
    IsFiniteSet(Holders) /\ "vault" \notin Holders /\ "zero" \notin Holders
ASSUME ParamsAssumption == \A s \in AllSeries : ValidParams(Params[s])
ASSUME InputsAssumption ==
    /\ Asks \subseteq Nat /\ Bids \subseteq Nat /\ Variances \subseteq Nat
    /\ Deposits \subseteq Nat \ {0}
    /\ Amounts \subseteq Nat \ {0}
    /\ UnitAmounts \subseteq Nat \ {0}

VARIABLES
    now,          \* block.timestamp, in sampling intervals
    isVault,      \* the writer's vault exists
    series,       \* _series: the mutable part
    receipts,     \* balances of each series' receipt
    aqua,         \* virtual balance of each order's outgoing token
    samples,      \* processedSamples of each series' window
    deposited,    \* history: sum of all deposits
    advance       \* history: quote paid by swaps in flight ahead of the burn,
                  \* less quote owed for receipts they burned already

ledger == <<series, receipts, aqua, samples>>
chain == <<balance, lockedQuote, ledger, deposited, advance>>
vars == <<now, isVault, stack, chain, log, entities>>

Snapshot ==
    [balance |-> balance, lockedQuote |-> lockedQuote, series |-> series,
     receipts |-> receipts, aqua |-> aqua, samples |-> samples,
     deposited |-> deposited, advance |-> advance, log |-> log]

Accounts == Holders \union {"vault"}

\* A docked strategy has no balance, not even an empty one.
Docked == -1

NoSeries ==
    [created |-> FALSE, issuanceStopped |-> FALSE, finalized |-> FALSE,
     closed |-> FALSE, outstandingUnits |-> 0, lockedLiability |-> 0,
     payoutPerUnit |-> 0]

Init ==
    /\ now = 0 /\ isVault = FALSE
    /\ balance = 0 /\ lockedQuote = 0 /\ deposited = 0 /\ advance = 0
    /\ stack = << >>
    /\ series = [s \in AllSeries |-> NoSeries]
    /\ receipts = [s \in AllSeries |-> [a \in Accounts |-> 0]]
    /\ aqua = [s \in AllSeries |-> [k \in Kinds |-> Docked]]
    /\ samples = [s \in AllSeries |-> 0]
    /\ log = << >> /\ entities = NoEntities

\* A call that ends a transaction unless a swap is in flight around it.
Call(events) ==
    /\ Callable
    /\ UNCHANGED <<now, stack>>
    /\ Emit(events, stack = << >>)

Transfer(s, from, to, amount) ==
    [source |-> "receipt", event |-> "Transfer", series |-> s, from |-> from,
     to |-> to, amount |-> amount]

LockMoved(kind) == [source |-> "vault", event |-> kind, locked |-> lockedQuote']

Referenced(kind, ref) == <<[source |-> "vault", event |-> kind, reference |-> ref]>>

\* What an order that is docked, if it is still shipped, has the vault log.
DockedLog(s, kind) ==
    IF aqua[s][kind] = Docked THEN << >> ELSE Referenced("StrategyDocked", <<s, kind>>)

-----------------------------------------------------------------------------
(* Vault and series creation *)

CreateVault ==
    /\ ~isVault
    /\ isVault' = TRUE
    /\ Call(<<[source |-> "market", event |-> "VaultCreated"]>>)
    /\ UNCHANGED chain

\* Mutant: the reserve is rounded down.
LiabilityDown(s, units) == MulDiv(units * Params[s].notional, Params[s].cap, WAD * WAD)

Liability(s, units) == MaxLiability(units, Params[s].notional, Params[s].cap)

AvailableSamples(s) ==
    LET p == Params[s] IN
    IF now < p.start THEN 0 ELSE Least(now, p.expiry) - p.start + 1

TotalSamples(s) == Params[s].expiry - Params[s].start + 1

Progress(s, stored) ==
    [source |-> "market", event |-> "Checkpointed", series |-> s,
     processedThrough |-> Params[s].start + stored - 1]

\* The whole supply is minted to the vault, the three strategies are shipped,
\* and a window that is open already gets its first sample.
CreateSeries(s) ==
    LET p == Params[s]
        seeded == IF p.start <= now THEN 1 ELSE 0
    IN  /\ isVault
        /\ ~series[s].created
        /\ p.saleEnd >= now
        /\ series' = [series EXCEPT ![s].created = TRUE]
        /\ receipts' = [receipts EXCEPT ![s]["vault"] = p.maxUnits]
        /\ aqua' = [aqua EXCEPT ![s] =
                      [k \in Kinds |-> IF k = "ISSUE" THEN p.maxUnits
                                       ELSE Liability(s, p.maxUnits)]]
        /\ samples' = [samples EXCEPT ![s] = seeded]
        /\ Call(Referenced("ReceiptRegistered", s)
                \o Referenced("StrategyShipped", <<s, "ISSUE">>)
                \o Referenced("StrategyShipped", <<s, "EXIT">>)
                \o Referenced("StrategyShipped", <<s, "SETTLE">>)
                \o <<[source |-> "market", event |-> "SeriesCreated", series |-> s,
                      start |-> p.start]>>
                \o (IF seeded = 1 THEN <<Progress(s, 1)>> ELSE << >>)
                \o <<Transfer(s, "zero", "vault", p.maxUnits)>>)
        /\ VaultUnchanged
        /\ UNCHANGED <<isVault, deposited, advance>>

-----------------------------------------------------------------------------
(* Swaps: the engine prices the fill, the controller books an issue *)

Frame(s, kind, taker, in, out, inFirst) ==
    [group |-> s, kind |-> kind, side |-> "VAR", taker |-> taker, amountIn |-> in,
     amountOut |-> out, inFirst |-> inFirst, stage |-> "first", saved |-> Snapshot]

IsCurrent(s) == now < Params[s].start \/ samples[s] >= AvailableSamples(s)

\* _issueLimits: Aqua's inventory, the free collateral, the way to the cap.
IssueLimit(s, ask) ==
    LET p == Params[s]
        r == series[s]
    IN  Min({aqua[s]["ISSUE"],
             IssueUnitsToCollateral(r.outstandingUnits, r.lockedLiability, FreeQuote,
                                    p.notional, p.cap),
             IssueUnitsToCap(ask, p.slope, p.cap)})

\* _priceIssue: a fill that is cut short is charged for what it sells.
IssueFill(s, ask, exactIn, amount) ==
    LET p     == Params[s]
        limit == IssueLimit(s, ask)
        asked == IF exactIn THEN IssueUnitsFor(ask, p.slope, p.notional, amount)
                 ELSE amount
        units == Least(asked, limit)
    IN  [units   |-> units,
         premium |-> IF exactIn /\ asked <= limit THEN amount
                     ELSE IssuePremium(ask, p.slope, p.notional, units)]

IssuanceOpen(s) ==
    /\ ~series[s].issuanceStopped /\ ~series[s].finalized
    /\ now <= Params[s].saleEnd

\* Mutant: the vault is not told.
OnIssueUnreserved(s, units) ==
    LET out == series[s].outstandingUnits + units
    IN  /\ series' = [series EXCEPT ![s].outstandingUnits = out,
                                    ![s].lockedLiability = Liability(s, out)]
        /\ VaultUnchanged

\* onIssue: reserve before any token moves.
OnIssue(s, units) ==
    LET out   == series[s].outstandingUnits + units
        delta == Liability(s, out) - series[s].lockedLiability
    IN  /\ series' = [series EXCEPT ![s].outstandingUnits = out,
                                    ![s].lockedLiability = Liability(s, out)]
        /\ IncreaseLocked(delta)

SwapIssue(s, h, ask, exactIn, amount, inFirst) ==
    LET fill == IssueFill(s, ask, exactIn, amount) IN
    /\ CanSwap(s, "ISSUE", "VAR")
    /\ series[s].created
    /\ aqua[s]["ISSUE"] # Docked
    /\ IssuanceOpen(s)
    /\ IsCurrent(s)
    /\ fill.units > 0
    /\ OnIssue(s, fill.units)
    /\ EnterSwap(Frame(s, "ISSUE", h, fill.premium, fill.units, inFirst))
    /\ Emit(<<LockMoved("LockedIncreased"),
              [source |-> "market", event |-> "Issued", series |-> s, units |-> fill.units,
               quote |-> fill.premium,
               newOutstanding |-> series'[s].outstandingUnits,
               newLocked |-> series'[s].lockedLiability]>>, FALSE)
    /\ UNCHANGED <<now, isVault, receipts, aqua, samples, deposited, advance>>

\* A payout is cut to what the burn releases and to Aqua's balance.
PayoutLimit(s, kind, amount, owedAfter) ==
    Min({amount, series[s].lockedLiability - owedAfter, aqua[s][kind]})

SwapPayout(s, kind, h, units, out, inFirst) ==
    /\ CanSwap(s, kind, "VAR")
    /\ aqua[s][kind] # Docked
    /\ units > 0 /\ out > 0
    /\ EnterSwap(Frame(s, kind, h, units, out, inFirst))
    /\ UNCHANGED <<now, isVault, chain, log, entities>>

ExitOpen(s) == ~series[s].finalized /\ now < Params[s].expiry

\* _priceExit and onExit.
SwapExit(s, h, bid, asked, inFirst) ==
    LET p     == Params[s]
        out   == series[s].outstandingUnits
        units == Min({asked, out, ExitUnitsToZeroBid(bid, p.slope)})
        paid  == PayoutLimit(s, "EXIT", ExitProceeds(bid, p.slope, p.notional, units),
                             Liability(s, out - units))
    IN  /\ series[s].created
        /\ ExitOpen(s)
        /\ IsCurrent(s)
        /\ SwapPayout(s, "EXIT", h, units, paid, inFirst)

\* _priceSettle.
SwapSettle(s, h, asked, inFirst) ==
    LET r     == series[s]
        units == Least(asked, r.outstandingUnits)
        paid  == PayoutLimit(s, "SETTLE", SettleProceeds(units, r.payoutPerUnit),
                             FinalLiability(r.outstandingUnits - units, r.payoutPerUnit))
    IN  /\ r.finalized
        /\ r.payoutPerUnit > 0
        /\ SwapPayout(s, "SETTLE", h, units, paid, inFirst)

-----------------------------------------------------------------------------
(* Swaps: the two transfers *)

LiabilityAfter(s, kind, out) ==
    IF kind = "EXIT" THEN Liability(s, out)
    ELSE FinalLiability(out, series[s].payoutPerUnit)

\* Mutant: the vault keeps its lock.
OnBurnKeepsLock(s, kind, units, amountOut) ==
    LET out  == series[s].outstandingUnits - units
        left == LiabilityAfter(s, kind, out)
    IN  /\ out >= 0
        /\ IF kind = "EXIT" THEN ExitOpen(s) ELSE series[s].finalized
        /\ amountOut <= series[s].lockedLiability - left
        /\ series' = [series EXCEPT ![s].outstandingUnits = out,
                                    ![s].lockedLiability = left]
        /\ VaultUnchanged

\* onBurn: everything is checked again, on the present state.
OnBurn(s, kind, units, amountOut) ==
    LET out      == series[s].outstandingUnits - units
        left     == LiabilityAfter(s, kind, out)
        released == series[s].lockedLiability - left
    IN  /\ out >= 0
        /\ IF kind = "EXIT" THEN ExitOpen(s) ELSE series[s].finalized
        /\ released >= 0
        /\ amountOut <= released
        /\ series' = [series EXCEPT ![s].outstandingUnits = out,
                                    ![s].lockedLiability = left]
        /\ DecreaseLocked(released)

Burnt(f) ==
    <<Transfer(f.group, f.taker, "vault", f.amountIn),
      Transfer(f.group, "vault", "zero", f.amountIn),
      LockMoved("LockedDecreased"),
      [source |-> "market", event |-> IF f.kind = "EXIT" THEN "Exited" ELSE "Settled",
       series |-> f.group, units |-> f.amountIn, quote |-> f.amountOut,
       newOutstanding |-> series'[f.group].outstandingUnits,
       newLocked |-> series'[f.group].lockedLiability]>>

\* The router logs the swap once both transfers and their hooks are done.
Swapped(f) ==
    IF f.stage = "first" THEN << >>
    ELSE <<[source |-> "market", event |-> "Swapped", series |-> f.group, leg |-> f.kind,
            amountIn |-> f.amountIn, amountOut |-> f.amountOut]>>

\* Whether the innermost transfer ends the transaction.
Over == Len(stack) = 1 /\ Top.stage = "second"

TransferIn ==
    LET f == Top IN
    /\ TransferInNext
    /\ \/ /\ f.kind = "ISSUE"
          /\ aqua[f.group]["ISSUE"] # Docked
          /\ Pushed(f.amountIn)
          /\ Emit(Swapped(f), Over)
          /\ UNCHANGED <<series, receipts, advance>>
       \/ /\ f.kind # "ISSUE"
          /\ aqua[f.group][f.kind] # Docked
          /\ f.amountIn <= receipts[f.group][f.taker]
          /\ receipts' = [receipts EXCEPT ![f.group][f.taker] = @ - f.amountIn]
          /\ OnBurn(f.group, f.kind, f.amountIn, f.amountOut)
          /\ advance' = advance - f.amountOut
          /\ Emit(Burnt(f) \o Swapped(f), Over)
    /\ TransferDone
    /\ UNCHANGED <<now, isVault, aqua, samples, deposited>>

TransferOut ==
    LET f == Top IN
    /\ TransferOutNext
    /\ f.amountOut <= aqua[f.group][f.kind]
    /\ aqua' = [aqua EXCEPT ![f.group][f.kind] = @ - f.amountOut]
    /\ \/ /\ f.kind = "ISSUE"
          /\ f.amountOut <= receipts[f.group]["vault"]
          /\ receipts' = [receipts EXCEPT ![f.group]["vault"] = @ - f.amountOut,
                                          ![f.group][f.taker] = @ + f.amountOut]
          /\ Emit(<<Transfer(f.group, "vault", f.taker, f.amountOut)>> \o Swapped(f), Over)
          /\ VaultUnchanged
          /\ UNCHANGED advance
       \/ /\ f.kind # "ISSUE"
          /\ Pulled(f.amountOut)
          /\ advance' = advance + f.amountOut
          /\ Emit(Swapped(f), Over)
          /\ UNCHANGED receipts
    /\ TransferDone
    /\ UNCHANGED <<now, isVault, series, samples, deposited>>

\* A failed requirement, or a callback that gives up, undoes the innermost
\* swap, all that ran inside it, and its logs.
Revert ==
    /\ stack # << >>
    /\ balance' = Top.saved.balance
    /\ lockedQuote' = Top.saved.lockedQuote
    /\ series' = Top.saved.series
    /\ receipts' = Top.saved.receipts
    /\ aqua' = Top.saved.aqua
    /\ samples' = Top.saved.samples
    /\ deposited' = Top.saved.deposited
    /\ advance' = Top.saved.advance
    /\ log' = Top.saved.log
    /\ stack' = Below
    /\ UNCHANGED <<now, isVault, entities>>

-----------------------------------------------------------------------------
(* The window and its end *)

\* Checkpoint up to n more samples.
Checkpoint(s, n) ==
    LET stored == Least(samples[s] + n, AvailableSamples(s)) IN
    /\ series[s].created
    /\ samples[s] < AvailableSamples(s)
    /\ samples' = [samples EXCEPT ![s] = stored]
    /\ Call(<<Progress(s, stored)>>)
    /\ VaultUnchanged
    /\ UNCHANGED <<isVault, series, receipts, aqua, deposited, advance>>

\* finalize and onFinalize.
Finalize(s, variance) ==
    LET p    == Params[s]
        ppu  == PayoutPerUnit(variance, p.cap, p.notional)
        left == FinalLiability(series[s].outstandingUnits, ppu)
        released == series[s].lockedLiability - left
    IN  /\ series[s].created /\ ~series[s].finalized
        /\ now >= p.expiry
        /\ samples[s] = TotalSamples(s)
        /\ released >= 0
        /\ series' = [series EXCEPT ![s].finalized = TRUE, ![s].payoutPerUnit = ppu,
                                    ![s].lockedLiability = left]
        /\ IF released > 0 THEN DecreaseLocked(released) ELSE VaultUnchanged
        /\ Call((IF released > 0 THEN <<LockMoved("LockedDecreased")>> ELSE << >>)
                \o <<[source |-> "market", event |-> "Finalized", series |-> s, ppu |-> ppu,
                      outstanding |-> series[s].outstandingUnits,
                      released |-> released]>>)
        /\ UNCHANGED <<isVault, receipts, aqua, samples, deposited, advance>>

StopIssuance(s) ==
    /\ series[s].created /\ ~series[s].issuanceStopped
    /\ series' = [series EXCEPT ![s].issuanceStopped = TRUE]
    /\ aqua' = [aqua EXCEPT ![s]["ISSUE"] = Docked]
    /\ Call(DockedLog(s, "ISSUE")
            \o <<[source |-> "market", event |-> "IssuanceStopped", series |-> s]>>)
    /\ VaultUnchanged
    /\ UNCHANGED <<isVault, receipts, samples, deposited, advance>>

BurnWorthless(s, h, units) ==
    /\ series[s].finalized
    /\ series[s].payoutPerUnit = 0
    /\ units <= series[s].outstandingUnits
    /\ units <= receipts[s][h]
    /\ receipts' = [receipts EXCEPT ![s][h] = @ - units]
    /\ series' = [series EXCEPT ![s].outstandingUnits = @ - units]
    /\ Call(<<Transfer(s, h, "zero", units),
              [source |-> "market", event |-> "WorthlessBurned", series |-> s, units |-> units]>>)
    /\ VaultUnchanged
    /\ UNCHANGED <<isVault, aqua, samples, deposited, advance>>

\* Docks what is still shipped, burns the inventory, releases what rounding
\* left locked.
CloseSeries(s) ==
    LET unsold   == receipts[s]["vault"]
        residual == series[s].lockedLiability
    IN  /\ series[s].created /\ ~series[s].closed
        /\ series[s].outstandingUnits = 0
        /\ series[s].issuanceStopped \/ now > Params[s].saleEnd
        /\ series' = [series EXCEPT ![s].closed = TRUE, ![s].lockedLiability = 0]
        /\ aqua' = [aqua EXCEPT ![s] = [k \in Kinds |-> Docked]]
        /\ receipts' = [receipts EXCEPT ![s]["vault"] = 0]
        /\ IF residual > 0 THEN DecreaseLocked(residual) ELSE VaultUnchanged
        /\ Call(DockedLog(s, "ISSUE") \o DockedLog(s, "EXIT") \o DockedLog(s, "SETTLE")
                \o (IF unsold > 0 THEN <<Transfer(s, "vault", "zero", unsold)>> ELSE << >>)
                \o (IF residual > 0 THEN <<LockMoved("LockedDecreased")>> ELSE << >>)
                \o <<[source |-> "market", event |-> "SeriesClosed", series |-> s]>>)
        /\ UNCHANGED <<isVault, samples, deposited, advance>>

-----------------------------------------------------------------------------
(* Collateral and receipts outside swaps *)

Collateral(kind, amount) ==
    <<[source |-> "vault", event |-> kind, amount |-> amount,
       balance |-> balance', locked |-> lockedQuote']>>

VaultDeposit(amount) ==
    /\ isVault
    /\ deposited + amount <= MaxDeposited
    /\ Deposit(amount)
    /\ deposited' = deposited + amount
    /\ Call(Collateral("Deposited", amount))
    /\ UNCHANGED <<isVault, ledger, advance>>

VaultWithdrawFree(amount) ==
    /\ isVault
    /\ WithdrawFree(amount)
    /\ Call(Collateral("FreeWithdrawn", amount))
    /\ UNCHANGED <<isVault, ledger, deposited, advance>>

\* Receipts are plain ERC-20, the vault is an account like any other.
ReceiptTransfer(s, from, to, units) ==
    /\ from # to
    /\ units <= receipts[s][from]
    /\ receipts' = [receipts EXCEPT ![s][from] = @ - units, ![s][to] = @ + units]
    /\ Call(<<Transfer(s, from, to, units)>>)
    /\ VaultUnchanged
    /\ UNCHANGED <<isVault, series, aqua, samples, deposited, advance>>

Tick ==
    /\ stack = << >>
    /\ now < MaxTime
    /\ now' = now + 1
    /\ UNCHANGED <<isVault, stack, chain, log, entities>>

-----------------------------------------------------------------------------
SwapCall(s, h, inFirst) ==
    \/ \E ask \in Asks : \E exactIn \in BOOLEAN :
        \E a \in IF exactIn THEN Amounts ELSE UnitAmounts :
            SwapIssue(s, h, ask, exactIn, a, inFirst)
    \/ \E u \in UnitAmounts :
        \/ \E bid \in Bids : SwapExit(s, h, bid, u, inFirst)
        \/ SwapSettle(s, h, u, inFirst)

SeriesCall(s) ==
    \/ CreateSeries(s)
    \/ \E n \in 1..TotalSamples(s) : Checkpoint(s, n)
    \/ \E v \in Variances : Finalize(s, v)
    \/ StopIssuance(s)
    \/ CloseSeries(s)

HolderCall(s, h) ==
    \E u \in UnitAmounts :
        \/ BurnWorthless(s, h, u)
        \/ \E to \in Accounts : ReceiptTransfer(s, h, to, u)

Next ==
    \/ CreateVault
    \/ \E a \in Deposits : VaultDeposit(a) \/ VaultWithdrawFree(a)
    \/ \E s \in AllSeries :
        \/ SeriesCall(s)
        \/ \E h \in Holders :
            HolderCall(s, h) \/ \E inFirst \in BOOLEAN : SwapCall(s, h, inFirst)
    \/ TransferIn
    \/ TransferOut
    \/ Revert
    \/ Tick

Spec == Init /\ [][Next]_vars

-----------------------------------------------------------------------------
(* Properties *)

\* The vault is never short by more than the swaps in flight have paid ahead
\* of their burns, nor was it when any of them began: once a transaction is
\* over its balance covers the lock, whichever fills nest in callbacks.
SolventInFlight ==
    /\ balance + advance >= lockedQuote
    /\ Chained(stack, advance)

\* The lock is what the series of the vault have reserved, to the base unit,
\* through every fill, burn and revert.
LockedIsReserved ==
    lockedQuote = SumFunction([s \in AllSeries |-> series[s].lockedLiability])

\* The reserve of a series covers its outstanding units at whatever variance
\* the window may still end, so that finalize can always release the rest, and
\* is exactly their worth once it has.
ReserveCoversClaims ==
    \A s \in AllSeries :
        LET p == Params[s]
            r == series[s]
        IN  IF r.finalized
            THEN r.lockedLiability = FinalLiability(r.outstandingUnits, r.payoutPerUnit)
            ELSE \A v \in Variances :
                    FinalLiability(r.outstandingUnits, PayoutPerUnit(v, p.cap, p.notional))
                        <= r.lockedLiability

\* What a settlement of n units passes on its way: Aqua's balance, the burn's
\* release, the vault's lock, its tokens and the solvency assertion.
Redeemable(s, n) ==
    LET r        == series[s]
        owed     == SettleProceeds(n, r.payoutPerUnit)
        released == r.lockedLiability
                      - FinalLiability(r.outstandingUnits - n, r.payoutPerUnit)
    IN  /\ n <= r.outstandingUnits
        /\ owed <= aqua[s]["SETTLE"]
        /\ owed <= released /\ released <= lockedQuote
        /\ owed <= balance
        /\ balance - owed >= lockedQuote - released

\* After finalization every amount of receipts a holder has settles in full at
\* once, whatever swaps, exits and withdrawals came before.
RedeemInFull ==
    stack = << >> =>
        \A s \in AllSeries, h \in Holders :
            series[s].finalized => \A n \in 1..receipts[s][h] : Redeemable(s, n)

Has(s) == entities.series[s]

\* Once a transaction is over, the series and vault entities are the ledger:
\* absolute figures, deltas and the lock they fold from three sources' logs
\* agree with the contracts', whatever nested, reverted or was burned.
EntitiesAreLedger ==
    stack = << >> =>
        /\ DOMAIN entities.series = {s \in AllSeries : series[s].created}
        /\ entities.vault.lastReportedLocked = lockedQuote
        /\ entities.vault.totalDeposited = deposited
        /\ \A s \in DOMAIN entities.series :
            /\ Has(s).outstanding = series[s].outstandingUnits
            /\ Has(s).locked = series[s].lockedLiability
            /\ Has(s).stopped = series[s].issuanceStopped
            /\ Has(s).closed = series[s].closed
            /\ samples[s] > 0 => Has(s).processedThrough = Params[s].start + samples[s] - 1
            /\ (s \in DOMAIN entities.finalization) <=> series[s].finalized

\* The history adds up to the present: the fills of each leg are the units and
\* the quote the controller reported, issued units are the ones burned and
\* outstanding, accounts hold what they hold, the strategies shipped and not
\* docked are the live ones, and the vault's balance is
\* deposits and premiums less withdrawals and payouts.
HistoryAddsUp ==
    stack = << >> =>
        /\ \A s \in DOMAIN entities.series :
            /\ entities.fills[<<s, "ISSUE">>] =
                    [units |-> Has(s).unitsIssued, quote |-> Has(s).premiumCollected]
            /\ entities.fills[<<s, "EXIT">>] =
                    [units |-> Has(s).unitsExited, quote |-> Has(s).exitPaid]
            /\ entities.fills[<<s, "SETTLE">>] =
                    [units |-> Has(s).unitsSettled, quote |-> Has(s).settlementPaid]
            /\ Has(s).unitsIssued = Has(s).unitsExited + Has(s).unitsSettled
                                        + Has(s).unitsBurned + Has(s).outstanding
            /\ \A a \in Accounts :
                IF <<s, a>> \in DOMAIN entities.balance
                THEN entities.balance[<<s, a>>] = receipts[s][a]
                ELSE receipts[s][a] = 0
        /\ {o \in AllSeries \X Kinds : /\ <<"StrategyShipped", o>> \in entities.vault.actions
                                      /\ <<"StrategyDocked", o>> \notin entities.vault.actions}
             = {o \in AllSeries \X Kinds : aqua[o[1]][o[2]] # Docked}
        /\ balance = entities.vault.totalDeposited - entities.vault.totalWithdrawn
                      + SumFunction([s \in DOMAIN entities.series |->
                            Has(s).premiumCollected - Has(s).exitPaid - Has(s).settlementPaid])
=============================================================================
