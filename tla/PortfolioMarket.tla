--------------------------- MODULE PortfolioMarket ---------------------------
(***************************************************************************)
(* The portfolio market (contracts/src/portfolio/TremorPortfolioMarket.sol)*)
(* with the vault and the router it runs on.  A risk group sells two       *)
(* complementary claims, HIGH and CALM, against one shared reserve.  Each  *)
(* group has six orders, ISSUE, EXIT and SETTLE per side; a swap of one of *)
(* them is three steps here (priced, first transfer, second transfer), and *)
(* whatever a taker's callback may call can happen in between.             *)
(*                                                                         *)
(* One vault with all its groups is modelled: groups of different vaults   *)
(* share no storage.  Receipts are bearer tokens, so the units outside the *)
(* vault form one pool per side, whoever holds them.                       *)
(***************************************************************************)
EXTENDS PortfolioMath, MakerVault, SwapRouter, FiniteSetsExt

CONSTANTS
    Groups,       \* the group ids this vault may create
    Params,       \* GroupParams of each group
    Variances,    \* the outcomes the accumulator may report
    Amounts,      \* quote amounts a caller may name
    UnitAmounts,  \* unit amounts a taker may name
    StrayAmounts, \* unit amounts holders may send to the vault by mistake
    MaxBalance,   \* bound on what deposits bring into the vault
    MaxTime       \* bound on the clock

Sides == {"HIGH", "CALM"}

\* What _validate accepts (the feed wiring and the sampling grid belong to
\* the accumulator).
ValidParams(p) ==
    /\ p.saleEnd \in Nat /\ p.expiry \in Nat /\ p.saleEnd <= p.expiry
    /\ p.capVariance \in Nat \ {0}
    /\ p.capPayoutPerUnit \in Nat \ {0}
    /\ p.maxUnitsPerSide \in Nat \ {0}
    /\ p.ask \in [Sides -> Nat \ {0}]
    /\ p.bid \in [Sides -> Nat]
    /\ \A s \in Sides : p.bid[s] <= p.ask[s] /\ p.ask[s] <= p.capPayoutPerUnit

ASSUME GroupsAssumption == IsFiniteSet(Groups)
ASSUME ParamsAssumption == \A g \in Groups : ValidParams(Params[g])
ASSUME InputsAssumption ==
    /\ Variances \subseteq Nat
    /\ Amounts \subseteq Nat \ {0}
    /\ UnitAmounts \subseteq Nat \ {0}
    /\ StrayAmounts \subseteq Nat \ {0}
    /\ MaxBalance \in Nat
    /\ MaxTime \in Nat

VARIABLES
    now,         \* block.timestamp
    group,       \* _groups: the mutable part of each Group
    held,        \* receipt units of each side outside the vault
    inventory,   \* receipt units of each side the vault owns
    aqua,        \* Aqua's virtual balance of each order's outgoing token
    advance      \* history: quote paid by swaps in flight ahead of the burn,
                 \* less quote owed for receipts they burned already

chain == <<balance, lockedQuote, group, held, inventory, aqua, advance>>
vars == <<now, stack, chain>>

\* What a revert restores.
Snapshot ==
    [balance |-> balance, lockedQuote |-> lockedQuote, group |-> group,
     held |-> held, inventory |-> inventory, aqua |-> aqua, advance |-> advance]

Zero == [s \in Sides |-> 0]

EmptyGroup ==
    [created |-> FALSE, finalized |-> FALSE, outstanding |-> Zero,
     reserveLocked |-> 0, exitBuffer |-> 0, ppu |-> Zero]

Init ==
    /\ now = 0
    /\ balance = 0 /\ lockedQuote = 0 /\ advance = 0
    /\ stack = << >>
    /\ group = [g \in Groups |-> EmptyGroup]
    /\ held = [g \in Groups |-> Zero]
    /\ inventory = [g \in Groups |-> Zero]
    /\ aqua = [g \in Groups |-> [k \in Kinds |-> Zero]]

-----------------------------------------------------------------------------
(* Group creation *)

GroupReserve(g, out) ==
    Reserve(out["HIGH"], out["CALM"], Params[g].capPayoutPerUnit)

\* shipAmounts: the whole inventory for ISSUE, the side's standalone cap for
\* EXIT and SETTLE.
ShipAmounts(g) ==
    LET maxUnits == Params[g].maxUnitsPerSide
        maxLiability == Reserve(maxUnits, 0, Params[g].capPayoutPerUnit)
    IN  [k \in Kinds |->
            [s \in Sides |-> IF k = "ISSUE" THEN maxUnits ELSE maxLiability]]

CreateGroup(g) ==
    /\ Callable
    /\ ~group[g].created
    /\ now <= Params[g].saleEnd
    /\ group' = [group EXCEPT ![g].created = TRUE]
    /\ inventory' =
        [inventory EXCEPT ![g] = [s \in Sides |-> Params[g].maxUnitsPerSide]]
    /\ aqua' = [aqua EXCEPT ![g] = ShipAmounts(g)]
    /\ VaultUnchanged
    /\ UNCHANGED <<now, stack, held, advance>>

-----------------------------------------------------------------------------
(* Swaps: the program prices the fill *)

Frame(g, kind, s, amountIn, amountOut, inFirst) ==
    [group |-> g, kind |-> kind, side |-> s, amountIn |-> amountIn,
     amountOut |-> amountOut, inFirst |-> inFirst, stage |-> "first",
     saved |-> Snapshot]

\* _priceIssue: the fill is cut to the Aqua inventory and to what the reserve
\* and the vault's free collateral can back.
IssueFill(g, s, exactIn, amount) ==
    LET p        == Params[g]
        self     == group[g].outstanding[s]
        maxSelf  == MaxSideUnits(group[g].reserveLocked, FreeQuote, p.capPayoutPerUnit)
        capacity == IF maxSelf > self THEN maxSelf - self ELSE 0
        maxFill  == MinOf(aqua[g]["ISSUE"][s], capacity)
        asked    == IF exactIn THEN IssueUnitsFor(amount, p.ask[s]) ELSE amount
        units    == MinOf(asked, maxFill)
    IN  [units   |-> units,
         premium |-> IF exactIn /\ asked <= maxFill THEN amount
                     ELSE IssuePremium(units, p.ask[s])]

\* _applyIssue: ledger and lock move before any token does.
ApplyIssue(g, s, units) ==
    LET out        == [group[g].outstanding EXCEPT ![s] = @ + units]
        newReserve == GroupReserve(g, out)
        delta      == newReserve - group[g].reserveLocked
    IN  /\ delta >= 0
        /\ group' = [group EXCEPT ![g].outstanding = out,
                                  ![g].reserveLocked = newReserve]
        /\ IF delta > 0 THEN IncreaseLocked(delta) ELSE VaultUnchanged

SwapIssue(g, s, exactIn, amount, inFirst) ==
    /\ CanSwap(g, "ISSUE", s)
    /\ group[g].created /\ ~group[g].finalized
    /\ now <= Params[g].saleEnd
    /\ LET fill == IssueFill(g, s, exactIn, amount)
       IN  /\ fill.units > 0
           /\ ApplyIssue(g, s, fill.units)
           /\ EnterSwap(Frame(g, "ISSUE", s, fill.premium, fill.units, inFirst))
    /\ UNCHANGED <<now, held, inventory, aqua, advance>>

\* Mutant: an exit releases its units' share, as if the sides did not share
\* the reserve.
ReserveAfterExitProRata(g, s, units) ==
    group[g].reserveLocked - Reserve(units, 0, Params[g].capPayoutPerUnit)

\* _reserveAfterExit
ReserveAfterExit(g, s, units) ==
    GroupReserve(g, [group[g].outstanding EXCEPT ![s] = @ - units])

ExitOpen(g) == ~group[g].finalized /\ now < Params[g].expiry

\* _priceExit: payable only from the reserve this burn releases plus the
\* exit buffer.
SwapExit(g, s, amount, inFirst) ==
    LET units    == MinOf(amount, group[g].outstanding[s])
        proceeds == ExitProceeds(units, Params[g].bid[s])
        released == group[g].reserveLocked - ReserveAfterExit(g, s, units)
        paid     == MinOf(proceeds, aqua[g]["EXIT"][s])
    IN  /\ CanSwap(g, "EXIT", s)
        /\ group[g].created /\ ExitOpen(g)
        /\ units > 0
        /\ released >= 0
        /\ proceeds <= released + group[g].exitBuffer
        /\ paid > 0
        /\ EnterSwap(Frame(g, "EXIT", s, units, paid, inFirst))
        /\ UNCHANGED <<now, chain>>

\* _priceSettle
SwapSettle(g, s, amount, inFirst) ==
    LET units    == MinOf(amount, group[g].outstanding[s])
        proceeds == SettleProceeds(units, group[g].ppu[s])
        paid     == MinOf(proceeds, aqua[g]["SETTLE"][s])
    IN  /\ CanSwap(g, "SETTLE", s)
        /\ group[g].created /\ group[g].finalized
        /\ group[g].ppu[s] > 0
        /\ units > 0
        /\ paid > 0
        /\ EnterSwap(Frame(g, "SETTLE", s, units, paid, inFirst))
        /\ UNCHANGED <<now, chain>>

-----------------------------------------------------------------------------
(* Swaps: the two transfers *)

\* Mutant: the vault keeps what the buffer paid locked.
BurnExitKeepsLock(g, s, units, amountOut) ==
    LET newReserve == ReserveAfterExit(g, s, units)
        released   == group[g].reserveLocked - newReserve
        draw       == IF amountOut > released THEN amountOut - released ELSE 0
    IN  /\ ExitOpen(g)
        /\ released >= 0
        /\ draw <= group[g].exitBuffer
        /\ group' = [group EXCEPT ![g].exitBuffer = @ - draw,
                                  ![g].reserveLocked = newReserve,
                                  ![g].outstanding[s] = @ - units]
        /\ DecreaseLocked(released)

\* onBurn for an EXIT: conditions are checked again, on the present state.
BurnExit(g, s, units, amountOut) ==
    LET newReserve == ReserveAfterExit(g, s, units)
        released   == group[g].reserveLocked - newReserve
        draw       == IF amountOut > released THEN amountOut - released ELSE 0
    IN  /\ ExitOpen(g)
        /\ released >= 0
        /\ draw <= group[g].exitBuffer
        /\ group' = [group EXCEPT ![g].exitBuffer = @ - draw,
                                  ![g].reserveLocked = newReserve,
                                  ![g].outstanding[s] = @ - units]
        /\ DecreaseLocked(released + draw)

\* What a finalized group still owes, at most.
FinalLiability(out, ppu) ==
    FinalSideLiability(out["HIGH"], ppu["HIGH"])
        + FinalSideLiability(out["CALM"], ppu["CALM"])

\* onBurn for a SETTLE.
BurnSettle(g, s, units, amountOut) ==
    LET out      == [group[g].outstanding EXCEPT ![s] = @ - units]
        newTotal == FinalLiability(out, group[g].ppu)
        released == group[g].reserveLocked - newTotal
    IN  /\ group[g].finalized
        /\ amountOut <= released
        /\ group' = [group EXCEPT ![g].outstanding = out,
                                  ![g].reserveLocked = newTotal]
        /\ DecreaseLocked(released)

OnBurn(f) ==
    /\ f.amountIn > 0
    /\ f.amountIn <= group[f.group].outstanding[f.side]
    /\ \/ f.kind = "EXIT" /\ BurnExit(f.group, f.side, f.amountIn, f.amountOut)
       \/ f.kind = "SETTLE" /\ BurnSettle(f.group, f.side, f.amountIn, f.amountOut)

\* _transferIn: the premium is pushed to the vault, or the receipts are
\* pushed to it and burned by the receipt's postTransferIn hook.
TransferIn ==
    /\ TransferInNext
    /\ \/ /\ Top.kind = "ISSUE"
          /\ Pushed(Top.amountIn)
          /\ UNCHANGED <<group, held, advance>>
       \/ /\ Top.kind # "ISSUE"
          /\ Top.amountIn <= held[Top.group][Top.side]
          /\ held' = [held EXCEPT ![Top.group][Top.side] = @ - Top.amountIn]
          /\ OnBurn(Top)
          /\ advance' = advance - Top.amountOut
    /\ TransferDone
    /\ UNCHANGED <<now, inventory, aqua>>

\* _transferOut: Aqua pulls receipts or quote tokens out of the vault.
TransferOut ==
    /\ TransferOutNext
    /\ Top.amountOut <= aqua[Top.group][Top.kind][Top.side]
    /\ aqua' = [aqua EXCEPT ![Top.group][Top.kind][Top.side] = @ - Top.amountOut]
    /\ \/ /\ Top.kind = "ISSUE"
          /\ Top.amountOut <= inventory[Top.group][Top.side]
          /\ inventory' =
                [inventory EXCEPT ![Top.group][Top.side] = @ - Top.amountOut]
          /\ held' = [held EXCEPT ![Top.group][Top.side] = @ + Top.amountOut]
          /\ VaultUnchanged
          /\ UNCHANGED advance
       \/ /\ Top.kind # "ISSUE"
          /\ Pulled(Top.amountOut)
          /\ advance' = advance + Top.amountOut
          /\ UNCHANGED <<inventory, held>>
    /\ TransferDone
    /\ UNCHANGED <<now, group>>

\* Any failed requirement, or a callback that gives up, undoes the innermost
\* swap and all that ran inside it; its caller may carry on.
Revert ==
    /\ stack # << >>
    /\ balance' = Top.saved.balance
    /\ lockedQuote' = Top.saved.lockedQuote
    /\ group' = Top.saved.group
    /\ held' = Top.saved.held
    /\ inventory' = Top.saved.inventory
    /\ aqua' = Top.saved.aqua
    /\ advance' = Top.saved.advance
    /\ stack' = Below
    /\ UNCHANGED now

-----------------------------------------------------------------------------
(* Finalization and worthless claims *)

\* VarianceAccumulator.finalize and the market's onFinalize.
Finalize(g, variance) ==
    LET p        == Params[g]
        payouts  == FinalPayouts(NormalizedOutcome(variance, p.capVariance),
                                 p.capPayoutPerUnit)
        newLocked == FinalLiability(group[g].outstanding, payouts)
        released == group[g].reserveLocked + group[g].exitBuffer - newLocked
    IN  /\ Callable
        /\ group[g].created /\ ~group[g].finalized
        /\ now >= p.expiry
        /\ released >= 0
        /\ group' = [group EXCEPT ![g].finalized = TRUE,
                                  ![g].ppu = payouts,
                                  ![g].reserveLocked = newLocked,
                                  ![g].exitBuffer = 0]
        /\ IF released > 0 THEN DecreaseLocked(released) ELSE VaultUnchanged
        /\ UNCHANGED <<now, stack, held, inventory, aqua, advance>>

BurnWorthless(g, s, units) ==
    /\ Callable
    /\ group[g].finalized
    /\ group[g].ppu[s] = 0
    /\ units <= group[g].outstanding[s]
    /\ units <= held[g][s]
    /\ held' = [held EXCEPT ![g][s] = @ - units]
    /\ group' = [group EXCEPT ![g].outstanding[s] = @ - units]
    /\ VaultUnchanged
    /\ UNCHANGED <<now, stack, inventory, aqua, advance>>

-----------------------------------------------------------------------------
(* Exit buffer and collateral *)

\* _creditBuffer's ledger half
CreditBuffer(g, amount) ==
    /\ group[g].created /\ ~group[g].finalized
    /\ group' = [group EXCEPT ![g].exitBuffer = @ + amount]

AllocateExitBuffer(g, amount) ==
    /\ Callable
    /\ CreditBuffer(g, amount)
    /\ IncreaseLocked(amount)
    /\ UNCHANGED <<now, stack, held, inventory, aqua, advance>>

\* transferFrom into the vault, then increaseLocked with its solvency check.
FundExitBuffer(g, amount) ==
    /\ Callable
    /\ balance + amount <= MaxBalance
    /\ CreditBuffer(g, amount)
    /\ balance' = balance + amount
    /\ lockedQuote' = lockedQuote + amount
    /\ AssertSolvent
    /\ UNCHANGED <<now, stack, held, inventory, aqua, advance>>

\* Mutant: no check against the buffer.
WithdrawExitBufferUnchecked(g, amount) ==
    /\ Callable
    /\ group[g].created
    /\ group' = [group EXCEPT ![g].exitBuffer = @ - amount]
    /\ DecreaseLocked(amount)
    /\ UNCHANGED <<now, stack, held, inventory, aqua, advance>>

WithdrawExitBuffer(g, amount) ==
    /\ Callable
    /\ group[g].created
    /\ amount <= group[g].exitBuffer
    /\ group' = [group EXCEPT ![g].exitBuffer = @ - amount]
    /\ DecreaseLocked(amount)
    /\ UNCHANGED <<now, stack, held, inventory, aqua, advance>>

VaultDeposit(amount) ==
    /\ Callable
    /\ balance + amount <= MaxBalance
    /\ Deposit(amount)
    /\ UNCHANGED <<now, stack, group, held, inventory, aqua, advance>>

VaultWithdrawFree(amount) ==
    /\ Callable
    /\ WithdrawFree(amount)
    /\ UNCHANGED <<now, stack, group, held, inventory, aqua, advance>>

\* Mutant: units that come back to the vault count as settled.
ReceiptTransferSettles(g, s, units) ==
    /\ Callable
    /\ units <= held[g][s]
    /\ held' = [held EXCEPT ![g][s] = @ - units]
    /\ inventory' = [inventory EXCEPT ![g][s] = @ + units]
    /\ group' = [group EXCEPT ![g].outstanding[s] = @ - units]
    /\ VaultUnchanged
    /\ UNCHANGED <<now, stack, aqua, advance>>

\* Receipts are plain ERC-20: a holder may send them to the vault outside any
\* swap.  They stay there, and stay counted as outstanding.
ReceiptTransferToVault(g, s, units) ==
    /\ Callable
    /\ units <= held[g][s]
    /\ held' = [held EXCEPT ![g][s] = @ - units]
    /\ inventory' = [inventory EXCEPT ![g][s] = @ + units]
    /\ VaultUnchanged
    /\ UNCHANGED <<now, stack, group, aqua, advance>>

\* A transaction has one timestamp.
Tick ==
    /\ stack = << >>
    /\ now < MaxTime
    /\ now' = now + 1
    /\ UNCHANGED <<stack, chain>>

-----------------------------------------------------------------------------
VaultCall ==
    \E a \in Amounts :
        \/ VaultDeposit(a)
        \/ VaultWithdrawFree(a)
        \/ \E g \in Groups :
            \/ AllocateExitBuffer(g, a)
            \/ FundExitBuffer(g, a)
            \/ WithdrawExitBuffer(g, a)

ReceiptCall ==
    \E g \in Groups, s \in Sides :
        \/ \E u \in UnitAmounts : BurnWorthless(g, s, u)
        \/ \E u \in StrayAmounts : ReceiptTransferToVault(g, s, u)

SwapCall ==
    \E g \in Groups, s \in Sides, inFirst \in BOOLEAN :
        \/ \E a \in Amounts : SwapIssue(g, s, TRUE, a, inFirst)
        \/ \E u \in UnitAmounts :
            \/ SwapIssue(g, s, FALSE, u, inFirst)
            \/ SwapExit(g, s, u, inFirst)
            \/ SwapSettle(g, s, u, inFirst)

Next ==
    \/ \E g \in Groups : CreateGroup(g)
    \/ SwapCall
    \/ TransferIn
    \/ TransferOut
    \/ Revert
    \/ \E g \in Groups, v \in Variances : Finalize(g, v)
    \/ ReceiptCall
    \/ VaultCall
    \/ Tick

Spec == Init /\ [][Next]_vars

\* Somebody finalizes: the call is permissionless.
Keeper(g) == \E v \in Variances : Finalize(g, v)

\* A holder sends all units of a side for settlement.
HolderRedeems(g, s) ==
    /\ held[g][s] \in UnitAmounts
    /\ \E inFirst \in BOOLEAN : SwapSettle(g, s, held[g][s], inFirst)

SwapStep(stage) == stack # << >> /\ Top.stage = stage /\ (TransferIn \/ TransferOut)

\* Time passes, and no keeper and no holder is censored for ever: of the
\* transactions that could succeed again and again, one gets through.  (Strong
\* fairness, because another transaction may run whenever theirs could.)  A
\* transaction that can transfer no more reverts.
Fairness ==
    /\ SF_vars(Tick)
    /\ \A g \in Groups : SF_vars(Keeper(g))
    /\ \A g \in Groups, s \in Sides : SF_vars(HolderRedeems(g, s))
    /\ SF_vars(SwapStep("first"))
    /\ SF_vars(SwapStep("second"))
    /\ WF_vars(Revert)

FairSpec == Spec /\ Fairness
-----------------------------------------------------------------------------
(* Properties *)

UnitsBySide == [Sides -> Nat]

GroupState ==
    [created : BOOLEAN, finalized : BOOLEAN, outstanding : UnitsBySide,
     reserveLocked : Nat, exitBuffer : Nat, ppu : UnitsBySide]

ChainState ==
    [balance : Nat, lockedQuote : Nat, group : [Groups -> GroupState],
     held : [Groups -> UnitsBySide], inventory : [Groups -> UnitsBySide],
     aqua : [Groups -> [Kinds -> UnitsBySide]], advance : Int]

Frames ==
    [group : Groups, kind : Kinds, side : Sides, amountIn : Nat,
     amountOut : Nat, inFirst : BOOLEAN, stage : {"first", "second"},
     saved : ChainState]

\* Every ledger the contracts keep in unsigned integers stays a natural number
\* (a subtraction that would wrap reverts instead), also in what a revert
\* restores.
TypeOK ==
    /\ now \in Nat
    /\ Snapshot \in ChainState
    /\ stack \in Seq(Frames)

\* What a group has locked in the vault.
Reserved(g) == group[g].reserveLocked + group[g].exitBuffer

\* The vault's promise: once a transaction is over, the quote tokens in the
\* vault cover everything locked (TremorPortfolioMarket's core invariant).
Solvent == stack = << >> => balance >= lockedQuote

\* What makes Solvent inductive: while swaps are in flight the vault is short
\* by no more than they have paid ahead of their burns, the same was true when
\* each of them began, and all of it is accounted for by the swaps below.
SolventInFlight ==
    /\ balance + advance >= lockedQuote
    /\ Chained(stack, advance)

\* The other half of the core invariant: the lock is exactly the sum of the
\* groups' reserves and exit buffers, also while swaps are in flight.
LockedIsReserved == lockedQuote = SumFunction([g \in Groups |-> Reserved(g)])

\* The reserve of a group covers the most its outstanding claims can extract,
\* whatever variance is still to be observed, and exactly that once finalized.
ReserveCoversClaims ==
    \A g \in Groups :
        IF group[g].finalized
        THEN group[g].reserveLocked = FinalLiability(group[g].outstanding, group[g].ppu)
        ELSE \A x \in 0..WAD :
                group[g].reserveLocked >=
                    FinalLiability(group[g].outstanding,
                                   FinalPayouts(x, Params[g].capPayoutPerUnit))

\* Receipts are neither lost nor made: while no issue of that side is in
\* flight, the units outside the vault and those it owns are the ones it may
\* still sell and the ones counted as outstanding.
ReceiptsAccounted ==
    \A g \in Groups, s \in Sides :
        /\ held[g][s] <= group[g].outstanding[s]
        /\ ~Locked(g, "ISSUE", s) =>
            held[g][s] + inventory[g][s] = aqua[g]["ISSUE"][s] + group[g].outstanding[s]

\* A settlement of n units of a side pays the holder in full and passes every
\* check on its way: Aqua's balance, the burn's release, the vault's lock, its
\* tokens and the solvency assertion.
Redeemable(g, s, n) ==
    LET owed     == SettleProceeds(n, group[g].ppu[s])
        released == group[g].reserveLocked
                      - FinalLiability([group[g].outstanding EXCEPT ![s] = @ - n],
                                       group[g].ppu)
    IN  /\ n <= group[g].outstanding[s]
        /\ owed <= aqua[g]["SETTLE"][s]
        /\ owed <= released /\ released <= lockedQuote
        /\ owed <= balance
        /\ balance - owed >= lockedQuote - released

\* "No way for the writer to stand between a holder and a settlement": after
\* finalization every amount a holder has can be redeemed in full at once,
\* whatever swaps, exits, withdrawals and finalizations came before.
RedeemInFull ==
    stack = << >> =>
        \A g \in Groups, s \in Sides :
            group[g].finalized =>
                \A n \in 1..held[g][s] : Redeemable(g, s, n)

\* An issue that _priceIssue lets through never fails in _applyIssue: the
\* capacity it computes by rounding down is covered by the lock that rounds up.
IssueBacked ==
    Callable =>
        \A g \in Groups, s \in Sides, exactIn \in BOOLEAN, a \in Amounts \cup UnitAmounts :
            LET units == IssueFill(g, s, exactIn, a).units
                delta == GroupReserve(g, [group[g].outstanding EXCEPT ![s] = @ + units])
                            - group[g].reserveLocked
            IN  group[g].created /\ ~group[g].finalized /\ units > 0 =>
                    /\ delta >= 0
                    /\ delta > 0 => balance >= lockedQuote + delta

\* The virtual balances shipped at creation never cut an exit short: they
\* still cover the bid for every unit that is out or may yet be sold.
ExitNeverClamped ==
    stack = << >> =>
        \A g \in Groups, s \in Sides :
            aqua[g]["EXIT"][s] >=
                ExitProceeds(group[g].outstanding[s] + aqua[g]["ISSUE"][s], Params[g].bid[s])

\* Every group is finalized in the end, whatever trades, buffers and
\* withdrawals the writer and the takers make meanwhile.
EventuallyFinalized ==
    \A g \in Groups : group[g].created ~> group[g].finalized

\* Receipts worth at least one base unit of the quote token.
Unpaid(g, s) ==
    group[g].finalized /\ held[g][s] * group[g].ppu[s] >= WAD

\* Every holder of a finalized group gets paid, down to what is worth less
\* than one base unit of the quote token.
HoldersPaid ==
    \A g \in Groups, s \in Sides : Unpaid(g, s) ~> ~Unpaid(g, s)
=============================================================================
