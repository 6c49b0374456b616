# A TLA+ model of Tremor

Tremor lets a writer sell bounded claims on the realized variance of a price
feed. This directory models the contracts that hold collateral, sell claims and
pay them, the subgraph that indexes them, the simulator that replays them, and
the web application's transaction flows, pages and forms. It says what TLC
checks on small instances and what is proved for every instance with TLAPS.

Source paths below are relative to `src/`.

## 1. Inventory

| Component | State it keeps | Operations | How it interacts |
|---|---|---|---|
| Portfolio market (`contracts/src/portfolio/TremorPortfolioMarket.sol`), `PortfolioMath.sol` | groups: outstanding HIGH and CALM, reserve, exit buffer, payouts | createVault, createGroup, extruction (price and apply), onBurn, onFinalize, burnWorthless, allocate/fund/withdrawExitBuffer | called by the router inside a swap, by receipts on burn, by the accumulator on finalization; locks and unlocks vault collateral |
| Maker vault (`TremorMakerVault.sol`) | quote balance, `lockedQuote`, protected receipts | deposit, withdrawFree, increase/decreaseLocked, ship/dockStrategy | its controller locks and unlocks; Aqua pulls from it by allowance, without a call |
| Swap router, Aqua (`contracts/lib/swap-vm`, vendored) | per-order lock, virtual balances | swap: program, two transfers, taker callbacks | runs the markets' programs; calls takers back |
| Receipt token (`tokens/VarianceReceipt.sol`) | ERC-20 balances | mint to vault, transfer, postTransferIn, burnFromHolder, burnUnsoldInventory | tells the controller what it burned |
| v2 series controller (`VarianceSeriesFactory.sol`) | series: units sold, liability, lifecycle flags | createVault, createSeries, onIssue, onExit, onBurn, onFinalize, stopIssuance, burnWorthless, closeSeries | as the portfolio market, with the engine between router and controller |
| v2 engine (`TremorMarketEngine.sol`), pricing (`libs/VariancePricing.sol`) | none | extruction: issue, exit, settle; linear skewed prices | reads series, vault and accumulator |
| Variance accumulator (`VarianceAccumulator.sol`), `libs/RealizedVariance.sol` | per series: samples done, last round, sum of squared returns, final variance | checkpoint, finalize | reads feed rounds phase by phase; calls the controller's onFinalize |
| Lens (`TremorLens.sol`) | none | one-call reads of series, vault, inventory and oracle progress | read by the web application |
| Subgraph (`subgraph/src`) | entities of vaults, series, groups, accounts, balances, fills | one handler per event | graph-node runs the handlers of a mined transaction in log order |
| Backend (`backend/src`): indexer, database, Chainlink cache, API | block cursor and hash, known vaults, totals, cached rounds | tick: fetch logs, apply, advance; read-through fetches | reads the chain; feeds the web application where there is no subgraph |
| Web transactions (`web/src/lib/tx.ts`) | `localStorage` checkpoint, one running flow per tab | create vault, deposit, withdraw, create series and group, exit buffer, buy, exit, redeem, one-transaction calls | wallet, chain, other tabs |
| Web views and forms (`web/src/lib`, `web/src/components`) | what was typed and read | pure functions of these | read Lens and index, start flows |
| Simulator (`sim/src`) | a vault and its series | buy, exit, stop, finalize, redeem, close; scenario driver | the numbers of the repository's report |
| Deployer, scripts, mocks | none | one-shot | |

What is hard, component by component:

* **Collateral.** A swap is priced, then moves tokens in two transfers in an
  order the taker picks, with taker callbacks in which anything may be called,
  another swap of the same vault included. Locks move at pricing (issue) or at
  the burn (exit, settlement), payments move without the vault being called.
* **Shared reserve.** HIGH and CALM share one reserve, so an exit of the smaller
  side releases nothing and is paid from a buffer others may withdraw or drain.
  Series share a vault, so one issue takes the free collateral another counted on.
* **Rounding.** Capacity, reserve, payout and proceeds all round; the direction
  of each decides whether the last holder can still be paid.
* **Sampling.** The window is summed by separate calls while the feed grows.
* **Indexing.** Entities are folded partly from absolute figures and partly from
  deltas, from the logs of several contracts in one transaction, in nested order.
* **Flows.** A page awaits the wallet and the chain between any two steps; it may
  be reloaded, time out, or run in two tabs; the market moves meanwhile.
* **Pages.** What is offered is computed from one read, some of which is missing,
  with a second copy of the contract's arithmetic.
* **Forms.** Thirteen linked terms are clamped against a late clock and checked
  again by the contract when the creation is mined.

Every such hazard is listed at its line in `PROJECT.json` with the properties
that cover it.

## 2. Modules and how they compose

| Module | Extends | Adds |
|---|---|---|
| `PortfolioMarket` | `PortfolioMath`, `MakerVault`, `SwapRouter` | the market's handlers |
| `CommonProofs` | `SwapRouter` | lemmas the other proofs share: sums over sets, iterated steps, and the swaps in flight of both markets |
| `PortfolioMarketProofs` | `GroupPages`, `CommonProofs` | theorems of the market, its index and its pages |
| `IndexedPortfolio` | `PortfolioMarket` | logs, and the subgraph's fold of them |
| `GroupPages` | `IndexedPortfolio`, `PortfolioPage` | pages shown over the market |
| `SeriesController` | `SeriesPricing`, `MakerVault`, `SwapRouter`, `SeriesSubgraph` | the v2 market with its index |
| `SeriesPricingProofs` | `SeriesPricing`, `CommonProofs` | theorems on the arithmetic |
| `SeriesControllerProofs` | `SeriesPages`, `SeriesPricingProofs` | theorems of the v2 market, its index and its pages |
| `SeriesHistoryProofs` | `SeriesControllerProofs` | theorem of what the v2 index adds up |
| `SeriesPages` | `SeriesController`, `SeriesPage` | pages shown over it, through the Lens |
| `VarianceAccumulator` | `RoundSearch` | checkpoint and finalize |
| `VarianceAccumulatorProofs` | `VarianceAccumulator`, `CommonProofs` | theorems |
| `SimMarket` | `SeriesPricing`; instantiates `CollateralEscrow` | the simulator |
| `SimMarketProofs` | `SimMarket`, `SeriesPricingProofs` | theorems |
| `SeriesPage`; `GroupViews`; `PortfolioPage` | `SeriesViews`; `SeriesViews`; `GroupViews` | components of the web pages |
| `WizardViews`, `WriteForms` | `SeriesForm`, `GroupViews` | the two writing pages at work |
| `WriterFlow`, `TakerFlow` | | the transaction flows |
| `WebProofs` | `TakerFlow`, `WriterFlow`, `WriteForms`, `CommonProofs` | theorems on the flows and the two writing pages |

`MC*` modules only give the constants their small values. Modules with theorems,
and all they extend, write recursion as functions or folds.

Pages compose with contracts in one direction: `GroupPages` and `SeriesPages`
map the contract's state to what `groupView`, `groupParams` or the Lens report,
apply the page's functions to it, and compare what the page then offers with what
the contract would do in that same state. `WriterFlow` and `TakerFlow` stand
alone: their question is what happens between two awaits, and the contract side
is reduced to the few numbers a flow reads back.

## 3. What is modelled

### Contracts

**`PortfolioMath`** translates each library function. `WAD` is a parameter: 1e18
in the code, 2 in the instances, where every odd product still rounds.

**`MakerVault`** has one action per vault function on `balance` and `lockedQuote`.
A controller's handler is the conjunction of the calls it makes, so the vault's
checks are part of the handler, and `AssertSolvent` (`_assertSolvent`) is stated
about the state the call leaves.

**`SwapRouter`** keeps the stack of swaps in flight. A swap is three steps: the
program prices it (`EnterSwap`), a first and a second transfer
(`TransferInNext`, `TransferOutNext`, in the order `isFirstTransferFromTaker`
gives). `Callbacks` names the points at which takers call out; only there, or
between transactions, may other code run (`Callable`). The router's per-order
lock is `Locked`. The stack is bounded by `MaxDepth`, on chain by gas. `Ahead` is
what a swap between its transfers has paid ahead of its burn, less what it owes
for a burn already made; `Chained` says the stack accounts for all of `advance`.

**`PortfolioMarket`** has one action per handler: `CreateGroup` (`_create`),
`SwapIssue`/`SwapExit`/`SwapSettle` (`extruction` with `_priceIssue` and
`_applyIssue`, `_priceExit`, `_priceSettle`), `TransferIn` (the router's
`_transferIn`, the receipt's `postTransferIn` and the market's `onBurn`),
`TransferOut` (`_transferOut` and Aqua's pull), `Finalize` (`onFinalize`, with any
variance the accumulator may report), `BurnWorthless`, `AllocateExitBuffer`,
`FundExitBuffer`, `WithdrawExitBuffer`, the vault's own `VaultDeposit` and
`VaultWithdrawFree`, a stray `ReceiptTransferToVault`, and `Tick`. A handler whose
`require` fails is a step that is not enabled; `Revert` undoes the innermost swap
with everything nested in it, at any point, from the snapshot its frame keeps,
and its caller carries on.

Code to state: `balance` is `quoteBalance()`, `lockedQuote` the vault's field;
`group[g]` the mutable fields of `Group`; `held` and `inventory` the receipt
balances outside and inside the vault (bearer tokens: who holds them matters to
no rule); `aqua` the virtual balance of each order's outgoing token. `advance` is
a history variable: what swaps in flight have paid ahead of their burns, less
what they owe for burns already made.

Abstractions: one vault (groups of different vaults share no storage); fees,
signatures, slippage limits and order encoding are left out (a taker's limits
can only make a swap revert, which `Revert` covers); the feed wiring and sampling
grid in `_validate` belong to the accumulator and to the form (`GroupRefusals`);
overflow cannot occur within the widths `_validate` admits, so naturals are
unbounded.

**`SeriesController`** is the v2 market built the same way over `MakerVault` and
`SwapRouter`: vault and series creation, issues, exits and settlements with the
engine's guards and clamps, the burn hook, `stopIssuance`, `burnWorthless`,
`closeSeries`, the accumulator's progress (in sampling intervals) and its
`onFinalize`, deposits, withdrawals and receipt transfers. The ask and the bid
are any value of `Asks` and `Bids`: the skew moves only the next price, and the
price itself is a function of `SeriesPricing`. A docked strategy is the marker
`Docked`. `deposited` and `advance` are history variables. `ValidParams` is what
`_validate` guarantees of the terms the model uses; its `saleEnd <= expiry` leaves
out the backdated series of the local-fork entry points.

**`SeriesPricing`** translates the simulator's replica of the pricing library
(the repository pins both to the same vectors): variances, skew and its decay,
issue cost, exit proceeds, liability and settlement, with the rounding of each.

**`RoundSearch`** translates the searches of `libs/RealizedVariance.sol` as
operators on a feed, a sequence of phases of rounds. `Search` is the gallop and
bisection of `_advance`, over the rounds that qualify; `_findLast` is the same
search for existing rounds. A loop is a step on its variables, iterated as often
as the loop can run. `LatestAt` says without any search which round a sample stands for.

**`VarianceAccumulator`** has the calls `Checkpoint` (with the scan it opens,
`beginScan` or `resumeScan` and then `nextSample` per sample) and `Finalize`, and
the environment: `PushRound` stamps a round with the current time, `NewPhase`
moves the proxy to another aggregator, empty or with a history of its own (as in
`contracts/test/RealizedVariance.t.sol:147-168`), `Tick`. A checkpoint that meets an
unusable answer reverts, so its action is not enabled. A round is `whole` unless
its `answeredInRound` names an earlier one. The controller's part of finalization
is its one requirement, that the series is not final yet; the markets model the
rest. The squared logarithmic return is a parameter: the properties only need
that both ways of summing use the same one. Abstractions: one series (they share
only the feed); the decimals scale cancels in every return; a feed's history is
not rewritten.

### Index

**`SeriesSubgraph`** keeps the entities of the v2 contracts and one handler per
event. `SeriesController` emits, in each action, the logs the Solidity emits, in
their order; logs of a swap that reverts vanish with it; when the outermost swap
ends, the handlers fold the transaction's logs. **`IndexedPortfolio`** does the
same for the portfolio market's events.

Abstractions: per-log records are kept as sums per series and leg; graph-node's
own reorganisation handling is external; a data source created in a block sees
that whole block.

### Simulator

**`SimMarket`** has the vault and the series of `sim/src/market.ts` and the driver
of `scenarios.ts`: time step, buys and exits of holders and siblings, a stop,
finalization, redemption, closing. A `throw` ends the run with its error in
`vault.error`. A price path is any choice of squared returns.

**`CollateralEscrow`** is the abstract specification: collateral comes in, is
reserved for positions out of what is free, is paid against what a position
releases, and leaves freely only above the reservations. `ImplementsEscrow` maps
the simulated vault to it.

### Web application

**`WriterFlow`** runs the writer's flows (`runCreateVault`, `runDeposit`,
`runWithdrawFree`, `runCreateSeries`, `runCreateGroup`, `runAllocateExitBuffer`) as
programs of awaits in several tabs. `pool` holds what was broadcast, in nonce
order; each entry may be mined, reverted or dropped. A tab may be reloaded, which
forgets its flow but not the chain nor `localStorage`; a wait may time out
(`GiveUp`); a prompt may be rejected or left open. The terms of a series differ
only in the start hour derived from the clock, so the hour stands for the
checkpoint's key.

**`TakerFlow`** runs a ticket and its flow (`runBuy`, `runExit`, `runRedeem` and
their group versions): typing and debouncing, quote, allowance, simulation, swap
with a deadline and a limit, on both venues, while other traders move the price,
stock and backing. The router fills partially under a pro-rated limit.

**`SeriesForm`** is `derive.ts`: three decisions and the overrides become the
terms; `Refusals` is the factory's `_validate`. **`WizardViews`** is what the wizard
and the paired-market form show and allow. **`WriteForms`** lets a writer edit
either page while reads arrive, with a page clock that trails, and mines the
creation later: `refused` is then what the contract finds wrong.

**`SeriesViews`**, **`SeriesPage`** (header, chart, position, fills, hedge
calculator) and **`GroupViews`**, **`PortfolioPage`** are the components as functions
of what they are given: what they show, which buttons are live and why not.
**`SeriesPages`** and **`GroupPages`** apply them to the contracts' state.

Abstractions: parsed text is a number or `Bad`; square roots of variances are
taken where a comparison needs them and left out where only a volatility is
printed; React's rendering order is not modelled, so a view is a function of one
consistent read.

### Mutants

A definition whose comment begins with "Mutant" is no part of a specification. It
is a mapped definition with one plausible bug; `PROJECT.json` names, for each
property, a mutant with which the run finds that property violated.

## 4. Runs

`portfolio_*` use `WAD = 2`, a cap payout of 3 per unit (odd, so every unit
rounds), a cap variance of 2 and the outcomes 0, 1, 2: no payout, a split, and
the cap. `tlc -config X.cfg M` in this directory reproduces each run.

| Run | Instance | What it shows |
|---|---|---|
| `portfolio_one` | one group, 3 units a side, 5 quote, `FairSpec` | `IssueBacked`, `ExitNeverClamped` along every sequence of calls; `EventuallyFinalized`, `HoldersPaid` |
| `portfolio_nested` | one group, 2 units a side, selling until the instant it expires, stray receipts, swaps nested two deep at every callback point but `AfterBurn` | `TypeOK`, `SolventInFlight` (`Solvent` and more), `LockedIsReserved`, `ReserveCoversClaims`, `ReceiptsAccounted`, `RedeemInFull` under interleaving and reverts |
| `portfolio_indexed` | two groups on one vault (one sells until the instant it expires), stray receipts, indexed and shown | `SubgraphIsLedger`; `UnderfundedIsShown`: the exit ticket warns exactly when the market would refuse; `GroupWayOut`: no holder is left without an action |
| `portfolio_unsafe` | as `portfolio_nested`, every callback point | `Solvent` fails, see below |
| `accumulator_quiet` | 4 samples, calls of up to 2, up to 4 rounds at times between the samples, a second phase that starts empty, `FairSpec` | `IncrementalIsOneShot`, `EventuallyFinalized` |
| `accumulator_any` | up to 7 rounds, at sample times too, answers of zero, a second phase with or without older rounds | `SearchFindsLatest`, `WholeWindow`, `SamplesAreLatest` |
| `series_indexed` | two series with overlapping windows on one vault, fills nested two deep between transfers but not after a burn, indexed and shown | `SolventInFlight`, `LockedIsReserved`, `ReserveCoversClaims`; `RedeemInFull`: once final, what a holder has settles in full; `EntitiesAreLedger`, `HistoryAddsUp`; `OffersExecute`: a live button is one the controller takes (Close from the end of the sale on); `WayOut`: a holder can always move on |
| `sim_shared` | two simulated series on one vault, two holders, expiry after 2 steps | `NeverThrows`, `Accounted`, `ImplementsEscrow` |
| `writer_pages` | one tab on the write, vault or pairs page (4 transactions, two start hours), or two on the write page of a funded vault (3 transactions, one hour), reloads while awaiting, timeouts | `ResumesNotRepeats`, `OnlyShortfallPulled`, `FlowEnds`; `ResultIsReal`: whatever one tab does to the checkpoint of the other, what either announces was mined |
| `writer_hour` | one tab, the hour may change | `NoSecondSeries` fails, see below |
| `taker_tickets` | both venues, amounts to 3, prices 2 to 4, stock to 2, two moves of others | `NeverWorseThanQuoted`, `AllowanceSuffices`, `PartialMeansClamp`, `QuoteCanFill` |
| `web_forms` | both forms, two edits, two steps of ten minutes, a clock up to 30 s late | `SeriesFormAccepted`, `GroupFormAccepted`, `FormKeepsPromises` |

Bounds, and why they are enough.

* *Portfolio.* `Amounts`, `UnitAmounts` and `StrayAmounts` are the amounts callers may
  name, `MaxBalance` what deposits may bring in (a premium may exceed it),
  `MaxTime` the clock. Two units a side reach every order of the two sides'
  sizes, including the exit that releases nothing; time 0 and 1 are before and at
  expiry, the only comparison the handlers make. A group that sells until it
  expires has every behaviour of one that stops before, and those of that
  instant. Stray receipts come as a whole side there. The index is checked with one
  swap per transaction; nesting in the logs is checked with the series.
* *Accumulator.* Seven rounds let a gallop take three probes and overshoot the end
  of a phase; two phases meet every branch of the phase search; four samples in
  calls of one or two meet every split of the window.
* *Series.* `WAD = 2` with cap 3 and notionals 2 and 3 round every reservation, and at
  notional 2 a reserve rounded down would be too small; one unit a
  series and 4 of collateral let one series take what the other needs; times 0
  to 2 put each series before, in and after its window relative to the other.
  `MaxDeposited` bounds deposits. Fills of part of what is outstanding need more
  units than such an instance can have; there the reserve is proved
  (`ReservesTheorem`, `SettlementWithinRelease`).
* *Simulator.* `WAD = 4` with odd caps rounds; the sale ends before the window; the
  skew halves every step.
* *Flows.* `MaxTxs` bounds the transactions broadcast (`Room`), with one less for a
  second tab and one less after the hour. For one tab four are the approval, the deposit
  and two creations, the second after a reload, a timeout, a drop or a revert; three
  remain once the hour has changed, and one change of the hour is one change of key. `Need = 2` allows a deposit of
  part of what is missing. Two tabs share three transactions and start on a funded
  vault, so up to three creations are sent. A tab there saves its hash over the other's
  while that one waits, clears it, recovers the transaction the other waits for, and
  finds the checkpoint gone or replaced while it recovers: TLC refutes each claim that
  this never happens, and the mutant of `ResultIsReal` goes wrong in no other
  case. Checkpoints of different hours have different keys and never meet, so the clock
  stands still with two tabs (`Later`).
  Two moves of others fall between any two of quote, approval, simulation and swap.
* *Forms.* One unit and a variance of one are 100, so volatilities are percents. The
  values typed lie on both sides of each clamp and of each check of the factory;
  the page opens ten minutes before the hour, so derived starts fall on both
  sides of it. Two edits reach every pair of interacting terms.

Deadlock is checked in the `portfolio_*`, `writer_hour` and `taker_tickets` runs.
Elsewhere it is off: the clock and the bounds of the feed end
(`accumulator_*`, `series_indexed`), a scenario ends (`sim_shared`), and pages are
left or submitted once (`writer_pages`, `web_forms`).

Fairness.

* *Portfolio* (`FairSpec`): strong fairness of the clock, of a keeper's finalization, of a holder's
  settlement and of each next step of a settlement, weak fairness of reverts. It is strong because other
  transactions may run whenever these could; the code justifies it in that all
  are permissionless and no administrator can pause them.
* *Accumulator* (`FairSpec`): time passes, the permissionless calls are made while
  they are possible, and a current phase without a round gets one (the
  aggregator's heartbeat). Answers are above zero there: after an unusable answer
  at a sample no call can ever succeed.
* *Writer* (`WriterFairness`): a tab's own code runs on, and viem's bounded wait for a receipt
  ends by itself. Nobody is obliged to answer a prompt, to mine or to click.

### The vault between a burn and its payment

The market's header says `balance >= lockedQuote` holds after every transition.
`onBurn` lowers the lock of an exit or settlement when its receipts are burned;
the payment leaves when Aqua pulls it. If the taker's payment comes first and
`preTransferOutCallback` is asked for, code runs between the two, and `freeQuote`
there counts tokens that are about to leave. `portfolio_unsafe` shows a
transaction that ends with the balance below the lock. At every other callback
point the invariant holds: `portfolio_nested` checks the stronger
`SolventInFlight` and `SolvencyTheorem`
proves it, with that restriction (`QuietAfterBurn`) as its only hypothesis. The
v2 controller has the same gap; `series_indexed` leaves the same points out and
`SolventAlways` has the same hypothesis.

### When a checkpoint and a one-shot computation differ

The accumulator's header promises they return the same number. A sample is stored
as soon as the clock reaches its time, and a round transmitted later in that block
carries the same time: the stored sample keeps the older round, `compute` takes
the newer. A phase whose first round is older than a stored sample has the same
effect. With round times that meet sample times TLC finds a final variance that
no later computation reproduces; `accumulator_quiet` shows the promise kept when
neither happens.

The header also promises the latest valid round. The search treats a round it
rejects as one that is too late and does not look behind it, so a round carried
over from an earlier one (`answeredInRound`) hides a later valid one; the runs use
whole rounds only.

### A reload across the hour

The series checkpoint is filed under terms of which one, the start, moves with the
clock. Within the hour a reloaded page resumes (`ResumesNotRepeats`); after it the
same form has another key and creates a second series (`writer_hour`).

### Where forms and pages part from the contracts

`SeriesFormAccepted` and `GroupFormAccepted` name the refusals a form lets through:
a half-life or a start of the writer's own, a sale that is over before the earlier
transactions are (one that ends with a start five minutes away, or a sample after it
at the earliest), and, on the paired-market form, windows of the wrong length, asks of zero or above the cap
payout, caps above 200 % and sales already over. Each reverts only after the
collateral was deposited. `PROJECT.json` quotes the comments these contradict,
under `findings`, along with: Close offered while the sale is open (`OffersExecute`
asks of Close only what holds once it is over); zeros shown
for an unreachable Lens; a closed series taken for a finalized one; an exit tab
whose ticket refuses.

Smaller things met while modelling, which no property is about:

* Market contracts: dust units, worth less than one base unit, can be neither
  settled nor burned; a unit sent to a v2 vault keeps its series unclosable; at
  the instant `timestamp == saleEnd == expiry` a group still sells; the forward
  variance clamp makes a split fill cheaper than one fill, against
  `README.md:75`; `ARCHITECTURE.md` section 2.5 asks for free collateral at
  creation, `_create` does not; `closeSeries` releases a rounding residual
  (`VarianceSeriesFactory.sol:443-464`) that is always zero (`NoResidual`).
* Quotes: v2 quotes ignore the Aqua inventory, though `chain.ts:135-136` says they
  cannot disagree with a fill; `exitTotal` and the position summary value units at
  the marginal bid, without impact or limits.
* Flows: the wizard's deposit uses the free balance the page last read; the vault
  step of the series flow reports under a key of another plan (`tx.ts:203`, `383`); the group
  flow has no checkpoint; a switch of mode keeps the old amount for the debounce.
* Pages: `groupStatus` uses `now < saleEnd` where the contract has `<=`, and
  `groupCanBuy` requires a start the contract does not; the buy ticket counts
  exited units, which the contract never sells again, as remaining; a dust
  redemption is offered without a quote; MAX in the wizard rounds to cents before
  the form turns it into whole steps of inventory, so under a cap and notional so low
  that half a cent buys a step it can name more than the balance backs (`StepsShow`
  in `FormKeepsPromises`), and the form then says so; fills are hidden when the API is offline
  although the subgraph answered; a `maxUnits` override below one unit gives no
  terms and no error.
* Simulator: its payout clamps never bind; an issue charges the premium of the units
  filled, while the engine charges the whole amount offered unless a clamp bound
  the fill (`TremorMarketEngine.sol:211-215`), against `market.ts:4-5`.

## 5. Proofs

| Theorem | States |
|---|---|
| *Portfolio market* | |
| `TypeCorrect` | every ledger stays a natural number, also in what a revert restores |
| `SolventInFlightAlways`, `SolvencyTheorem` | the vault covers the lock whenever no swap is in flight, under `QuietAfterBurn` |
| `ReserveTheorem` | the reserve of a group covers its claims at every outcome, exactly once finalized |
| `IssueTheorem` | a priced issue never fails to find its collateral |
| `LockTheorem` | the vault locks exactly what its groups have reserved |
| `ReceiptsTheorem` | receipts out and in the vault are those still to be sold plus those counted outstanding |
| `ExitTheorem` | Aqua never cuts an exit short |
| `RedeemTheorem` | once final, any amount a holder has settles in full at once, under `QuietAfterBurn` |
| `ReserveCoversOutcome` | the arithmetic behind `ReserveTheorem` |
| `IndexTheorem` | the subgraph's fold of the logs is the ledger after every transaction, at any nesting depth |
| `PageTheorem` | the exit ticket warns of exactly the exits the market would refuse |
| `WayOutTheorem` | from expiry on every holder finds a tab with something to do, at the price the page shows |
| *v2 market* | |
| `SolventAlways` | the vault covers the lock but for what swaps in flight account for, under `QuietAfterBurn` |
| `ReservesTheorem` | the reserve of a series covers its claims at every variance, exactly once finalized |
| `SeriesLockTheorem` | the vault locks exactly what its series have reserved |
| `SeriesRedeemTheorem` | once final, any amount a holder has settles in full at once, under `QuietAfterBurn` |
| `EntitiesTheorem` | the subgraph's series and vault entities are the v2 ledger after every transaction, at any nesting depth |
| `HistoryTheorem` | what the subgraph has added up by then (fills, units, accounts, orders, cash) is what the contracts hold |
| `OffersTheorem` | between two transactions, what a page's live button announces the controller does, under `QuietAfterBurn` |
| `WayOutTheorem` | from the start of the window on every holder finds a tab with something to do |
| `NoResidual` | `closeSeries` never moves the lock |
| `ReserveCoversVariance`, `SettlementWithinRelease` | the arithmetic behind these: the reserve at the cap covers any outcome; a settlement pays no more than it releases |
| *Accumulator* | |
| `WindowTheorem` | no checkpoint runs ahead of the clock; a final variance rests on the whole window and is what `realizedSoFar` reports |
| `FinalTheorem` | a final variance and the samples under it never change |
| `SearchTheorem` | the search finds the latest round at or before any time the feed covers, on a `CleanFeed` |
| `SamplesTheorem` | the sample a checkpoint stops at is the latest round at its time, on a `CleanFeed` |
| `OneShotTheorem` | checkpoints of any sizes add up to the sum taken in one go, on a `QuietFeed` |
| *Simulator* | |
| `NeverThrowsTheorem`, `AccountedTheorem` | no check of the vault throws; the driver's reconciliation holds after every step |
| `EscrowTheorem` | the simulator implements `CollateralEscrow` |
| *Web application* | |
| `RateTheorem` | no fill is at a rate worse than its quote's, less the slippage |
| `AllowanceTheorem` | the allowance a flow leaves covers every fill its limit accepts |
| `PartialTheorem`, `QuoteTheorem` | a partial fill means a clamp; undisturbed, a swap fills what was quoted |
| `RealTheorem` | what a tab announces was mined, under the terms of its flow, whatever other tabs do |
| `OnceTheorem` | one tab never has two unreported series of the same start hour |
| `ShortfallTheorem` | one tab pulls only the missing collateral, however often its flow is started again |
| `SeriesFormTheorem` | the controller takes what the wizard lets through, but for the refusals named, however long the creation takes |
| `GroupFormTheorem` | the market takes what the paired form lets through within the bounds the form does not check |
| `FormPromisesTheorem` | a valid form keeps to the collateral typed, the balance and the cap, and MAX to the balance |

The market theorems hold for any finite set of groups or series and of holders
(the vault is none of them, nor in v2 the zero address), parameters `_validate` accepts, any `WAD` above zero and any nesting depth; the assumptions
are the named `ASSUME`s of the modules. What follows is the argument.

*Sums and loops.* The totals of the models are sums over a set and its loops are
iterated steps. `CommonProofs` proves what is needed of them without an induction
scheme: if a statement about numbers (or subsets of a finite set) failed, there
would be a least number (a smallest subset) at which it fails, and the one before
leads to a contradiction. So one changed summand changes the sum by as much
(`SumExcept`), no summand exceeds it (`SumBound`), and an iteration exists and
unrolls (`IterationExists`, `RepeatedIterates`).

*Solvency.* `Solvent` is not inductive: within a swap the balance may be below the
lock. `SolventInFlight` strengthens it with `advance`: `balance + advance >=
lockedQuote`, each frame's snapshot satisfies the same, and `advance` is what the
frames on the stack account for, one after the other. A transfer changes balance
or lock and `advance` by the same amount; a pop or a revert returns to what the
frame below had; outside code runs only where no frame owes the vault
(`CallableAhead`, the one place `QuietAfterBurn` is used), so its checks of
`balance >= lockedQuote` suffice. The bookkeeping of the stack, of payments ahead of
their burns and of swaps done by halves (below), is the same for both markets and is
proved once, in `CommonProofs`, from the router alone.

*Reserves.* `Backed` says the reserve is exactly `PortfolioMath.reserve` of the
outstanding units while live, exactly the final liability once finalized, now and
in every snapshot. `ReserveCoversOutcome` turns it into coverage: rounding down each
side's payout never exceeds rounding up the larger side's cap. Every handler moves
the lock by what it moves one group's reserve, so the lock stays their sum
(`LocksSum`, in the snapshots too).

*Receipts and redemption.* Between the two transfers of a swap receipts and ledgers
disagree by what that swap has done by halves. The router's lock admits one swap
per order (`OneSwapPerOrder`), so what is pending of an order is a single amount,
and `ClaimsKept` states the balance of receipts, units and Aqua's ledger with that
amount added, now and, with the frames below it, in every snapshot. With the stack
empty nothing is pending and `ReceiptsAccounted` and `ExitNeverClamped` remain.
`RedeemInFull` joins it to `Backed`, the sum in the lock and `Solvent`: the amount is
outstanding, its payout is released, the lock has it and the vault too.

*Index.* A fold over a sequence is a function of the positions left; `FoldsAgree` and
`FoldsExist` make it a recursion by the least number principle, so folding one log
more is one more handler (`FoldAppend`). `IndexFollows` says that folding the logs
pending now mirrors the ledger now, and folding those pending as each swap began
mirrors what its revert would restore. `OneLog` does the work: per event, if the
entity mirrors the group before the call, the handler makes it mirror the group
after, and the units recorded by type keep adding up to those outstanding. A revert
drops exactly the logs since its swap began. `IndexedImplements` lends the index
every invariant of the market.

*Pages.* The page reads the units outstanding and computes for itself; the market
carries a reserve along. They agree because of `Backed`, and because a burn never
raises the reserve (`ReserveMonotone`), so the page's floor at zero never bites
(`PageReleases`). A redemption is quoted in full by `ClaimsKept`, as in
`RedeemInFull`, and a worthless side with a holder has units outstanding, so there
is a burn to offer. `ShownAssumption`: the page counts in the contract's unit, and
`undefined` is neither a number nor an answer.

*v2 market.* `Sound` is the invariant: the ledgers are numbers, the lock is the sum
of the reservations, and every series has
reserved exactly what it owes (`Owed`: `maxLiability` of the units outstanding
while live, `finalLiability` once final). `Framed` says the same of what each frame
would restore. Every handler that changes the units moves the reserve to the new
`Owed`, so nothing is left for `closeSeries`, whose units are zero. The payout of a
unit is rounded down and grows with the variance up to the cap, the reserve is
rounded up at the cap (`ReserveCoversVariance`). The units a budget buys go through
an integer square root, a `CHOOSE`: the least number principle gives its witness.
`SolventInFlight` is then kept as in the portfolio market; a settlement needs that
it releases at least what it pays (`SettlementWithinRelease`), and an exit that its
proceeds were cut to what its units release.

*v2 claims.* `RedeemInFull` needs the receipts as well. `ClaimsKept` says of every
series, now and in every snapshot, with what its swaps have done by halves: the
holders' balances, a sum without the vault's inventory, are within the units
outstanding; what is outstanding and what is still offered are within `maxUnits`, so
the `SETTLE` order, shipped at the cap of `maxUnits`, still covers whatever `finalize`
leaves locked; from then on it falls by no more than the reserve does. A settlement
in flight is of a final series (`FrameClaims`), which is why nothing is pending of the
order when `finalize` runs. An order is docked for good only once nothing is
outstanding.

*v2 index.* `IndexFollows` is the portfolio market's invariant again, but with four
sources of logs in one call it is put together differently. `View` is the part of the
chain the entities mirror, and `Tells(logs, v, w)` says that handling these logs takes
whatever mirrors `v` to what mirrors `w`. Each event has one such fact
(`ReportTold`, `LockTold`, `WorthlessTold`, ...), they chain (`TellsThen`), and each
call's logs lead from the ledger before it to the one after. `HandleWorthlessBurned` and
`HandleFinalized` subtract where the others overwrite, so they are right only because
the entity mirrors the series already. Before the vault exists nothing is emitted
(`Bare`), after that no log finds it missing.

*v2 history.* `HistoryAddsUp` is about sums the contracts never store: fills are
recorded by the router's log at the end of a swap, booked units and premiums by the
controller's at its beginning (issue) or in its burn (payout), and the cash moves in
between, so with swaps in flight, one inside another, nothing adds up. Every sum is a book
(`Books`: per order its units and its quote, and the vault's cash), and `Due` is what one
swap leaves open in a book, read off its frame. `Remembered` says that the books were off
by nothing as the bottom swap began, from the beginning of each swap to that of the next
by what it leaves open, and to the present by what the top one does (`InStep`). A revert
goes back to the state as its swap began, where the books below it are just as even;
so the invariant needs the index folded at each of these points (`WholeSaved`). `Past` and
`Recalls` play the part of `View` and `Tells`: accounts, orders and outstanding units
as the handlers leave them, one fact per event (`ReportRecalled`, `SwappedRecalled`,
`TransferRecalled`, ...). With the stack empty nothing is open (`NothingOpen`). It needs that
the zero address is no holder (`HoldersAssumption`; an ERC-20 transfer refuses it),
since the index keeps no balance for it.

*v2 pages.* The Lens reports flags and figures separately; that they fit together is
an invariant of its own, `OrdersStand`: the burn legs are shipped exactly while the
series is open, the issue leg never longer, and no more samples are stored than the
window has offered, now and in every snapshot. With `ClaimsKept` it makes a closed
series one without holders, so the status shown, the active legs and the units
outstanding never contradict one another (`RestedClaims`, `ShownPhase`). What a
ticket submits is then read off its list of refusals (`NineReasons`), and what the
controller checks off the invariants: an exit releases what it gives back
(`MaxLiabilityMonotone`), a redemption is `RedeemInFull`. `WayOutTheorem` needs
none of the vault's solvency. `ShownAssumption`: the page counts in the contract's
unit, and `undefined` is neither a number nor one of the refusals.

*Window.* `ProgressInv` adds to `WholeWindow` that the counters are numbers and
states the final variance as `finalize` computes it; the two forms agree because
the window is a whole number of intervals (`LastSampleAtExpiry`). A checkpoint needs
fewer samples stored than due, so none is possible once all are
(`CheckpointStep`), and passing time only makes more due (`DueGrows`). The two
theorems hold for any window `_validate` accepts, any feed and any call sizes.

*Search.* On a history in order, rounds that qualify come before those that do not.
Each probe of the gallop keeps one that does on its left, so it ends with a gap
around the last one (`GallopFinds`), which the bisection halves until nothing is
left (`GapFinds`, `BisectionFinds`). `CleanFeed` is what the search takes for
granted: the rounds of a phase are timestamped, answered in themselves and in
order; `FeedInv` keeps it as the feed grows. `SamplesInv` says the cursor of the last sample still
is the latest round at its time, so a resumed scan starts from the right one.

*One-shot sum.* `QuietFeed` adds what the runs showed to be necessary: no round at
the very time of a sample, no phase that brings a past along. Then rounds
transmitted later never change which one is latest at a stored sample
(`LatestKept`), and `TallyInv`, the stored sum is the sum over the feed as it is,
survives both the feed's steps and, by unrolling the scan (`ScanFinds`), a
checkpoint's. `IntegerReturns` says a squared return is an integer.

*Simulator.* `Sound` has the vault's two totals as sums over the series, each series
owing exactly its liability and the units out as the sum of what holders have; a
sale, an exit and a settlement change one summand of each. Every `throw` in
the vault is then unreachable. For `EscrowTheorem` each step is shown to be one
of the escrow's or a stutter: a reservation out of what is free, or a release
that covers its payment.

*Taker.* `TakerInv` says what the flow carries along: `Terms`, how its limit and
allowance follow from its quote, and `Standing`, how they relate to the market as
it is at each step. The limit is a rounded share of the quote, and a partial fill
is held to it in proportion; the inequalities are between products, so the proof
multiplies out rather than divides. A highest price must
exist: what backs a group at first is chosen relative to it.

*Writer.* `WriterInv` holds for any number of tabs, any terms, clock and pool, and has
two parts. `WriterSound` is about every tab: the transaction it waits for or recovers is
in the pool and is what it sent, a result was mined, and a saved hash is a creation under
the key it is saved at. That gives `RealTheorem`: `Recover` announces what the
checkpoint of its own key names. The other part is about the only open tab.
`OnceKept`: a creation is sent only where none is saved and is saved with its hash, so
at most one is either pending or mined and not yet shown. `FundKept`: only the deposit the
tab waits for can still be mined, and the free collateral with it stays within what
is needed. Each step is shown to keep both for the tab that takes it; a step of the
chain or of a closed tab leaves rows alone (`SoundStep`, `InvStep`).
`OnceTheorem` asks that no reload falls between the wallet's broadcast and the
hash reaching the page (`"hash" \notin ReloadAt`): nothing is saved yet then, and
with such reloads TLC finds two series. `ShortfallTheorem` needs no such
hypothesis, since a reload there counts as a deposit no longer waited for
(`lost`). Both are about one tab: two tabs read the same free balance and may
both fill the gap, and their checkpoints overwrite one another.

*Forms.* `FormsInv` says what a page carries to the creation: the form is typed (any
integers, `Bad` or `Absent`), the page's clock trails, and the terms submitted are those
the unchanged form gives at a clock that trailed when they were fixed; without that
last part nothing would tie the terms mined to what was typed. Properties are then
facts about `deriveSeries` and `GroupTerms`, proved part by part
(`CapFits`, `WindowLies`, `SizeFits`, `ImpactFits`, put together in `Derives` and
`PartsFit`) and held against the contract's list of refusals, one by one
(`ValidAccepted`, `GroupAccepted`). Two chains of rounding carry weight. Units are rounded down to
whole steps and their liability up, yet it stays within the budget because the
budget is whole (`StockWithinBudget`). The slope is a quotient cut to the headroom, and
its product with the units comes back below the cap even after the spread, rounded
up, is added (`HeadroomFits`, `ImpactFits`). MAX rounds half up to cents; one step more of
inventory would cost more than that adds, if a step shows (`MaxFits`). Assumed are
scales as in the code (`FormsAssumption`: `WAD` at least 100, so that steps are not
zero), that what can be typed is a number, `Bad` or `Absent` (`TypingAssumption`), and
that no blocker reads like the absence of one (`BlockersAssumption`).

Assumptions beyond the modules' own: `QuietAfterBurn` (solvency of either market,
redemption in it and the v2 pages' offers; `portfolio_unsafe` shows what happens without it), `CleanFeed`,
`QuietFeed` and `IntegerReturns` (accumulator), no reload at `hash` (`OnceTheorem`). The runs that check these
properties satisfy them.

Every safety property of the passing runs is stated by a theorem. Only model-checked are the
liveness properties `EventuallyFinalized`, `HoldersPaid` and `FlowEnds`, which need
fairness and `ENABLED`.

## 6. Not modelled

* *Backend.* The Rust indexer, its database, the Chainlink cache and the API's
  replicas: loops over RPC and SQL. The subgraph folds the same events and is
  modelled in its place. Its own hazards are listed: a crash between the
  statements of `db.rs:1255`, a block hash read after the logs
  (`indexer.rs:412`), vaults unknown until a group of theirs is seen
  (`indexer.rs:245`: the list of topics lacks the portfolio market's `VaultCreated`).
* *Gifts.* Transfers of quote tokens to a vault, which only add to its balance, and
  pushes to a strategy outside a swap: Aqua is not in the repository, whose code
  pushes only as part of a swap.
* *Contracts.* The opcode interpreter, fees and signatures of the vendored router,
  the v1 oracle wrapper, the deployer and the scripts, the local-fork entry
  points, mocks and tests.
* *Web.* Charts, landing page, documentation pages, program viewer and formats; the one-transaction flows (stop,
  close, burn, checkpoint, finalize), which send what the contract modules model
  and keep no state between steps; transactions the user replaces in the
  wallet, which viem's wait follows to the replacement; the forms' checks
  of integer widths (`derive.ts:390`, `563`, `584`, `681`), without which the model's
  forms submit whatever the real ones do, and more.
* *Simulator.* The random paths (any path is checked instead), the report and its
  worked examples.
* *Prices.* The v2 market chooses its ask and bid from a set, so no property relates
  a fill to the curve of `SeriesPricing`; the simulator runs on the curve itself.
