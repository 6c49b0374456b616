----------------------------- MODULE SeriesViews -----------------------------
(***************************************************************************)
(* What the web application makes of one series: the predicates of         *)
(* src/web/src/lib/series.ts, the merge of the chain's and the indexer's   *)
(* answers in hooks.ts and api.ts, and the components of a series' page as *)
(* functions of the state s they are given, the wallet w and the ticket t: *)
(* what they show, why they refuse, and which of their buttons is live.    *)
(* Wording, layout and formats are left out.                               *)
(*                                                                         *)
(*   s  the state of a series as the Lens reports it, flattened            *)
(*   w  deployed, connected, usdc and receipts, the balances that are read *)
(*   t  mode, the parsed amount, the quote and whether it is being fetched,*)
(*      and whether a transaction is running                               *)
(***************************************************************************)
EXTENDS Integers, Sequences, FiniteSets

CONSTANTS
    UNIT,      \* one receipt unit, and a variance of one
    Unknown    \* undefined: not read yet, not typed, or not there

Phases == <<"Upcoming", "Live", "ExpiredUnfinalized", "Finalized", "Closed">>

\* An enum of the Lens; anything else counts as upcoming.
statusFrom(code) == IF code \in 0 .. 4 THEN Phases[code + 1] ELSE "Upcoming"

legFrom(code) == IF code \in 1 .. 3 THEN <<"Issue", "Exit", "Settle">>[code] ELSE "None"

\* The first reason that applies, of a sequence of <<condition, reason>>.
FirstReason(reasons) ==
    LET hits == {i \in DOMAIN reasons : reasons[i][1]}
    IN  IF hits = {} THEN Unknown
        ELSE reasons[CHOOSE i \in hits : \A j \in hits : i <= j][2]

OrZero(v) == IF v = Unknown THEN 0 ELSE v
Above(v, limit) == v # Unknown /\ limit # Unknown /\ v > limit
IsPositive(v) == v # Unknown /\ v > 0

-----------------------------------------------------------------------------
\* series.ts: what a user can do.

isFinalized(s) == s.status \in {"Finalized", "Closed"}
effectiveVariance(s) == IF isFinalized(s) THEN s.finalVariance ELSE s.realizedVarianceSoFar
checkpointsBehind(s) ==
    IF s.samplesAvailable > s.samplesStored THEN s.samplesAvailable - s.samplesStored ELSE 0
checkpointProgressBps(s) ==
    IF s.samplesTotal <= 1 THEN 0
    ELSE ((IF s.samplesStored > 1 THEN s.samplesStored - 1 ELSE 0) * 10000)
            \div (s.samplesTotal - 1)

canBuy(s) == s.issuanceOpen /\ s.checkpointsCurrent
canExit(s) == s.exitOpen /\ s.checkpointsCurrent
canRedeem(s) == s.settleOpen /\ s.payoutPerUnit > 0
needsWorthlessBurn(s) == isFinalized(s) /\ s.payoutPerUnit = 0 /\ s.unitsOutstanding > 0
needsCheckpoint(s) == checkpointsBehind(s) > 0
needsFinalize(s) == s.status = "ExpiredUnfinalized" /\ s.samplesStored >= s.samplesTotal
\* Mutant: claims still out do not keep a series open.
canCloseAlways(s) == s.status # "Closed"
canClose(s) == s.status # "Closed" /\ s.unitsOutstanding = 0

Rank == [Live |-> 0, Upcoming |-> 1, ExpiredUnfinalized |-> 2, Finalized |-> 3, Closed |-> 4]

\* Live first, then by expiry; ties keep their order.
sortSeries(list) ==
    LET before(i, j) ==
            LET a == list[i] b == list[j] IN
            \/ Rank[a.status] < Rank[b.status]
            \/ Rank[a.status] = Rank[b.status] /\ a.expiry < b.expiry
            \/ Rank[a.status] = Rank[b.status] /\ a.expiry = b.expiry /\ i < j
        place == [i \in DOMAIN list |-> 1 + Cardinality({j \in DOMAIN list : before(j, i)})]
    IN  [k \in DOMAIN list |-> list[CHOOSE i \in DOMAIN list : place[i] = k]]

matchesFilter(s, f) ==
    CASE f = "all" -> TRUE
      [] f = "issuanceOpen" -> s.issuanceOpen
      [] f = "upcoming" -> s.status = "Upcoming"
      [] f = "live" -> s.status = "Live"
      [] f = "finalizing" -> s.status = "ExpiredUnfinalized"
      [] f = "finalized" -> s.status = "Finalized"
      [] f = "closed" -> s.status = "Closed"

-----------------------------------------------------------------------------
\* The two sources. The indexer may answer null for what it has not read.

Flags ==
    {"issuanceOpen", "exitOpen", "settleOpen", "issueLegActive", "exitLegActive",
     "settleLegActive", "checkpointsCurrent", "fullyCollateralized"}
Figures ==
    {"realizedVarianceSoFar", "bidVariance", "askVariance", "unitsOutstanding",
     "unitsAvailable", "lockedLiability", "finalVariance", "payoutPerUnit",
     "samplesStored", "samplesAvailable", "samplesTotal"}

\* A null vault reads as an empty one that nothing may be pulled from.
toVaultState(v) ==
    IF v = Unknown
    THEN [balance |-> 0, locked |-> 0, free |-> 0, aquaAllowance |-> 0,
          allowanceSufficient |-> FALSE]
    ELSE v

\* A null flag reads as off, a null figure as zero, a null status as upcoming.
toSeriesState(a) ==
    [k \in DOMAIN a |->
        IF k \in Flags THEN a[k] # Unknown /\ a[k]
        ELSE IF k \in Figures THEN OrZero(a[k])
        ELSE IF k = "status" THEN statusFrom(OrZero(a[k]))
        ELSE IF k = "vaultState" THEN toVaultState(a[k])
        ELSE a[k]]

\* The chain's answer with its enum decoded.
fromLensState(l) == [l EXCEPT !.status = statusFrom(@)]

\* The figures only the indexer has.
FillStats ==
    {"fillsCount", "issueCount", "exitCount", "settleCount", "premiumQuote", "exitQuote",
     "settlementQuote", "unitsIssued", "unitsExited", "unitsSettled", "lastFillAt"}

mergeExtras(onChain, api) ==
    IF api = Unknown THEN onChain
    ELSE [k \in DOMAIN onChain \cup (FillStats \cap DOMAIN api) |->
            IF k \in FillStats \cap DOMAIN api THEN api[k] ELSE onChain[k]]

\* A query: its data (kept while it fails), and whether it has never
\* answered or its last call failed.
useSeries(w, chainQuery, apiQuery) ==
    LET data == IF chainQuery.data # Unknown THEN mergeExtras(chainQuery.data, apiQuery.data)
                ELSE apiQuery.data
        waiting == (w.deployed /\ chainQuery.pending) \/ apiQuery.pending
    IN  [data |-> data,
         isLoading |-> data = Unknown /\ waiting,
         notFound |-> data = Unknown /\ ~waiting,
         source |-> IF chainQuery.data # Unknown THEN "chain"
                    ELSE IF apiQuery.data # Unknown THEN "api" ELSE Unknown]

\* The list: what the chain lists, with what the indexer knows of each.
useSeriesList(w, chainQuery, apiQuery) ==
    LET known == IF apiQuery.data = Unknown THEN << >> ELSE apiQuery.data
        of(id) == LET hits == {i \in DOMAIN known : known[i].id = id}
                  IN  IF hits = {} THEN Unknown
                      ELSE known[CHOOSE i \in hits : \A j \in hits : j <= i]
        data == IF chainQuery.data # Unknown
                THEN sortSeries([i \in DOMAIN chainQuery.data |->
                        mergeExtras(chainQuery.data[i], of(chainQuery.data[i].id))])
                ELSE IF apiQuery.data # Unknown THEN sortSeries(apiQuery.data) ELSE Unknown
    IN  [data |-> data,
         isLoading |-> data = Unknown
                       /\ ((w.deployed /\ chainQuery.pending) \/ apiQuery.pending)]

\* The whole list in one call, else one call a series, all of which must
\* answer.
readAllStates(count, whole, one) ==
    LET listed == IF whole = Unknown THEN << >>
                  ELSE SelectSeq(whole, LAMBDA s : s.id \in 1 .. count)
    IN  IF count = 0 THEN << >>
        ELSE IF Len(listed) = count THEN listed
        ELSE IF \E i \in 1 .. count : one[i] = Unknown THEN Unknown
        ELSE [i \in 1 .. count |-> one[i]]

-----------------------------------------------------------------------------
\* The tickets. A ticket refuses for the first reason that applies; its
\* field is locked unless the reason is the wallet's; its button is live
\* when a positive amount is typed, quoted, not refused and not running.

Valid(t) == IsPositive(t.parsed)
FieldLocked(blocker, forgiven) == blocker # Unknown /\ blocker \notin forgiven
Average(amount, units) ==
    IF IsPositive(units) /\ amount # Unknown THEN (amount * UNIT) \div units ELSE Unknown

\* Profit over the indexed entry price, when there is one.
IndexedPnl(entry, units, proceeds) ==
    IF entry # Unknown /\ IsPositive(units) /\ proceeds # Unknown
    THEN proceeds - (entry * units) \div UNIT ELSE Unknown

BuyBlocker(s, w, premium, preview) ==
    FirstReason(<<
        <<~w.deployed, "Contracts not deployed">>,
        <<~w.connected /\ ~preview, "Connect a wallet">>,
        <<s.status = "Closed", "Series closed">>,
        <<s.status \in {"Finalized", "ExpiredUnfinalized"}, "Sale closed">>,
        <<~s.issuanceOpen, IF s.unitsAvailable = 0 THEN "Sold out" ELSE "Issuance closed">>,
        <<~s.checkpointsCurrent, "Update the market first">>,
        <<~s.fullyCollateralized, "Vault does not back this series">>,
        <<~canBuy(s), "Not for sale">>,
        <<Above(premium, w.usdc), "Insufficient USDC">> >>)

\* The mode follows the preset; toggling it clears the amount.
BuyTicket(s, w, t, preset, preview) ==
    LET units == t.quote.units
        premium == t.quote.premium
        blocker == BuyBlocker(s, w, premium, preview)
        filled == IF t.mode = "exactIn" THEN premium ELSE units
        locked == FieldLocked(blocker, {"Insufficient USDC", "Connect a wallet"})
    IN  [blocker |-> blocker, locked |-> locked,
         startsIn |-> IF preset # Unknown THEN "exactOut" ELSE "exactIn",
         partial |-> Above(t.parsed, filled),
         submits |-> ~preview /\ Valid(t) /\ blocker = Unknown /\ ~t.running /\ premium # Unknown,
         max |-> IF t.mode = "exactIn" THEN IF IsPositive(w.usdc) THEN w.usdc ELSE Unknown
                 ELSE IF s.unitsAvailable > 0 THEN s.unitsAvailable ELSE Unknown,
         samplesMissing |-> IF s.checkpointsCurrent THEN 0
                            ELSE s.samplesAvailable - s.samplesStored,
         average |-> Average(premium, units),
         breakEven |-> IF IsPositive(units) /\ premium # Unknown
                       THEN (premium * UNIT * UNIT) \div (units * s.unitNotional) ELSE s.askVariance,
         maxPayout |-> IF units = Unknown THEN Unknown
                       ELSE (units * ((s.unitNotional * s.capVariance) \div UNIT)) \div UNIT]

\* Expired, the ticket points to redemption; an upcoming window blocks it.
ExitBlocker(s, w, parsed) ==
    FirstReason(<<
        <<~w.deployed, "Contracts not deployed">>,
        <<s.status = "Upcoming", "Window has not started">>,
        <<s.status = "Closed", "Series closed">>,
        <<~s.exitOpen, IF s.status \in {"Finalized", "ExpiredUnfinalized"}
                       THEN "Expired" ELSE "No exit market">>,
        <<~s.checkpointsCurrent, "Update the market first">>,
        <<~canExit(s), "Exit unavailable">>,
        <<~w.connected, "Connect a wallet">>,
        <<w.receipts = 0, "No receipts held">>,
        <<Above(parsed, w.receipts), "Exceeds your balance">> >>)

ExitTicket(s, w, t, entry) ==
    LET units == t.quote.units
        proceeds == t.quote.premium
        blocker == ExitBlocker(s, w, t.parsed)
    IN  [blocker |-> blocker,
         locked |-> FieldLocked(blocker, {"Connect a wallet", "Exceeds your balance"}),
         quotes |-> s.exitOpen /\ Valid(t),
         partial |-> Above(t.parsed, units),
         submits |-> Valid(t) /\ blocker = Unknown /\ ~t.running /\ proceeds # Unknown,
         max |-> IF IsPositive(w.receipts) THEN w.receipts ELSE Unknown,
         average |-> Average(proceeds, units),
         pnl |-> IndexedPnl(entry, units, proceeds),
         closesAt |-> IF s.exitOpen THEN s.expiry ELSE Unknown]

RedeemBlocker(s, w, parsed) ==
    FirstReason(<<
        <<~w.deployed, "Contracts not deployed">>,
        <<s.status = "Upcoming", "Window has not started">>,
        <<s.status = "Live", "Locked until expiry">>,
        <<s.status = "ExpiredUnfinalized", "Finalize the variance first">>,
        <<s.status = "Closed" /\ s.unitsOutstanding = 0, "Series closed">>,
        <<~w.connected, "Connect a wallet">>,
        <<w.receipts = 0, "No receipts held">>,
        <<Above(parsed, w.receipts), "Exceeds your balance">>,
        <<~needsWorthlessBurn(s) /\ ~canRedeem(s), "Redemption unavailable">> >>)

\* A worthless series is burned instead; neither way waits for a quote.
RedeemTicket(s, w, t, entry) ==
    LET worthless == needsWorthlessBurn(s)
        blocker == RedeemBlocker(s, w, t.parsed)
        submits == Valid(t) /\ blocker = Unknown /\ ~t.running
    IN  [blocker |-> blocker, worthless |-> worthless,
         locked |-> FieldLocked(blocker, {"Connect a wallet", "Exceeds your balance"}),
         quotes |-> s.settleOpen /\ ~worthless /\ Valid(t),
         redeems |-> submits /\ ~worthless,
         burns |-> submits /\ worthless,
         max |-> IF IsPositive(w.receipts) THEN w.receipts ELSE Unknown,
         receives |-> IF worthless THEN 0 ELSE t.quote.premium,
         pnl |-> IndexedPnl(entry, t.parsed, t.quote.premium),
         variance |-> IF isFinalized(s) THEN s.finalVariance ELSE s.realizedVarianceSoFar]

\* Both calls are anyone's; a checkpoint takes at most `budget` samples, 32
\* while the contract's own bound is not known.
OracleTicket(s, w, budgetRead, checkpointing, finalizing) ==
    LET behind == checkpointsBehind(s)
        budget == IF budgetRead = Unknown THEN 32 ELSE budgetRead
        blocker == FirstReason(<< <<~w.deployed, "Contracts not deployed">>,
                                  <<~w.connected, "Connect a wallet">> >>)
    IN  [blocker |-> blocker,
         progressBps |-> checkpointProgressBps(s),
         callsLeft |-> (behind + budget - 1) \div budget,
         stores |-> IF behind < budget THEN behind ELSE budget,
         checkpoints |-> blocker = Unknown /\ behind > 0 /\ ~checkpointing,
         finalizes |-> blocker = Unknown /\ needsFinalize(s) /\ ~finalizing,
         saysFinal |-> s.status \in {"Finalized", "Closed"},
         variance |-> IF s.status \in {"Finalized", "Closed"} THEN s.finalVariance
                      ELSE s.realizedVarianceSoFar]

-----------------------------------------------------------------------------
\* The rail of tabs, the table of series and the collateral card.

\* Mutant: only once the window is over.
hasOracleTabExpired(s) == s.status = "ExpiredUnfinalized"
hasOracleTab(s) == needsCheckpoint(s) \/ needsFinalize(s) \/ s.status = "ExpiredUnfinalized"

\* The tab, when it is offered.
TabIf(offered, kind) == IF offered THEN <<kind>> ELSE << >>

sidesFor(s) ==
    LET early == s.status \in {"Upcoming", "Live"}
        sides == TabIf(early /\ (s.issuanceOpen \/ canBuy(s)), "buy")
                 \o TabIf(early /\ (s.exitOpen \/ canExit(s)), "exit")
                 \o TabIf(canRedeem(s) \/ needsWorthlessBurn(s), "redeem")
                 \o TabIf(hasOracleTab(s), "oracle")
    IN  IF sides # << >> THEN sides
        ELSE IF s.status = "Live" THEN <<"buy">> ELSE <<"redeem">>

\* The tab chosen earlier stays while the series still has it.
TradeRail(s, chosen) ==
    LET sides == sidesFor(s)
    IN  [sides |-> sides,
         side |-> IF \E i \in DOMAIN sides : sides[i] = chosen THEN chosen ELSE sides[1],
         choice |-> Len(sides) > 1,
         live |-> s.checkpointsCurrent]

\* The three conditions of full collateralization.
LockedBackingCell(s) == [locked |-> s.lockedLiability, ok |-> s.fullyCollateralized]

\* The rows a filter, the sale switch and a limit leave, and what a row says
\* of the variance realized so far.
SeriesTable(list, filter, saleOnly, limit, failed, deployed) ==
    LET all == IF list = Unknown THEN << >> ELSE list
        matching == SelectSeq(all, LAMBDA s : matchesFilter(s, filter)
                                              /\ (saleOnly => s.issuanceOpen))
        rows == IF limit # Unknown /\ limit > 0 /\ limit < Len(matching)
                THEN SubSeq(matching, 1, limit) ELSE matching
        realized(s) == IF s.status = "Upcoming" THEN "Awaiting start"
                       ELSE IF s.samplesStored <= 1 /\ ~isFinalized(s) THEN Unknown
                       ELSE effectiveVariance(s)
    IN  [rows |-> [i \in DOMAIN rows |->
                    [id |-> rows[i].id, status |-> rows[i].status,
                     realized |-> realized(rows[i]),
                     bid |-> IF rows[i].bidVariance > 0 THEN rows[i].bidVariance ELSE Unknown,
                     ask |-> IF rows[i].askVariance > 0 THEN rows[i].askVariance ELSE Unknown,
                     backing |-> LockedBackingCell(rows[i])]],
         offersWriting |-> rows = << >> /\ list = << >> /\ deployed,
         says |-> IF rows # << >> THEN Unknown
                  ELSE FirstReason(<< <<~deployed, "Not deployed">>, <<failed, "No answer">>,
                                      <<all # << >>, "No match">>, <<TRUE, "No series">> >>)]

\* A bar: a share of what is required, full when nothing is, at most full.
Bar(value, required, unlimited) ==
    IF value >= unlimited \/ required = 0 \/ value >= required THEN 10000
    ELSE (value * 10000) \div required

CollateralCard(s, unlimited) ==
    LET v == s.vaultState
        exposure == (s.unitsOutstanding * s.unitNotional * s.capVariance + UNIT * UNIT - 1)
                        \div (UNIT * UNIT)
    IN  [bars |-> <<Bar(v.balance, s.lockedLiability, unlimited),
                    Bar(v.aquaAllowance, s.lockedLiability, unlimited),
                    Bar(s.lockedLiability, exposure, unlimited)>>,
         free |-> v.free,
         says |-> FirstReason(<<
            <<s.fullyCollateralized, "Fully collateralized">>,
            <<s.unitsOutstanding = 0 \/ s.exitLegActive \/ s.settleLegActive, "Check the vault">>,
            <<TRUE, "Both burn legs are docked">> >>)]
=============================================================================
