------------------------------ MODULE SeriesPage ------------------------------
(***************************************************************************)
(* The page of one series and the hedge calculator of the web application, *)
(* over SeriesViews: what the header, the chart, the position, the feed of *)
(* fills and the rows of a hedge say of the state s they are given.        *)
(*                                                                         *)
(* The pages print volatilities, the roots of the variances kept here;     *)
(* where they print a difference of two, both are kept.                    *)
(***************************************************************************)
EXTENDS SeriesViews

\* Nothing realized is shown before a second sample, unless it is final.
RealizedShown(s) ==
    IF s.samplesStored > 1 \/ isFinalized(s) THEN effectiveVariance(s) ELSE Unknown

SeriesHeader(s) ==
    [realized |-> IF s.status = "Upcoming" THEN Unknown ELSE RealizedShown(s),
     market |-> s.marketVariance, locked |-> s.lockedLiability,
     units |-> s.unitsOutstanding,
     saleEnd |-> IF s.issuanceOpen THEN s.saleEnd ELSE Unknown,
     samplesMissing |-> checkpointsBehind(s)]

-----------------------------------------------------------------------------
\* The chart: the indexer's points, then the chain's own, at most at expiry.

volPoints(s, indexed, now) ==
    (IF indexed = Unknown THEN << >> ELSE indexed)
    \o (IF now = 0 THEN << >>
        ELSE <<[t |-> IF now < s.expiry THEN now ELSE s.expiry,
                realized |-> RealizedShown(s), market |-> s.marketVariance,
                bid |-> s.bidVariance, ask |-> s.askVariance,
                fresh |-> s.checkpointsCurrent]>>)

\* The first and the last of the points that know a figure.
FirstAndLast(points, figure) ==
    LET known == SelectSeq(points, LAMBDA p : p[figure] # Unknown)
    IN  IF known = << >> THEN Unknown ELSE <<known[1][figure], known[Len(known)][figure]>>

VolatilityQuote(s, points) ==
    LET realized == FirstAndLast(points, "realized")
        market == FirstAndLast(points, "market")
    IN  [realized |-> IF realized # Unknown THEN realized[2] ELSE RealizedShown(s),
         market |-> IF market # Unknown THEN market[2] ELSE s.marketVariance,
         spread |-> IF s.askVariance >= s.bidVariance THEN <<s.bidVariance, s.askVariance>>
                    ELSE Unknown,
         change |-> realized]

\* The payoff is drawn for the ticket's fill once it has a premium, else at
\* the marginal ask.
PayoffShown(s, ticket) ==
    LET priced == ticket.premium > 0
        even == IF ticket.units = 0 \/ s.unitNotional = 0 THEN 0
                ELSE (ticket.premium * UNIT * UNIT) \div (ticket.units * s.unitNotional)
    IN  [breakEven |-> IF priced THEN even ELSE s.askVariance,
         premium |-> IF priced THEN ticket.premium ELSE s.askPerUnit,
         units |-> ticket.units,
         realized |-> IF effectiveVariance(s) > 0 THEN effectiveVariance(s) ELSE Unknown]

-----------------------------------------------------------------------------
\* The position of the connected wallet.

\* An entry price the indexer never saw stays unknown, and so does a zero.
indexedEntry(s, portfolio) ==
    LET mine == IF portfolio = Unknown THEN << >>
                ELSE SelectSeq(portfolio, LAMBDA p : p.seriesId = s.id)
    IN  IF mine # << >> /\ mine[1].costBasisKnown /\ IsPositive(mine[1].indexedEntryPerUnit)
        THEN mine[1].indexedEntryPerUnit ELSE Unknown

\* No card without a wallet, or for one that holds nothing. Final, a position
\* is worth its redemption; else the marginal bid, while there is a market.
PositionSummary(s, w, entry) ==
    LET units == OrZero(w.receipts)
        bidPerUnit == (s.unitNotional * s.bidVariance) \div UNIT
        value == IF isFinalized(s) THEN (units * s.payoutPerUnit) \div UNIT
                 ELSE IF s.exitOpen THEN (bidPerUnit * units) \div UNIT ELSE Unknown
        cost == IF IsPositive(entry) THEN (entry * units) \div UNIT ELSE Unknown
    IN  [shown |-> w.connected /\ w.receipts # 0,
         units |-> units, value |-> value, cost |-> cost,
         pnl |-> IF value # Unknown /\ cost # Unknown THEN value - cost ELSE Unknown,
         maxPayout |-> (units * ((s.unitNotional * s.capVariance) \div UNIT)) \div UNIT]

-----------------------------------------------------------------------------
\* The fills, newest first, of the subgraph if it has any, else of the
\* indexer; none while the indexer does not answer, whoever has them.
FillsFeed(fills, graphFills, online) ==
    LET list == IF graphFills \notin {Unknown, << >>} THEN graphFills
                ELSE IF fills.data # Unknown THEN fills.data ELSE << >>
        before(i, j) == list[i].timestamp > list[j].timestamp
                        \/ (list[i].timestamp = list[j].timestamp /\ i < j)
        place == [i \in DOMAIN list |-> 1 + Cardinality({j \in DOMAIN list : before(j, i)})]
        newest == [k \in DOMAIN list |-> list[CHOOSE i \in DOMAIN list : place[i] = k]]
        offline == online = FALSE \/ fills.failed
    IN  [waiting |-> fills.pending /\ ~offline,
         rows |-> IF offline \/ fills.pending THEN << >>
                  ELSE SubSeq(newest, 1, IF Len(newest) < 25 THEN Len(newest) ELSE 25),
         says |-> FirstReason(<< <<offline, "API offline">>, <<fills.pending, Unknown>>,
                                 <<list = << >>, "No fills yet">> >>)]

\* Which of its faces the page shows: a view that has not failed for good is
\* still loading, and only a silent RPC together with a failed call of the
\* indexer counts as an outage.
SeriesDetail(id, view, w, rpcOnline, apiFailed) ==
    FirstReason(<< <<id = Unknown, "Invalid series id">>,
                   <<view.isLoading \/ (view.data = Unknown /\ ~view.notFound), "Loading">>,
                   <<view.data # Unknown, "Series">>,
                   <<~w.deployed, "Not deployed">>,
                   <<rpcOnline = FALSE /\ apiFailed, "No answer">>,
                   <<TRUE, "Not found">> >>)

\* The chart of the page; prices and history are the indexer's.
ChartSays(chart, points, online) ==
    FirstReason(<< <<chart = "volatility" /\ online = FALSE /\ Len(points) <= 1, "Live point only">>,
                   <<chart = "price" /\ online = FALSE, "API offline">> >>)

-----------------------------------------------------------------------------
\* The hedge calculator: of a pool's value, a horizon in seconds and a
\* variance, what rebalancing is expected to cost, V * variance * T / 8 over a
\* year, and the units of each live series that pay as much.

hedgeUnits(s, pool, horizon, year) ==
    IF s.unitNotional = 0 THEN 0
    ELSE (pool * horizon * UNIT) \div (8 * year * s.unitNotional)

\* The quote is that of exactly these units.
HedgeRow(s, units, pool, quote) ==
    [id |-> s.id, units |-> units, cost |-> quote.premium,
     costBps |-> IF quote.premium # Unknown /\ pool > 0
                 THEN (quote.premium * 10000) \div pool ELSE Unknown,
     fills |-> IF quote.premium # Unknown /\ quote.units # Unknown /\ quote.units < units
               THEN quote.units ELSE Unknown,
     says |-> FirstReason(<< <<quote.premium # Unknown, Unknown>>,
                             <<quote.isFetching, "Quoting">>,
                             <<units > s.unitsAvailable, "Not enough left">> >>)]

HedgeCalculator(list, pool, horizon, year, source, custom, trailing, quotes) ==
    LET variance == IF source = "custom" THEN custom ELSE trailing
        live == SelectSeq(IF list = Unknown THEN << >> ELSE list, canBuy)
        units(s) == hedgeUnits(s, pool, horizon, year)
    IN  [expectedLvr |-> IF variance # Unknown /\ horizon > 0
                         THEN (pool * variance * horizon) \div (8 * year * UNIT) ELSE Unknown,
         notional |-> IF horizon > 0 THEN (pool * horizon) \div (8 * year) ELSE Unknown,
         capacityBps |-> [i \in 1 .. IF Len(live) < 3 THEN Len(live) ELSE 3 |->
                            LET used == IF live[i].unitsAvailable = 0 THEN 0
                                        ELSE (units(live[i]) * 10000) \div live[i].unitsAvailable
                            IN  IF used > 10000 THEN 10000 ELSE used],
         rows |-> [i \in DOMAIN live |->
                    HedgeRow(live[i], units(live[i]), pool, quotes[live[i].id])]]
=============================================================================
