---------------------------- MODULE PortfolioPage -----------------------------
(***************************************************************************)
(* The page of a wallet's holdings and of the markets it has written       *)
(* (src/web/src/components/portfolio/PortfolioView.tsx), over the views of *)
(* series and groups: what it lists, how it values it, and which action a  *)
(* row offers. balances maps a receipt, <<"series", id>> or                *)
(* <<"group", id, side>>, to the units read for it; a receipt it lacks     *)
(* counts as none held.                                                    *)
(***************************************************************************)
EXTENDS GroupViews

Sum(f(_), list) ==
    LET upTo[i \in 0 .. Len(list)] == IF i = 0 THEN 0 ELSE upTo[i - 1] + f(list[i])
    IN  upTo[Len(list)]

UnitsOf(balances, receipt) ==
    IF balances # Unknown /\ receipt \in DOMAIN balances THEN balances[receipt] ELSE 0

payoutFor(units, perUnit) == (units * perUnit) \div UNIT

-----------------------------------------------------------------------------
\* What a row offers.

RedeemButton(s, units, running) ==
    LET worthless == needsWorthlessBurn(s)
        enabled == units > 0 /\ (worthless \/ canRedeem(s))
    IN  [exitLink |-> ~enabled /\ canExit(s),
         redeems |-> enabled /\ ~worthless /\ ~running,
         burns |-> enabled /\ worthless /\ ~running,
         says |-> FirstReason(<< <<worthless, "Burn">>, <<enabled, "Redeem">>,
                                 <<isFinalized(s), "Redeemed">>, <<TRUE, "Not yet">> >>)]

RedeemGroupButton(g, side, units, running) ==
    LET worthless == groupNeedsWorthlessBurn(g, side)
        enabled == units > 0 /\ (worthless \/ groupCanRedeem(g, side))
    IN  [viewLink |-> ~enabled,
         redeems |-> enabled /\ ~worthless /\ ~running,
         burns |-> enabled /\ worthless /\ ~running]

StopIssuanceButton(s, running) == [shown |-> s.issuanceOpen, stops |-> s.issuanceOpen /\ ~running]

CloseSeriesButton(s, running) ==
    [shown |-> s.status # "Closed", closes |-> canClose(s) /\ ~running]

\* The portfolio market's vault when its balances have been read, else the
\* series' vault; a withdrawal takes at most what is free.
VaultCard(portfolioVault, seriesVault, parsed, running) ==
    LET v == IF portfolioVault # Unknown THEN portfolioVault ELSE seriesVault
        amount == IsPositive(parsed) /\ ~running
    IN  [vault |-> v,
         deposits |-> v # Unknown /\ amount,
         withdraws |-> v # Unknown /\ amount /\ parsed <= v.free]

-----------------------------------------------------------------------------
\* What is held, what was written.

heldSeries(list, balances) ==
    LET all == IF list = Unknown \/ balances = Unknown THEN << >> ELSE list
        held == SelectSeq(all, LAMBDA s : UnitsOf(balances, <<"series", s.id>>) > 0)
    IN  [i \in DOMAIN held |->
            [s |-> held[i], units |-> UnitsOf(balances, <<"series", held[i].id>>)]]

\* High before calm within a group.
heldGroups(list, balances) ==
    LET all == IF list = Unknown \/ balances = Unknown THEN << >> ELSE list
        sides == [i \in 1 .. 2 * Len(all) |->
                    LET g == all[(i + 1) \div 2]
                        side == IF i % 2 = 1 THEN "high" ELSE "calm"
                    IN  [g |-> g, side |-> side,
                         units |-> UnitsOf(balances, <<"group", g.id, side>>)]]
    IN  SelectSeq(sides, LAMBDA x : x.units > 0)

written(list, writer) ==
    SelectSeq(IF list = Unknown THEN << >> ELSE list,
              LAMBDA m : writer # Unknown /\ m.writer = writer)

\* What finalized markets pay for the holdings.
redeemableTotal(series, groups) ==
    Sum(LAMBDA x : IF isFinalized(x.s) THEN payoutFor(x.units, x.s.payoutPerUnit) ELSE 0, series)
    + Sum(LAMBDA x : IF x.g.finalized THEN groupSettleProceeds(x.units, x.g.ppu[x.side]) ELSE 0,
          groups)

\* What the bids would pay, were there no limits.
exitTotal(series, groups, now) ==
    Sum(LAMBDA x : IF canExit(x.s) THEN payoutFor(x.units, x.s.bidPerUnit) ELSE 0, series)
    + Sum(LAMBDA x : IF groupCanExit(x.g, x.side, now)
                     THEN groupExitProceeds(x.units, x.g.bid[x.side]) ELSE 0, groups)

reservedTotal(series, groups) ==
    Sum(LAMBDA s : s.lockedLiability, series) + Sum(LAMBDA g : g.reserveLocked, groups)

\* A position in a group: bid until finalized, then payout; and its value.
GroupPositionRow(x, now) ==
    [status |-> groupStatus(x.g, now), units |-> x.units,
     bid |-> IF x.g.finalized THEN Unknown ELSE x.g.bid[x.side],
     payout |-> IF x.g.finalized THEN x.g.ppu[x.side] ELSE Unknown,
     value |-> IF x.g.finalized THEN groupSettleProceeds(x.units, x.g.ppu[x.side])
               ELSE IF groupCanExit(x.g, x.side, now)
               THEN groupExitProceeds(x.units, x.g.bid[x.side]) ELSE 0,
     action |-> RedeemGroupButton(x.g, x.side, x.units, FALSE)]

SeriesPositionRow(x) ==
    [status |-> x.s.status, units |-> x.units,
     bid |-> IF isFinalized(x.s) THEN Unknown ELSE x.s.bidPerUnit,
     payout |-> IF isFinalized(x.s) THEN x.s.payoutPerUnit ELSE Unknown,
     value |-> IF isFinalized(x.s) THEN payoutFor(x.units, x.s.payoutPerUnit)
               ELSE IF canExit(x.s) THEN payoutFor(x.units, x.s.bidPerUnit) ELSE 0,
     action |-> RedeemButton(x.s, x.units, FALSE)]

WrittenGroupRow(g, now) ==
    [status |-> groupStatus(g, now), sold |-> g.outstanding, of |-> g.maxUnits,
     reserve |-> g.reserveLocked, separate |-> standaloneOf(g), buffer |-> g.exitBuffer]

WrittenSeriesRow(s) ==
    [status |-> s.status, sold |-> s.unitsOutstanding, unsold |-> s.unitsAvailable,
     reserved |-> s.lockedLiability,
     atTheCap |-> Up(s.unitsOutstanding * s.unitNotional * s.capVariance, UNIT * UNIT),
     premium |-> IF "premiumQuote" \in DOMAIN s THEN s.premiumQuote ELSE Unknown,
     backing |-> LockedBackingCell(s),
     stop |-> StopIssuanceButton(s, FALSE), close |-> CloseSeriesButton(s, FALSE)]

\* Without a wallet nothing is listed; while anything is read, rows wait.
PortfolioView(address, seriesList, groupList, balances, now) ==
    LET series == heldSeries(seriesList.data, balances.data)
        groups == heldGroups(groupList.data, balances.data)
        mySeries == written(seriesList.data, address)
        myGroups == written(groupList.data, address)
        receipts == seriesList.data \notin {Unknown, << >>} \/ groupList.data \notin {Unknown, << >>}
    IN  [connect |-> address = Unknown,
         waiting |-> seriesList.isLoading \/ groupList.isLoading \/ (receipts /\ balances.pending),
         unitsTotal |-> Sum(LAMBDA x : x.units, series) + Sum(LAMBDA x : x.units, groups),
         redeemable |-> redeemableTotal(series, groups),
         exitValue |-> exitTotal(series, groups, now),
         reserved |-> IF mySeries = << >> /\ myGroups = << >> THEN Unknown
                      ELSE reservedTotal(mySeries, myGroups),
         positions |-> [i \in DOMAIN groups |-> GroupPositionRow(groups[i], now)]
                       \o [i \in DOMAIN series |-> SeriesPositionRow(series[i])],
         groupsWritten |-> [i \in DOMAIN myGroups |-> WrittenGroupRow(myGroups[i], now)],
         seriesWritten |-> [i \in DOMAIN mySeries |-> WrittenSeriesRow(mySeries[i])]]
=============================================================================
