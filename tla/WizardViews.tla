----------------------------- MODULE WizardViews ------------------------------
(***************************************************************************)
(* The two pages that write a market, as functions of what is typed: the   *)
(* wizard of a series (components/write) over the derivation of SeriesForm,*)
(* and the form of a paired market (components/pairs/CreateGroupForm.tsx). *)
(*                                                                         *)
(*   in  the inputs of the derivation      d  what it derives from them    *)
(*   w   deployed, connected, usdc (Absent until read) and free, the       *)
(*       collateral free in the writer's vault                             *)
(***************************************************************************)
EXTENDS SeriesForm, GroupViews

anchorWindow(tenorDays) == IF tenorDays <= 1 THEN "1d" ELSE IF tenorDays <= 14 THEN "7d" ELSE "30d"

\* Which errors belong to the three decisions; the others open Advanced.
Primary ==
    {"anchor-parse", "anchor-pending", "anchor-trailing", "collateral-parse",
     "under-one-unit", "no-collateral", "short-balance"}

OverrideCount(in) == Cardinality({k \in OverrideKeys : in.ov[k] # Absent})

-----------------------------------------------------------------------------
\* The decisions: what can be chosen, and the payoff if all is sold.

Decisions(in, d) ==
    LET known == in.trailing # Absent /\ in.trailing >= RV_FLOOR
        p == d.draft
        premium == d.shown.premiumIfSoldOut
        pays(perUnit) == (p.maxUnits * perUnit) \div WAD
        row(payout) == [payout |-> payout, net |-> premium - payout]
    IN  [tenors |-> {1, 7, 30} \cup {in.tenorDays},
         disabled |-> IF known THEN {} ELSE {"cheap", "fair", "rich"},
         says |-> FirstReason(<< <<in.trailing = Absent /\ in.pending, "Not loaded yet">>,
                                 <<in.trailing # Absent /\ ~known, "At the floor">>,
                                 <<in.trailing = Absent, "Unavailable">> >>),
         markupBps |-> IF in.stance = "custom" THEN Unknown ELSE STANCE_BPS[in.stance] - BPS,
         saleToExpiry |-> p.saleEnd >= p.expiry,
         scenarios |-> [calm |-> row(0),
                        breakEven |-> row(pays(perUnitPrice(p.unitNotional,
                                                            d.shown.breakEvenVariance))),
                        cap |-> row(pays(maxPayoutPerUnit(p.unitNotional, p.capVariance)))]]

\* The choice of the price impact: a lift, or the slope itself.
ImpactChoice(in) ==
    IF in.ov["impactPerUnit"] # Absent THEN "custom"
    ELSE IF in.ov["selloutLiftBps"] # Absent THEN in.ov["selloutLiftBps"] ELSE SELLOUT_LIFT_BPS

\* The disclosure opens itself on an error of its own. A field shows what was
\* typed, else what is derived.
AdvancedParams(in, d, open) ==
    LET p == d.draft
        shown(k, derived) == IF in.ov[k] # Absent THEN in.ov[k] ELSE derived
    IN  [open |-> open \/ d.errors \ Primary # {},
         overrides |-> OverrideCount(in),
         resets |-> OverrideCount(in) > 0,
         fields |-> [start |-> p.start, tenorDays |-> shown("tenorDays", in.tenorDays),
                     saleMode |-> shown("saleMode", "quarter"),
                     sampleInterval |-> p.sampleInterval,
                     unitNotional |-> shown("unitNotional", p.unitNotional),
                     capVol |-> shown("capVolPct", sqrtWad(p.capVariance)),
                     anchorVol |-> IF in.customVol # Absent THEN in.customVol
                                   ELSE sqrtWad(p.anchorVariance),
                     halfSpreadBps |-> p.halfSpreadBps,
                     impact |-> ImpactChoice(in),
                     halfLifeHours |-> shown("halfLifeHours", (2 * p.halfLife + HOUR) \div (2 * HOUR)),
                     maxUnits |-> shown("maxUnits", p.maxUnits)],
         grids |-> [i \in DOMAIN INTERVAL_LADDER |->
                     Greater(1, (2 * in.tenorDays * DAY + INTERVAL_LADDER[i])
                                    \div (2 * INTERVAL_LADDER[i]))]]

\* The ticket. A balance that is not read blocks nothing; the collateral free
\* in the vault is used first.
WriteTicket(in, d, w, running) ==
    LET short == "short-balance" \in d.errors
        blocker == FirstReason(<<
            <<~w.deployed, "Contracts not deployed">>,
            <<~w.connected, "Connect a wallet">>,
            <<w.usdc = 0 /\ w.free = 0, "Add USDC to write">>,
            <<short, "Not enough USDC">>,
            <<in.trailing = Absent /\ in.pending, "Reading realized vol">>,
            <<~d.valid, IF d.errors \cap (Primary \ {"short-balance", "anchor-pending"}) # {}
                        THEN "Fix the highlighted fields" ELSE "Fix Advanced">> >>)
    IN  [blocker |-> blocker,
         submits |-> blocker = Unknown /\ ~running,
         topUp |-> Floored(d.committed, w.free),
         offersMax |-> w.usdc # Absent /\ (w.usdc > 0 \/ w.free > 0),
         units |-> d.draft.maxUnits,
         bidAsk |-> <<d.shown.bidPerUnit, d.shown.askPerUnit>>,
         premium |-> d.shown.premiumIfSoldOut,
         breakEven |-> d.shown.breakEvenVariance,
         maxPayout |-> maxPayoutPerUnit(d.draft.unitNotional, d.draft.capVariance),
         reserved |-> d.committed,
         worst |-> d.shown.worstCaseNet]

\* What MAX fills in, and what the page fills in by itself.
MaxCollateral(d, w) ==
    ticketUsdc(maxCollateralFor(w.usdc + w.free, d.draft.unitNotional, d.draft.capVariance))
DefaultCollateral(d, w, want) ==
    LET of(v) == maxCollateralFor(v, d.draft.unitNotional, d.draft.capVariance)
        backed == of(w.usdc + w.free)
    IN  ticketUsdc(IF backed < want THEN backed ELSE of(want))

-----------------------------------------------------------------------------
\* The form of a paired market. Days and hours are typed in tenths of a
\* second, so that rounding them to seconds is not lost.

Rounded(tenths) == (tenths + 5) \div 10

\* Mutant: bids are not compared with asks.
QuotesParse(in) == \A s \in Side : IsNumber(in.ask[s]) /\ IsNumber(in.bid[s])
\* Both quotes are there and no bid is above its ask.
QuotesFit(in) ==
    /\ \A s \in Side : IsNumber(in.ask[s]) /\ IsNumber(in.bid[s])
    /\ \A s \in Side : in.bid[s] <= in.ask[s]

\* The terms the form makes of its fields, none while one of them is off; now
\* is the page's clock, zero until it is mounted.
GroupTerms(in, now) ==
    LET start == (now \div HOUR) * HOUR
        expiry == start + Rounded(in.window)
        ok == /\ now > 0
              /\ Positive(in.window) /\ Positive(in.sale)
              /\ Positive(in.capPayout) /\ Positive(in.maxUnits)
              /\ Positive(in.capVol) /\ varianceFromVol(in.capVol) > 0
              /\ QuotesFit(in)
    IN  IF ~ok THEN Unknown
        ELSE [start |-> start, expiry |-> expiry,
              saleEnd |-> Lesser(start + Rounded(in.sale), expiry), sampleInterval |-> HOUR,
              capVariance |-> varianceFromVol(in.capVol), capPayout |-> in.capPayout,
              maxUnits |-> in.maxUnits, ask |-> in.ask, bid |-> in.bid]

CreateGroupForm(in, now, w, running) ==
    LET terms == GroupTerms(in, now)
        blocker == FirstReason(<< <<~w.connected, "Connect a wallet">>,
                                  <<terms = Unknown, "Check the inputs">> >>)
    IN  [blocker |-> blocker,
         locks |-> IF terms = Unknown THEN Unknown
                   ELSE maxGroupLiability(terms.maxUnits, terms.capPayout),
         submits |-> w.deployed /\ blocker = Unknown /\ ~running]

\* TremorPortfolioMarket._validate at time `at`, as the reasons it reverts for.
GroupRefusals(p, at) ==
    LET span == p.expiry - p.start
    IN  (IF span <= 0 THEN {"BadWindow"} ELSE {})
        \cup (IF span % p.sampleInterval # 0 THEN {"BadInterval"} ELSE {})
        \cup (IF span \div p.sampleInterval \notin MIN_SAMPLES .. CONTRACT_MAX_SAMPLES
              THEN {"BadSampleCount"} ELSE {})
        \cup (IF p.saleEnd < at \/ p.start > p.saleEnd \/ p.saleEnd > p.expiry
              THEN {"BadSaleEnd"} ELSE {})
        \cup (IF p.capVariance \notin 1 .. MAX_CAP_VARIANCE THEN {"BadCap"} ELSE {})
        \cup (IF p.capPayout = 0 \/ maxGroupLiability(p.maxUnits, p.capPayout) = 0
              THEN {"BadScale"} ELSE {})
        \cup (IF p.maxUnits = 0 THEN {"BadMaxUnits"} ELSE {})
        \cup (IF \E s \in Side : p.ask[s] = 0 \/ p.bid[s] > p.ask[s] \/ p.ask[s] > p.capPayout
              THEN {"BadPrices"} ELSE {})
=============================================================================
