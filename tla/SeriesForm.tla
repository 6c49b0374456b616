----------------------------- MODULE SeriesForm -----------------------------
(***************************************************************************)
(* The form that writes a series (src/web/src/lib/derive.ts and            *)
(* components/write): three decisions and a set of overrides become the    *)
(* parameters the controller validates when the series is created.         *)
(*                                                                         *)
(* A text field is abstracted to what parsing it gives: a number, Bad when *)
(* it is no number, Absent when nothing was typed or read. An override is  *)
(* Absent unless the writer touched it. Amounts and variances are integers *)
(* on scales chosen by WAD, BPS and UNIT_NOTIONAL; times are seconds.      *)
(***************************************************************************)
EXTENDS Integers, Sequences, FiniteSets

CONSTANTS
    WAD,            \* one unit, and a variance or volatility of one
    BPS,            \* one, in basis points
    UNIT_NOTIONAL,  \* quote base units per unit and variance of one
    TicketCut,      \* base units a ticket's two decimals cannot tell apart
    MaxTimestamp,   \* the largest timestamp the contract stores
    Absent, Bad     \* nothing typed or read; text that is no number

HOUR == 3600
DAY == 86400

SAMPLES_PER_CHECKPOINT == 32
MAX_SAMPLES == 84
MIN_SAMPLES == 2
CONTRACT_MAX_SAMPLES == 256
INTERVAL_LADDER == <<1800, 3600, 7200, 14400, 21600, 43200, 86400>>
RV_FLOOR == WAD \div 25
UNITS_STEP == WAD \div 100
MIN_UNITS == WAD
MAX_CAP_VARIANCE == 4 * WAD
CAP_VOL_LADDER == <<WAD \div 2, (3 * WAD) \div 4, WAD, (3 * WAD) \div 2, 2 * WAD>>
SELLOUT_LIFT_BPS == BPS \div 2
HALF_SPREAD_BPS == BPS \div 50
MIN_HALF_SPREAD_BPS == BPS \div 1000
MAX_HALF_SPREAD_BPS == BPS \div 5
STANCE_BPS == [cheap |-> BPS, fair |-> (BPS * 115) \div 100, rich |-> (BPS * 135) \div 100]
MIN_HALF_LIFE == 300
MAX_HALF_LIFE == 30 * DAY

OverrideKeys ==
    {"start", "tenorDays", "sampleInterval", "saleMode", "unitNotional", "capVolPct",
     "halfSpreadBps", "selloutLiftBps", "impactPerUnit", "halfLifeHours", "maxUnits"}
NoOverrides == [k \in OverrideKeys |-> Absent]

-----------------------------------------------------------------------------
\* Helpers of format.ts, series.ts and derive.ts.

Lesser(a, b) == IF a < b THEN a ELSE b
Greater(a, b) == IF a > b THEN a ELSE b
CeilDiv(a, b) == (a + b - 1) \div b
mulDivUp(a, b, d) == CeilDiv(a * b, d)
sqrtWad(v) == CHOOSE r \in 0 .. v + WAD : r * r <= v * WAD /\ (r + 1) * (r + 1) > v * WAD
varianceFromVol(vol) == (vol * vol) \div WAD
clampInt(v, lo, hi) == IF v < lo THEN lo ELSE IF v > hi THEN hi ELSE v
IsNumber(text) == text \notin {Absent, Bad}
Positive(text) == IsNumber(text) /\ text > 0

\* A ticket shows two decimals, rounded half up; parsing gives that back.
ticketUsdc(v) == ((v + TicketCut \div 2) \div TicketCut) * TicketCut

maxSeriesLiability(maxUnits, notional, cap) == mulDivUp(maxUnits * notional, cap, WAD * WAD)
maxPayoutPerUnit(notional, cap) == (notional * cap) \div WAD
perUnitPrice(notional, variance) == (notional * variance) \div WAD

issuePremium(notional, ask, slope, units) ==
    IF units <= 0 THEN 0
    ELSE LET integral == ask * units + mulDivUp(slope * units, units, 2 * WAD)
         IN  mulDivUp(notional, integral, WAD * WAD)

breakEvenVariance(paid, units, notional) ==
    IF units = 0 \/ notional = 0 THEN 0 ELSE (paid * WAD * WAD) \div (units * notional)

checkpointCallsFor(samples) == Greater(1, CeilDiv(samples + 1, SAMPLES_PER_CHECKPOINT))

defaultStart(nowTs) == CeilDiv(nowTs + 300, HOUR) * HOUR

\* The finest grid with no more than MAX_SAMPLES steps, else the coarsest.
intervalFor(tenorSeconds) ==
    LET fits == {i \in DOMAIN INTERVAL_LADDER :
                    CeilDiv(tenorSeconds, INTERVAL_LADDER[i]) <= MAX_SAMPLES}
    IN  INTERVAL_LADDER[IF fits = {} THEN Len(INTERVAL_LADDER)
                        ELSE CHOOSE i \in fits : \A j \in fits : i <= j]

halfLifeFor(sampleInterval) == clampInt(3 * sampleInterval, HOUR, 12 * HOUR)

capVarianceFor(trailing, anchor) ==
    LET floorVol == Greater(2 * sqrtWad(trailing), sqrtWad(2 * anchor))
        round == {i \in DOMAIN CAP_VOL_LADDER : CAP_VOL_LADDER[i] >= floorVol}
        vol == CAP_VOL_LADDER[IF round = {} THEN Len(CAP_VOL_LADDER)
                              ELSE CHOOSE i \in round : \A j \in round : i <= j]
    IN  varianceFromVol(vol)

stanceVariance(trailing, bps) == (trailing * bps * bps) \div (BPS * BPS)

\* The largest collateral of a whole number of steps a balance can back.
maxCollateralFor(balance, notional, cap) ==
    IF balance <= 0 \/ notional <= 0 \/ cap <= 0 THEN 0
    ELSE LET raw == (balance * WAD * WAD) \div (notional * cap)
             units == (raw \div UNITS_STEP) * UNITS_STEP
         IN  mulDivUp(units * notional, cap, WAD * WAD)

-----------------------------------------------------------------------------
\* The parts of deriveSeries, in its order. Each gives its values and the
\* ids of the errors it raises.

\* Trailing variance, floored.
Trailing(in) ==
    IF in.trailing = Absent \/ in.trailing < RV_FLOOR THEN RV_FLOOR ELSE in.trailing

\* The price: a multiple of trailing volatility, or the writer's own.
AnchorPart(in) ==
    LET fair == stanceVariance(Trailing(in), STANCE_BPS.fair)
    IN  IF in.stance = "custom"
        THEN IF Positive(in.customVol) /\ varianceFromVol(in.customVol) > 0
             THEN [anchor |-> varianceFromVol(in.customVol), errors |-> {}]
             ELSE [anchor |-> fair, errors |-> {"anchor-parse"}]
        ELSE IF in.trailing = Absent
        THEN [anchor |-> fair,
              errors |-> {IF in.pending THEN "anchor-pending" ELSE "anchor-trailing"}]
        ELSE [anchor |-> stanceVariance(Trailing(in), STANCE_BPS[in.stance]), errors |-> {}]

\* Mutant: any number is taken for a spread.
SpreadPartAny(in) ==
    LET v == in.ov["halfSpreadBps"]
    IN  [spread |-> IF IsNumber(v) THEN v ELSE HALF_SPREAD_BPS,
         errors |-> IF v = Bad THEN {"spread-range"} ELSE {}]
SpreadPart(in) ==
    LET v == in.ov["halfSpreadBps"]
        inRange == IsNumber(v) /\ v \in MIN_HALF_SPREAD_BPS .. MAX_HALF_SPREAD_BPS
    IN  [spread |-> IF inRange THEN v ELSE HALF_SPREAD_BPS,
         errors |-> IF v # Absent /\ ~inRange THEN {"spread-range"} ELSE {}]

\* The cap, and whether the price and the ask fit under it.
CapPart(in, anchor, spread) ==
    LET v == in.ov["capVolPct"]
        natural == Lesser(capVarianceFor(Trailing(in), anchor), MAX_CAP_VARIANCE)
        typed == Positive(v) /\ varianceFromVol(v) > 0
        cap == IF typed /\ varianceFromVol(v) <= MAX_CAP_VARIANCE THEN varianceFromVol(v)
               ELSE natural
        ask == mulDivUp(anchor, BPS + spread, BPS)
    IN  [cap |-> cap, ask |-> ask,
         errors |->
            (IF v = Absent THEN {}
             ELSE IF ~typed THEN {"cap-parse"}
             ELSE IF varianceFromVol(v) > MAX_CAP_VARIANCE THEN {"cap-ceiling"} ELSE {})
            \cup (IF anchor > cap THEN {"anchor-over-cap"} ELSE {})
            \cup (IF ask > cap /\ anchor <= cap THEN {"ask-over-cap"} ELSE {})]

\* The intervals of n a sale lasts.
saleSteps(mode, n) ==
    IF mode = "start" THEN 0
    ELSE IF mode = "expiry" THEN n
    ELSE Greater(1, n \div (IF mode = "half" THEN 2 ELSE 4))

\* The window: whole days on a grid, and where the sale ends.
WindowPart(in) ==
    LET tenorOv == in.ov["tenorDays"]
        tenorDays == clampInt(IF IsNumber(tenorOv) THEN tenorOv ELSE in.tenorDays, 1, 3650)
        tenorSeconds == tenorDays * DAY
        onLadder == \E i \in DOMAIN INTERVAL_LADDER :
                        INTERVAL_LADDER[i] = in.ov["sampleInterval"]
        interval == IF onLadder THEN in.ov["sampleInterval"] ELSE intervalFor(tenorSeconds)
        startOv == in.ov["start"]
        start == IF IsNumber(startOv) THEN startOv ELSE defaultStart(in.nowTs)
        n == Greater(1, (2 * tenorSeconds + interval) \div (2 * interval))
        expiry == start + n * interval
        mode == in.ov["saleMode"]
        snapped == Lesser(expiry, start + saleSteps(mode, n) * interval)
        \* A sale already over is held open for an hour.
        saleEnd == IF snapped <= in.nowTs THEN in.nowTs + HOUR ELSE snapped
    IN  [start |-> start, expiry |-> expiry, saleEnd |-> saleEnd,
         interval |-> interval, samples |-> n,
         errors |->
            (IF tenorOv = Bad \/ (IsNumber(tenorOv) /\ tenorOv < 1) THEN {"tenor-parse"} ELSE {})
            \cup (IF startOv = Bad THEN {"start-parse"} ELSE {})
            \cup (IF n < MIN_SAMPLES THEN {"samples-floor"} ELSE {})
            \cup (IF n > CONTRACT_MAX_SAMPLES THEN {"samples-ceiling"} ELSE {})
            \cup (IF expiry > MaxTimestamp THEN {"ts-range"} ELSE {})]

NotionalPart(in) ==
    LET v == in.ov["unitNotional"]
    IN  [notional |-> IF Positive(v) THEN v ELSE UNIT_NOTIONAL,
         errors |-> IF v # Absent /\ ~Positive(v) THEN {"notional"} ELSE {}]

\* Collateral in, inventory out; and whether the writer can fund it.
SizePart(in, notional, cap) ==
    LET budget == IF Positive(in.collateral) THEN in.collateral ELSE 0
        v == in.ov["maxUnits"]
        raw == (budget * WAD * WAD) \div (notional * cap)
        maxUnits == IF v # Absent THEN IF Positive(v) THEN v ELSE 0
                    ELSE (raw \div UNITS_STEP) * UNITS_STEP
        committed == IF maxUnits > 0 THEN maxSeriesLiability(maxUnits, notional, cap) ELSE 0
    IN  [maxUnits |-> maxUnits, committed |-> committed,
         errors |->
            (IF in.collateral = Bad THEN {"collateral-parse"} ELSE {})
            \cup (IF v # Absent /\ ~Positive(v) THEN {"units-parse"} ELSE {})
            \cup (IF maxUnits < MIN_UNITS /\ v = Absent
                  THEN {IF budget > 0 THEN "under-one-unit" ELSE "no-collateral"} ELSE {})
            \cup (IF in.wallet # Absent /\ committed > in.wallet THEN {"short-balance"} ELSE {})]

\* Mutant: the spread is forgotten.
headroomBare(anchor, spread, cap) == IF cap > anchor THEN cap - anchor ELSE 0
\* What the spread leaves between the price and the cap.
headroom(anchor, spread, cap) ==
    LET ceiling == (cap * BPS) \div (BPS + spread)
    IN  IF ceiling > anchor THEN ceiling - anchor ELSE 0

\* The slope that lifts the price by the stated amount when all is sold,
\* inside the headroom.
ImpactPart(in, anchor, spread, cap, maxUnits) ==
    LET liftOv == in.ov["selloutLiftBps"]
        liftBps == IF Positive(liftOv) THEN liftOv ELSE SELLOUT_LIFT_BPS
        lift == Lesser((anchor * liftBps) \div BPS, headroom(anchor, spread, cap))
        derived == IF maxUnits > 0 THEN (lift * WAD) \div maxUnits ELSE 0
        v == in.ov["impactPerUnit"]
        taken == IsNumber(v) /\ v >= 0 /\ v <= cap
        impact == IF taken THEN v ELSE derived
        atSellOut == anchor + (impact * maxUnits) \div WAD
    IN  [impact |-> impact, varianceAtSellOut |-> atSellOut,
         askAtSellOut |-> mulDivUp(Lesser(atSellOut, cap), BPS + spread, BPS),
         errors |-> IF v = Absent \/ taken THEN {}
                    ELSE {IF IsNumber(v) /\ v > cap THEN "impact-range" ELSE "impact-parse"}]

HalfLifePart(in, interval) ==
    LET v == in.ov["halfLifeHours"]
        taken == IsNumber(v) /\ v >= 0
    IN  [halfLife |-> IF taken THEN v * HOUR ELSE halfLifeFor(interval),
         errors |-> IF v # Absent /\ ~taken THEN {"halflife"} ELSE {}]

\* What the ticket shows: both prices at opening, and the sale in full.
Readouts(notional, anchor, ask, spread, cap, impact, size) ==
    LET askAtOpen == Lesser(ask, cap)
        bidAtOpen == Lesser((anchor * (BPS - spread)) \div BPS, cap)
        slope == (impact * (BPS + spread)) \div BPS
        premium == issuePremium(notional, askAtOpen, slope, size.maxUnits)
    IN  [askPerUnit |-> perUnitPrice(notional, askAtOpen),
         bidPerUnit |-> perUnitPrice(notional, bidAtOpen),
         premiumIfSoldOut |-> premium,
         breakEvenVariance |-> breakEvenVariance(premium, size.maxUnits, notional),
         worstCaseNet |-> premium - size.committed]

deriveSeries(in) ==
    LET a == AnchorPart(in)
        s == SpreadPart(in)
        c == CapPart(in, a.anchor, s.spread)
        w == WindowPart(in)
        u == NotionalPart(in)
        size == SizePart(in, u.notional, c.cap)
        i == ImpactPart(in, a.anchor, s.spread, c.cap, size.maxUnits)
        h == HalfLifePart(in, w.interval)
        errors == a.errors \cup s.errors \cup c.errors \cup w.errors \cup u.errors
                    \cup size.errors \cup i.errors \cup h.errors
    IN  [draft |-> [start |-> w.start, expiry |-> w.expiry, saleEnd |-> w.saleEnd,
                    sampleInterval |-> w.interval, unitNotional |-> u.notional,
                    capVariance |-> c.cap, anchorVariance |-> a.anchor,
                    impactPerUnit |-> i.impact, halfLife |-> h.halfLife,
                    halfSpreadBps |-> s.spread, maxUnits |-> size.maxUnits],
         valid |-> errors = {} /\ size.maxUnits >= MIN_UNITS /\ a.anchor > 0 /\ c.cap > 0,
         errors |-> errors,
         committed |-> size.committed,
         samples |-> w.samples,
         checkpointCalls |-> checkpointCallsFor(w.samples),
         askAtSellOut |-> i.askAtSellOut,
         shown |-> Readouts(u.notional, a.anchor, c.ask, s.spread, c.cap, i.impact, size)]

-----------------------------------------------------------------------------
\* The controller's checks when the series is created at time `at`
\* (VarianceSeriesFactory._validate), as the reasons it reverts for.

Refusals(p, at) ==
    LET samples == (p.expiry - p.start) \div p.sampleInterval
    IN  (IF p.expiry <= p.start THEN {"BadWindow"} ELSE {})
        \cup (IF p.sampleInterval < 300 \/ (p.expiry - p.start) % p.sampleInterval # 0
              THEN {"BadInterval"} ELSE {})
        \cup (IF samples \notin MIN_SAMPLES .. CONTRACT_MAX_SAMPLES THEN {"BadSampleCount"} ELSE {})
        \cup (IF p.saleEnd < at \/ p.start > p.saleEnd \/ p.saleEnd > p.expiry
              THEN {"BadSaleEnd"} ELSE {})
        \cup (IF p.unitNotional = 0 THEN {"BadNotional"} ELSE {})
        \cup (IF p.capVariance \notin 1 .. MAX_CAP_VARIANCE THEN {"BadCap"} ELSE {})
        \cup (IF p.anchorVariance \notin 1 .. p.capVariance THEN {"BadAnchor"} ELSE {})
        \cup (IF p.impactPerUnit > p.capVariance THEN {"BadImpact"} ELSE {})
        \cup (IF p.halfSpreadBps \notin MIN_HALF_SPREAD_BPS .. MAX_HALF_SPREAD_BPS
              THEN {"BadSpread"} ELSE {})
        \cup (IF p.halfLife # 0 /\ p.halfLife \notin MIN_HALF_LIFE .. MAX_HALF_LIFE
              THEN {"BadHalfLife"} ELSE {})
        \cup (IF p.maxUnits = 0 THEN {"BadMaxUnits"} ELSE {})
        \cup (IF maxSeriesLiability(p.maxUnits, p.unitNotional, p.capVariance) = 0
              THEN {"LiabilityOutOfRange"} ELSE {})
=============================================================================
