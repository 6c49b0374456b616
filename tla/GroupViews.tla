------------------------------ MODULE GroupViews ------------------------------
(***************************************************************************)
(* What the web application makes of one paired market: the arithmetic and *)
(* the predicates of src/web/src/lib/portfolio.ts, and the components of   *)
(* src/web/src/components/pairs as functions of the group g they are       *)
(* given, the clock of the page (0 until it is mounted), the wallet w and  *)
(* the ticket t. Wording, layout and formats are left out.                 *)
(*                                                                         *)
(*   g  the group as groupView and groupParams report it, flattened, what  *)
(*      is kept per side in functions of the side                          *)
(*   w  deployed, connected, usdc and receipts[side]                       *)
(*   t  the parsed amount, the router's quote in and out, and whether a    *)
(*      transaction is running                                             *)
(***************************************************************************)
EXTENDS SeriesViews

Side == {"high", "calm"}
Up(a, b) == (a + b - 1) \div b
Floored(a, b) == IF a > b THEN a - b ELSE 0

-----------------------------------------------------------------------------
\* Payouts and reserves, as the page computes them for itself.

xWadFor(variance, cap) ==
    IF cap <= 0 THEN 0
    ELSE IF variance >= cap THEN UNIT ELSE (variance * UNIT) \div cap
highPpuFor(capPayout, x) == (capPayout * x) \div UNIT
calmPpuFor(capPayout, x) == capPayout - highPpuFor(capPayout, x)

liveReserve(high, calm, capPayout) ==
    Up((IF high > calm THEN high ELSE calm) * capPayout, UNIT)
finalizedReserve(high, calm, highPpu, calmPpu) ==
    (high * highPpu) \div UNIT + (calm * calmPpu) \div UNIT
reserveFor(g, high, calm) ==
    IF g.finalized THEN finalizedReserve(high, calm, g.ppu["high"], g.ppu["calm"])
    ELSE liveReserve(high, calm, g.capPayout)
standaloneCapsFor(high, calm, capPayout) == Up(high * capPayout, UNIT) + Up(calm * capPayout, UNIT)
standaloneOf(g) ==
    IF g.standaloneCaps > 0 THEN g.standaloneCaps
    ELSE standaloneCapsFor(g.outstanding["high"], g.outstanding["calm"], g.capPayout)
maxGroupLiability(maxUnits, capPayout) == Up(maxUnits * capPayout, UNIT)

\* Nothing for more than is outstanding.
reserveReleasedByBurn(g, side, units) ==
    LET left == [s \in Side |-> g.outstanding[s] - (IF s = side THEN units ELSE 0)]
    IN  IF left[side] < 0 THEN 0
        ELSE Floored(reserveFor(g, g.outstanding["high"], g.outstanding["calm"]),
                     reserveFor(g, left["high"], left["calm"]))

groupIssuePremium(units, ask) == Up(units * ask, UNIT)
groupExitProceeds(units, bid) == (units * bid) \div UNIT
groupSettleProceeds(units, ppu) == (units * ppu) \div UNIT

\* Mutant: the buffer is left out.
exitAvailabilityReserve(g, side, units) ==
    [needed |-> groupExitProceeds(units, g.bid[side]),
     available |-> reserveReleasedByBurn(g, side, units)]
\* What an exit needs, and what can pay it.
exitAvailability(g, side, units) ==
    [needed |-> groupExitProceeds(units, g.bid[side]),
     available |-> reserveReleasedByBurn(g, side, units) + g.exitBuffer]
exitFunded(g, side, units) ==
    LET a == exitAvailability(g, side, units) IN a.available >= a.needed

-----------------------------------------------------------------------------
\* Status, and what a user can do.

groupStatus(g, now) ==
    IF g.finalized
    THEN IF \A s \in Side : g.outstanding[s] = 0 THEN "Settled" ELSE "Finalized"
    ELSE IF now < g.start THEN "Upcoming"
    ELSE IF now >= g.expiry THEN "AwaitingFinalization"
    ELSE IF now < g.saleEnd THEN "Open" ELSE "Trading"

groupCanBuy(g, now) == ~g.finalized /\ now >= g.start /\ now < g.saleEnd
groupCanExit(g, side, now) == ~g.finalized /\ now < g.expiry /\ g.outstanding[side] > 0
groupCanRedeem(g, side) == g.finalized /\ g.ppu[side] > 0
groupNeedsWorthlessBurn(g, side) ==
    g.finalized /\ g.ppu[side] = 0 /\ g.outstanding[side] > 0
vaultFreeCollateral(balance, locked) == Floored(balance, locked)

GroupRank == [Open |-> 0, Trading |-> 1, Upcoming |-> 2, AwaitingFinalization |-> 3,
              Finalized |-> 4, Settled |-> 5]

sortGroups(list, now) ==
    LET rank(i) == GroupRank[groupStatus(list[i], now)]
        before(i, j) ==
            \/ rank(i) < rank(j)
            \/ rank(i) = rank(j) /\ list[i].expiry < list[j].expiry
            \/ rank(i) = rank(j) /\ list[i].expiry = list[j].expiry /\ i < j
        place == [i \in DOMAIN list |-> 1 + Cardinality({j \in DOMAIN list : before(j, i)})]
    IN  [k \in DOMAIN list |-> list[CHOOSE i \in DOMAIN list : place[i] = k]]

\* All the groups, or no answer when one of them has none.
readAllGroupStates(count, one) ==
    IF \E i \in 1 .. count : one[i] = Unknown THEN Unknown ELSE [i \in 1 .. count |-> one[i]]

\* A vault the registry names; the zero address is none.
usePortfolioVault(registered, balances) ==
    IF registered = Unknown \/ balances = Unknown THEN Unknown ELSE balances

-----------------------------------------------------------------------------
\* The tickets. A page that is not mounted yet (now = 0) blocks on no time.

BuyGroupTicket(g, side, now, w, t) ==
    LET remaining == g.maxUnits - g.outstanding[side]
        blocker == FirstReason(<<
            <<~w.deployed, "Contracts not deployed">>,
            <<g.finalized, "Group finalized">>,
            <<now > 0 /\ now >= g.saleEnd, "Sale closed">>,
            <<now > 0 /\ now < g.start, "Sale not open yet">>,
            <<remaining <= 0, "Side sold out">>,
            <<~w.connected, "Connect a wallet">>,
            <<Above(t.quote.in, w.usdc), "Insufficient USDC">> >>)
    IN  [blocker |-> blocker,
         locked |-> FieldLocked(blocker, {"Connect a wallet", "Insufficient USDC"}),
         quotes |-> now > 0 /\ groupCanBuy(g, now) /\ Valid(t),
         partial |-> Above(t.parsed, t.quote.out),
         max |-> IF remaining > 0 THEN remaining ELSE Unknown,
         submits |-> Valid(t) /\ blocker = Unknown /\ ~t.running /\ t.quote.in # Unknown]

ExitGroupTicket(g, side, now, w, t) ==
    LET held == w.receipts[side]
        blocker == FirstReason(<<
            <<~w.deployed, "Contracts not deployed">>,
            <<g.finalized, "Finalized">>,
            <<now > 0 /\ now >= g.expiry, "Expired">>,
            <<now > 0 /\ ~groupCanExit(g, side, now), "Nothing outstanding">>,
            <<~w.connected, "Connect a wallet">>,
            <<held = 0, "No receipts held">>,
            <<Above(t.parsed, held), "Exceeds your balance">> >>)
    IN  [blocker |-> blocker,
         locked |-> FieldLocked(blocker, {"Connect a wallet", "Exceeds your balance"}),
         quotes |-> now > 0 /\ ~g.finalized /\ now < g.expiry /\ Valid(t),
         underfunded |-> Valid(t) /\ ~exitFunded(g, side, t.parsed),
         releases |-> IF Valid(t) THEN reserveReleasedByBurn(g, side, t.parsed) ELSE Unknown,
         partial |-> Above(t.parsed, t.quote.in),
         max |-> IF IsPositive(held) THEN held ELSE Unknown,
         submits |-> Valid(t) /\ blocker = Unknown /\ ~t.running /\ t.quote.out # Unknown]

RedeemGroupTicket(g, side, w, t) ==
    LET held == w.receipts[side]
        worthless == groupNeedsWorthlessBurn(g, side)
        blocker == FirstReason(<<
            <<~w.deployed, "Contracts not deployed">>,
            <<~g.finalized, "Not finalized yet">>,
            <<~groupCanRedeem(g, side) /\ ~worthless, "Nothing to redeem">>,
            <<~w.connected, "Connect a wallet">>,
            <<held = 0, "No receipts held">>,
            <<Above(t.parsed, held), "Exceeds your balance">> >>)
        live == Valid(t) /\ blocker = Unknown /\ ~t.running
    IN  [blocker |-> blocker, worthless |-> worthless,
         locked |-> FieldLocked(blocker, {"Connect a wallet", "Exceeds your balance"}),
         quotes |-> Valid(t) /\ groupCanRedeem(g, side),
         receives |-> IF worthless THEN 0
                      ELSE IF t.quote.out # Unknown THEN t.quote.out
                      ELSE IF Valid(t) /\ g.finalized THEN groupSettleProceeds(t.parsed, g.ppu[side])
                      ELSE Unknown,
         max |-> IF IsPositive(held) THEN held ELSE Unknown,
         burns |-> live /\ worthless,
         redeems |-> live /\ ~worthless /\ t.quote.out # Unknown]

\* p: the accumulator's progress, when it has been read.
GroupOracleTicket(g, w, p, checkpointing, finalizing) ==
    LET behind == IF p = Unknown THEN Unknown ELSE Floored(p.available, p.stored)
        blocker == FirstReason(<< <<~w.deployed, "Contracts not deployed">>,
                                  <<~w.connected, "Connect a wallet">> >>)
        complete == p # Unknown /\ p.total > 0 /\ p.stored >= p.total
    IN  [blocker |-> blocker, behind |-> behind,
         progressBps |-> IF p # Unknown /\ p.total > 1
                         THEN (Floored(p.stored, 1) * 10000) \div (p.total - 1) ELSE 0,
         checkpoints |-> blocker = Unknown /\ IsPositive(behind) /\ ~checkpointing,
         finalizes |-> blocker = Unknown /\ ~g.finalized /\ complete /\ ~finalizing]

-----------------------------------------------------------------------------
\* The rail, the table, the cards and the page of a group.

\* Mutant: after the end of the sale, not with it.
hasGroupOracleTabLate(g, now) == ~g.finalized /\ now > g.saleEnd
hasGroupOracleTab(g, now) == ~g.finalized /\ now >= g.saleEnd

kindsFor(g, now) ==
    LET kinds == TabIf(groupCanBuy(g, now), "buy")
                 \o TabIf(\E s \in Side : groupCanExit(g, s, now), "exit")
                 \o TabIf(\E s \in Side : groupCanRedeem(g, s) \/ groupNeedsWorthlessBurn(g, s),
                          "redeem")
                 \o TabIf(hasGroupOracleTab(g, now), "oracle")
    IN  IF now = 0 THEN <<"buy">>
        ELSE IF kinds # << >> THEN kinds
        ELSE IF g.finalized THEN <<"redeem">> ELSE <<"buy">>

GroupTradeRail(g, now, chosen, side) ==
    LET kinds == kindsFor(g, now)
    IN  [kinds |-> kinds,
         kind |-> IF \E i \in DOMAIN kinds : kinds[i] = chosen THEN chosen ELSE kinds[1],
         status |-> IF now > 0 THEN groupStatus(g, now) ELSE Unknown,
         prices |-> [s \in Side |-> IF g.finalized THEN g.ppu[s] ELSE g.ask[s]],
         shareOfCap |-> IF side = "high" THEN g.xWad ELSE UNIT - g.xWad]

ReserveCell(g) == [reserve |-> g.reserveLocked, separate |-> standaloneOf(g)]

GroupTable(query, now, limit, w) ==
    LET list == IF query.data = Unknown THEN << >> ELSE query.data
        sorted == IF now > 0 THEN sortGroups(list, now) ELSE list
        rows == IF limit # Unknown /\ limit > 0 /\ limit < Len(sorted)
                THEN SubSeq(sorted, 1, limit) ELSE sorted
    IN  [waiting |-> query.pending /\ w.deployed,
         rows |-> [i \in DOMAIN rows |->
                    [id |-> rows[i].id, reserve |-> ReserveCell(rows[i]),
                     status |-> groupStatus(rows[i], IF now > 0 THEN now ELSE rows[i].start),
                     shown |-> [s \in Side |-> IF rows[i].finalized THEN <<rows[i].ppu[s]>>
                                               ELSE <<rows[i].bid[s], rows[i].ask[s]>>]]],
         offersWriting |-> rows = << >> /\ w.deployed /\ list = << >> /\ ~query.failed]

\* v: the balances of the vault, when they have been read.
PortfolioSummaryCard(g, v) ==
    LET standalone == standaloneOf(g)
    IN  [saved |-> Floored(standalone, g.reserveLocked),
         shareBps |-> IF standalone > 0 THEN (g.reserveLocked * 10000) \div standalone ELSE 0,
         free |-> IF v = Unknown THEN Unknown ELSE vaultFreeCollateral(v.balance, v.locked),
         backed |-> v # Unknown /\ v.balance >= v.locked]

\* realized: the variance so far, when it has been read. Until the market is
\* final the payouts are those this variance would have.
LivePairPricingCard(g, now, realized) ==
    LET variance == IF g.finalized THEN g.finalVariance ELSE OrZero(realized)
        x == IF g.finalized THEN g.xWad ELSE xWadFor(variance, g.cap)
        high == highPpuFor(g.capPayout, x)
    IN  [variance |-> variance, x |-> x,
         live |-> ~g.finalized /\ groupStatus(g, IF now > 0 THEN now ELSE g.start) = "Open",
         prices |-> [s \in Side |-> IF g.finalized THEN <<g.ppu[s]>> ELSE <<g.bid[s], g.ask[s]>>],
         spread |-> [s \in Side |-> IF g.finalized THEN Unknown ELSE Floored(g.ask[s], g.bid[s])],
         payout |-> IF g.finalized THEN g.ppu
                    ELSE [s \in Side |-> IF s = "high" THEN high ELSE g.capPayout - high],
         outstanding |-> g.outstanding]

\* A row acts on a positive amount, unless it is off or running.
Row(parsed, disabled, running) == IsPositive(parsed) /\ ~disabled /\ ~running

ExitBufferCard(g, w, isWriter, t) ==
    LET blocked == ~w.deployed \/ ~w.connected
        mine == w.connected /\ isWriter
    IN  [allocates |-> Row(t.parsed, blocked \/ ~mine, t.running),
         funds |-> Row(t.parsed, blocked, t.running),
         withdraws |-> Row(t.parsed, blocked \/ ~mine \/ g.exitBuffer = 0, t.running)]

Header(g, now) ==
    [status |-> groupStatus(g, IF now > 0 THEN now ELSE g.start),
     tape |-> [s \in Side |-> IF g.finalized THEN <<g.ppu[s]>> ELSE <<g.bid[s], g.ask[s]>>],
     variance |-> IF g.finalized THEN g.finalVariance ELSE g.cap,
     reserve |-> g.reserveLocked]

GroupEventsCard(events, online) ==
    LET offline == online = FALSE \/ events.failed
        list == IF events.data = Unknown THEN << >> ELSE events.data
    IN  [waiting |-> events.pending /\ ~offline,
         rows |-> IF offline THEN << >>
                  ELSE [i \in DOMAIN list |->
                         [event |-> list[i].event, side |-> list[i].side,
                          units |-> IF list[i].units > 0 THEN list[i].units ELSE Unknown,
                          amount |-> IF list[i].amount > 0 THEN list[i].amount ELSE Unknown]]]

\* Which of its faces the page of a group shows.
GroupDetail(id, query, w, rpcOnline) ==
    FirstReason(<< <<id = Unknown, "Invalid group id">>,
                   <<~w.deployed, "Not deployed">>,
                   <<query.pending, "Loading">>,
                   <<query.data = Unknown /\ rpcOnline = FALSE, "The RPC did not answer">>,
                   <<query.data = Unknown, "Not found">>,
                   <<TRUE, "Group">> >>)
=============================================================================
