------------------------------ MODULE GroupPages ------------------------------
(***************************************************************************)
(* The portfolio market, indexed, seen through groupView and groupParams   *)
(* and the web pages of GroupViews and PortfolioPage: what a page offers   *)
(* between two transactions, against what the market would do.             *)
(*                                                                         *)
(* The page's clock is the block's, shifted by one because a page reads    *)
(* zero as not mounted yet; the router's quote is the market's own.        *)
(***************************************************************************)
EXTENDS IndexedPortfolio, PortfolioPage

\* The page computes in the contract's unit; undefined is no amount, and no
\* answer to a read of the accumulator.
ASSUME ShownAssumption ==
    /\ UNIT = WAD
    /\ Unknown \notin Nat \cup [stored : Nat, available : Nat, total : Nat]

PageSide == [HIGH |-> "high", CALM |-> "calm"]
BySide(f) == [side \in Side |-> f[CHOOSE s \in Sides : PageSide[s] = side]]

\* groupView and groupParams. The terms of the model carry no start: an order
\* can be filled from creation on.
Shown(g) ==
    LET r == group[g]
        p == Params[g]
    IN  [id |-> g, finalized |-> r.finalized, outstanding |-> BySide(r.outstanding),
         ppu |-> BySide(r.ppu), ask |-> BySide(p.ask), bid |-> BySide(p.bid),
         capPayout |-> p.capPayoutPerUnit, cap |-> p.capVariance,
         exitBuffer |-> r.exitBuffer, reserveLocked |-> r.reserveLocked,
         standaloneCaps |-> 0, start |-> 1, expiry |-> p.expiry + 1,
         saleEnd |-> p.saleEnd + 1, maxUnits |-> p.maxUnitsPerSide, writer |-> "w"]

Clock == now + 1
Wallet(g) == [deployed |-> TRUE, connected |-> TRUE, usdc |-> Unknown,
              receipts |-> BySide(held[g])]

\* The router refuses to quote a fill that pays nothing.
Typed(units, pays) ==
    [parsed |-> units, running |-> FALSE,
     quote |-> [in |-> units, out |-> IF pays > 0 THEN pays ELSE Unknown]]

\* A page is read between transactions.
Read == stack = << >>
Existing == {g \in Groups : group[g].created}

Redeeming(g, s, units) ==
    LET pays == MinOf(SettleProceeds(units, group[g].ppu[s]), aqua[g]["SETTLE"][s])
    IN  RedeemGroupTicket(Shown(g), PageSide[s], Wallet(g), Typed(units, pays))
Oracle(g, progress) == GroupOracleTicket(Shown(g), Wallet(g), progress, FALSE, FALSE)
Tab(g, kind) == LET kinds == kindsFor(Shown(g), Clock) IN \E i \in DOMAIN kinds : kinds[i] = kind

\* How far the accumulator may have got with an expired window of two samples.
Progress == {[stored |-> n, available |-> 2, total |-> 2] : n \in 0 .. 2}

\* The exit ticket warns of an exit it cannot fund exactly when the market
\* would refuse it: what the page computes from the units outstanding agrees
\* with the reserve the market has carried along, buffer included.
UnderfundedIsShown ==
    Read =>
    \A g \in Existing, s \in Sides :
        ExitOpen(g) =>
        \A units \in 1 .. group[g].outstanding[s] :
            LET released == group[g].reserveLocked - ReserveAfterExit(g, s, units)
                ticket == ExitGroupTicket(Shown(g), PageSide[s], Clock, Wallet(g),
                                          Typed(units, ExitProceeds(units, Params[g].bid[s])))
            IN  ticket.underfunded <=>
                    ExitProceeds(units, Params[g].bid[s]) > released + group[g].exitBuffer

\* From expiry on whoever holds receipts worth a base unit, or worthless ones,
\* finds a tab with something to do: samples to store, the finalization, a
\* redemption that is quoted or a burn; and what the redemption quotes is the
\* whole payout.
GroupWayOut ==
    Read =>
    \A g \in Existing, s \in Sides :
        LET units == held[g][s]
            owed == SettleProceeds(units, group[g].ppu[s])
            ticket == Redeeming(g, s, units)
        IN  (units > 0 /\ now >= Params[g].expiry) =>
            IF group[g].finalized
            THEN (owed > 0 \/ group[g].ppu[s] = 0) =>
                    /\ Tab(g, "redeem")
                    /\ IF owed > 0 THEN ticket.redeems /\ ticket.receives = owed ELSE ticket.burns
            ELSE \A p \in Progress :
                    Tab(g, "oracle") /\ (Oracle(g, p).checkpoints \/ Oracle(g, p).finalizes)
=============================================================================
