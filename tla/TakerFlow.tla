----------------------------- MODULE TakerFlow ------------------------------
(***************************************************************************)
(* The taker's side of the web application: a ticket (components/series,   *)
(* components/pairs) and the flow it starts (runBuy, runExit, runRedeem    *)
(* and their group versions in web/src/lib/tx.ts).  A flow quotes the      *)
(* market, makes sure of an allowance, builds an order with a limit and    *)
(* sends a swap; other traders, the clock and the user's typing move       *)
(* between any two of these.  The swap is executed by the router, which    *)
(* fills partially under a pro-rated limit (vendored TakerTraits).         *)
(*                                                                         *)
(* Prices are a level per unit: the slope of the v2 curve only makes the   *)
(* level of a fill depend on its size.                                     *)
(***************************************************************************)
EXTENDS Integers, FiniteSetsExt

CONSTANTS
    Venues,     \* "series" (v2) and "group" (paired markets)
    MaxAmount,  \* bound on amounts typed
    Prices,     \* price levels per unit
    MaxStock,   \* bound on inventory, backing and outstanding units
    SlipBase,   \* 10_000 in the code: what slippage is counted in
    Slip,       \* slippage is Slip out of SlipBase
    Deadline,   \* ticks a built order is good for
    MaxMoves    \* bound on what other traders do

ASSUME BoundsAssumption == /\ MaxAmount \in Nat /\ MaxStock \in Nat
                           /\ SlipBase \in Nat \ {0} /\ Slip \in 0..SlipBase
                           /\ Deadline \in Nat /\ MaxMoves \in Nat
                           /\ Prices \subseteq Nat \ {0}
                           /\ \E top \in Prices : \A p \in Prices : p <= top

VARIABLES
    market,   \* price, receipt inventory, backing, outstanding units, payer
    ticket,   \* text typed, text debounced, mode
    flow,     \* the running flow
    done      \* the last swap executed, and what was quoted for it

takerVars == <<market, ticket, flow, done>>

Min2(a, b) == IF a < b THEN a ELSE b
DivUp(a, b) == (a + b - 1) \div b

ExactIn(kind) == kind # "buyOut"

\* What the tickets of a venue do; a group sells units, not amounts.
TicketKinds(venue) ==
    {"buyOut", "exit", "settle"} \union IF venue = "series" THEN {"buyIn"} ELSE {}

-----------------------------------------------------------------------------
(* What the market does with an amount, as a pair of amounts in and out.   *)

Nothing == [in |-> 0, out |-> 0]

\* _priceIssue: the fill is clamped to inventory and backing, and then
\* charged for exactly what is filled.
Issue(m, kind, a) ==
    LET cap   == Min2(m.inv, m.coll)
        units == IF kind = "buyOut" THEN a ELSE a \div m.price
    IN IF units > cap \/ kind = "buyOut"
       THEN [in |-> Min2(units, cap) * m.price, out |-> Min2(units, cap)]
       ELSE [in |-> a, out |-> units]

\* _priceExit, _priceSettle: at most what is outstanding.  The v2 engine then
\* cuts the proceeds to what it may pay, the portfolio market refuses.
Sell(m, a) ==
    LET units == Min2(a, m.outstanding)
        value == units * m.price
    IN CASE m.venue = "group" /\ value > m.pot -> Nothing
         [] OTHER -> [in |-> units, out |-> Min2(value, m.pot)]

Fill(m, kind, a) ==
    IF kind \in {"buyIn", "buyOut"} THEN Issue(m, kind, a) ELSE Sell(m, a)

Unlimited == MaxAmount * MaxAmount

\* Mutant: the router's quote, too, looks past the inventory.
QuotePastStock(m, kind, a) == Fill([m EXCEPT !.inv = Unlimited], kind, a)

\* The Lens quotes a v2 issue without the Aqua inventory; quoteGroup quotes
\* through the router, on the very path a swap runs.
Quote(m, kind, a) ==
    Fill(IF m.venue = "series" THEN [m EXCEPT !.inv = Unlimited] ELSE m, kind, a)

\* The same market with nothing to clamp a fill.
Clamped(m, kind, a) ==
    LET free == Fill([m EXCEPT !.inv = Unlimited, !.coll = Unlimited,
                               !.outstanding = Unlimited, !.pot = Unlimited], kind, a)
    IN Fill(m, kind, a) # free

\* The limit a flow sends, and the allowance it needs for it.
MinOut(out) == (out * (SlipBase - Slip)) \div SlipBase

\* Mutant: the allowance covers the quoted premium, not the limit.
AtMostTight(q) ==
    [taker |-> q.out, needed |-> q.in, limit |-> (q.in * (SlipBase + Slip)) \div SlipBase]

\* Exact-out: the premium may rise by the slippage, and that is approved.
AtMost(q) ==
    LET worst == (q.in * (SlipBase + Slip)) \div SlipBase
    IN  [taker |-> q.out, needed |-> worst, limit |-> worst]

\* Exact-in: the amount quoted is sent, the output may fall by the slippage.
AtLeast(q) == [taker |-> q.in, needed |-> q.in, limit |-> MinOut(q.out)]

\* Mutant: the limit is not pro-rated by the part that was filled.
WithinTotal(r, f) ==
    /\ f.out > 0
    /\ IF ExactIn(r.kind) THEN r.taker >= f.in ELSE r.taker >= f.out /\ f.in <= r.limit

\* TakerTraits.validate under allowPartialFill: the limit is a rate.
WithinLimit(r, f) ==
    /\ f.out > 0
    /\ IF ExactIn(r.kind)
       THEN /\ r.taker >= f.in
            /\ f.out >= DivUp(r.limit * f.in, r.taker)
       ELSE /\ r.taker >= f.out
            /\ f.in <= (r.limit * f.out) \div r.taker

Executable(r, f) == WithinLimit(r, f) /\ r.age <= Deadline /\ f.in <= flow.allowed

-----------------------------------------------------------------------------
NoFlow(allowed) ==
    [pc |-> "idle", kind |-> "none", asked |-> 0, quote |-> Nothing,
     taker |-> 0, needed |-> 0, limit |-> 0, age |-> 0,
     moves |-> 0, clamp |-> FALSE, allowed |-> allowed]

TakerInit ==
    /\ market \in [venue : Venues, price : Prices, inv : {1, MaxStock}, coll : {1, MaxStock},
                   outstanding : {MaxStock}, pot : {MaxStock * Max(Prices), MaxStock},
                   moves : {0}]
    /\ ticket \in [text : {0}, debounced : {0}, kind : TicketKinds(market.venue)]
    /\ flow = NoFlow(0)
    /\ done = {}

-----------------------------------------------------------------------------
(* The ticket.                                                             *)

Type(a) ==
    /\ flow.pc = "idle"
    /\ ticket' = [ticket EXCEPT !.text = a]
    /\ UNCHANGED <<market, flow, done>>

\* BuyTicket.toggle: the mode changes at once, the debounced text does not.
Toggle ==
    /\ ticket.kind \in {"buyIn", "buyOut"}
    /\ flow.pc = "idle"
    /\ \E k \in {"buyIn", "buyOut"} \ {ticket.kind} :
          k \in TicketKinds(market.venue) /\ ticket' = [ticket EXCEPT !.kind = k, !.text = 0]
    /\ UNCHANGED <<market, flow, done>>

Debounce ==
    /\ ticket.debounced # ticket.text
    /\ ticket' = [ticket EXCEPT !.debounced = ticket.text]
    /\ UNCHANGED <<market, flow, done>>

\* The button: what is submitted is the parsed debounced text, under the mode
\* the ticket is in now.
Submits(kinds) ==
    /\ flow.pc = "idle"
    /\ ticket.kind \in kinds
    /\ ticket.debounced > 0
    /\ flow' = [NoFlow(flow.allowed) EXCEPT
                  !.pc = "quote", !.kind = ticket.kind,
                  !.asked = ticket.debounced]
    /\ done' = {}
    /\ UNCHANGED <<market, ticket>>

SubmitBuy         == market.venue = "series" /\ Submits({"buyIn", "buyOut"})
SubmitExit        == market.venue = "series" /\ Submits({"exit"})
SubmitRedeem      == market.venue = "series" /\ Submits({"settle"})
SubmitBuyGroup    == market.venue = "group" /\ Submits({"buyOut"})
SubmitExitGroup   == market.venue = "group" /\ Submits({"exit"})
SubmitRedeemGroup == market.venue = "group" /\ Submits({"settle"})

-----------------------------------------------------------------------------
(* The flow.                                                               *)

Stop(r) == flow' = NoFlow(r.allowed)

Quoting(kinds) == flow.pc = "quote" /\ flow.kind \in kinds

Quoted(q, l) ==
    /\ flow' = [flow EXCEPT !.pc = "allow", !.quote = q, !.taker = l.taker,
                            !.needed = l.needed, !.limit = l.limit,
                            !.moves = market.moves,
                            !.clamp = Clamped(market, flow.kind, flow.asked)]
    /\ UNCHANGED <<market, ticket, done>>

\* A quote of nothing ends the flow before anything is signed.
Refused == Stop(flow) /\ UNCHANGED <<market, ticket, done>>

Asked == Quote(market, flow.kind, flow.asked)

RunBuy ==
    /\ market.venue = "series"
    /\ Quoting({"buyIn", "buyOut"})
    /\ IF Asked.out = 0 THEN Refused
       ELSE Quoted(Asked, IF ExactIn(flow.kind) THEN AtLeast(Asked) ELSE AtMost(Asked))

RunExit ==
    /\ market.venue = "series"
    /\ Quoting({"exit"})
    /\ IF Asked.in = 0 \/ Asked.out = 0 THEN Refused ELSE Quoted(Asked, AtLeast(Asked))

RunRedeem ==
    /\ market.venue = "series"
    /\ Quoting({"settle"})
    /\ IF Asked.out = 0 THEN Refused ELSE Quoted(Asked, AtLeast(Asked))

RunBuyGroup ==
    /\ market.venue = "group"
    /\ Quoting({"buyOut"})
    /\ IF Asked.out = 0 THEN Refused ELSE Quoted(Asked, AtMost(Asked))

RunExitGroup ==
    /\ market.venue = "group"
    /\ Quoting({"exit"})
    /\ IF Asked.out = 0 THEN Refused ELSE Quoted(Asked, AtLeast(Asked))

RunRedeemGroup ==
    /\ market.venue = "group"
    /\ Quoting({"settle"})
    /\ IF Asked.out = 0 THEN Refused ELSE Quoted(Asked, AtLeast(Asked))

Allow ==
    /\ flow.pc = "allow"
    /\ flow' = [flow EXCEPT !.pc = IF flow.allowed >= flow.needed THEN "order" ELSE "approve"]
    /\ UNCHANGED <<market, ticket, done>>

Approve ==
    /\ flow.pc = "approve"
    /\ flow' = [flow EXCEPT !.pc = "order", !.allowed = flow.needed]
    /\ UNCHANGED <<market, ticket, done>>

\* readOrder, buildTakerData: the deadline counts from here.
BuildOrder ==
    /\ flow.pc = "order"
    /\ flow' = [flow EXCEPT !.pc = "simulate", !.age = 0]
    /\ UNCHANGED <<market, ticket, done>>

SimulateSwap ==
    LET f == Fill(market, flow.kind, flow.taker) IN
    /\ flow.pc = "simulate"
    /\ IF Executable(flow, f) THEN flow' = [flow EXCEPT !.pc = "swap"] ELSE Stop(flow)
    /\ UNCHANGED <<market, ticket, done>>

SignSwap ==
    /\ flow.pc = "swap"
    /\ flow' = [flow EXCEPT !.pc = "sent"]
    /\ UNCHANGED <<market, ticket, done>>

Reject ==
    /\ flow.pc \in {"approve", "swap"}
    /\ Stop(flow)
    /\ UNCHANGED <<market, ticket, done>>

\* Mutant: backing is debited by the premium, the pot by the units.
SettledByUnits(m, kind, f) ==
    IF kind \in {"buyIn", "buyOut"}
    THEN [m EXCEPT !.inv = @ - f.out, !.coll = @ - f.in, !.outstanding = @ + f.out]
    ELSE [m EXCEPT !.outstanding = @ - f.in, !.pot = @ - f.in]

Settled(m, kind, f) ==
    IF kind \in {"buyIn", "buyOut"}
    THEN [m EXCEPT !.inv = @ - f.out, !.coll = @ - f.out,
                   !.outstanding = @ + f.out]
    ELSE [m EXCEPT !.outstanding = @ - f.in, !.pot = @ - f.out]

\* What the flow reports: partial compares the amounts of the Swapped event
\* with what was asked for.
Filled(kind, f) == IF kind = "buyOut" THEN f.out ELSE f.in

\* Mutant: partial is judged by the units received.
ReportUnits(r, f) ==
    [kind |-> r.kind, fill |-> f, quote |-> r.quote,
     partial |-> f.out < r.asked,
     clamped |-> r.clamp \/ Clamped(market, r.kind, r.taker),
     still |-> r.moves = market.moves, taker |-> r.taker]

Report(r, f) ==
    [kind |-> r.kind, fill |-> f, quote |-> r.quote,
     partial |-> Filled(r.kind, f) < r.asked,
     clamped |-> r.clamp \/ Clamped(market, r.kind, r.taker),
     still |-> r.moves = market.moves, taker |-> r.taker]

\* The swap is mined; on success useTxFlow shows the result and the ticket
\* clears its text.
MineSwap ==
    LET f == Fill(market, flow.kind, flow.taker) IN
    /\ flow.pc = "sent"
    /\ IF Executable(flow, f)
       THEN /\ flow' = NoFlow(flow.allowed - f.in)
            /\ market' = Settled(market, flow.kind, f)
            /\ done' = {Report(flow, f)}
            /\ ticket' = [ticket EXCEPT !.text = 0]
       ELSE /\ Stop(flow)
            /\ UNCHANGED <<market, ticket, done>>

-----------------------------------------------------------------------------
(* Everybody else.                                                         *)

CanMove == market.moves < MaxMoves

Reprice ==
    /\ CanMove
    /\ flow.kind # "settle"
    /\ \E p \in Prices : market' = [market EXCEPT !.price = p, !.moves = @ + 1]
    /\ UNCHANGED <<ticket, flow, done>>

\* Others buy, redeem, or take out backing.
Deplete ==
    /\ CanMove
    /\ \E x \in {"inv", "coll", "outstanding", "pot"} :
          /\ market[x] > 0
          /\ market' = [market EXCEPT ![x] = @ - 1, !.moves = @ + 1]
    /\ UNCHANGED <<ticket, flow, done>>

Age ==
    /\ flow.pc \in {"simulate", "swap", "sent"}
    /\ flow.age <= Deadline
    /\ flow' = [flow EXCEPT !.age = @ + 1]
    /\ UNCHANGED <<market, ticket, done>>

TakerNext ==
    \/ \E a \in 0..MaxAmount : Type(a)
    \/ Toggle \/ Debounce
    \/ SubmitBuy \/ SubmitExit \/ SubmitRedeem
    \/ SubmitBuyGroup \/ SubmitExitGroup \/ SubmitRedeemGroup
    \/ RunBuy \/ RunExit \/ RunRedeem
    \/ RunBuyGroup \/ RunExitGroup \/ RunRedeemGroup
    \/ Allow \/ Approve \/ BuildOrder \/ SimulateSwap \/ SignSwap
    \/ Reject \/ MineSwap
    \/ Reprice \/ Deplete \/ Age

TakerSpec == TakerInit /\ [][TakerNext]_takerVars

-----------------------------------------------------------------------------
(* Properties.                                                             *)

\* The tickets' slippage setting: a fill, however partial and however late,
\* is at a rate within Slip of the quote the flow started from (the minimum
\* output is rounded down by less than one unit).
NeverWorseThanQuoted ==
    \A d \in done :
        IF d.kind = "buyOut"
        THEN d.fill.in * d.quote.out * SlipBase <= d.quote.in * (SlipBase + Slip) * d.fill.out
        ELSE d.fill.out * d.quote.in * SlipBase
                 >= (d.quote.out * (SlipBase - Slip) - (SlipBase - 1)) * d.fill.in

\* ensureAllowance is asked for enough: a swap the limit accepts is never
\* refused because the allowance is short.
AllowanceSuffices ==
    flow.pc \in {"simulate", "sent"} =>
        LET f == Fill(market, flow.kind, flow.taker)
        IN  WithinLimit(flow, f) => f.in <= flow.allowed

\* SwapResult: "partial means a clamp bound the fill below what was asked
\* for"; a fill no clamp touched is never reported as partial.
PartialMeansClamp == \A d \in done : d.partial => d.clamped

\* quoteGroup simulates the swap itself, so what it returned is what a swap in
\* the same state fills, to the last unit.  (A v2 issue is quoted without the
\* Aqua inventory and may fill in part.)
QuoteCanFill ==
    \A d \in done :
        d.still /\ market.venue = "group" => Filled(d.kind, d.fill) = d.taker
=============================================================================
