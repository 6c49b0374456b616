------------------------------ MODULE WriteForms ------------------------------
(***************************************************************************)
(* A writer at work on one of the two pages of WizardViews: what is typed, *)
(* what is read meanwhile, the page's clock, which trails the chain's, and *)
(* the transactions of a submission, of which the creating one is mined a  *)
(* while after the terms were fixed (lib/tx.ts: vault, approval and deposit*)
(* come first). What those other transactions do is WriterFlow's subject.  *)
(***************************************************************************)
EXTENDS WizardViews

CONSTANTS
    Start,        \* the time the page is opened at
    Step,         \* the time between two observations of the chain
    Lags,         \* how far a page's clock may trail
    MaxSteps,     \* bound on the steps of time
    MaxEdits,     \* bound on the edits
    Typing,       \* override -> what may be typed for it
    Volatilities, Collaterals, Tenors,   \* what else may be typed
    Trailings,    \* what the read of trailing variance may answer
    Balances,     \* what the read of the wallet may answer: usdc and free
    Wanted,       \* the collateral the page proposes, 2,000 USDC
    Assumed,      \* the volatility it proposes when there is none, 60 %
    GroupTyping   \* field of the form of a paired market -> what may be typed

\* What is typed, once parsed, and where a sale can be set to end.
Typed == Int \cup {Absent, Bad}
SaleModes == {"start", "quarter", "half", "expiry"}

ASSUME FormsAssumption ==
    /\ UNIT = WAD /\ WAD >= 100
    /\ {WAD, BPS, UNIT_NOTIONAL, TicketCut} \subseteq Nat \ {0}
    /\ {Start, Step, MaxSteps, MaxEdits, Wanted, Assumed} \cup Lags \subseteq Nat
    /\ \E lag \in Lags : \A other \in Lags : other <= lag

ASSUME TypingAssumption ==
    /\ {Absent, Bad, Unknown} \cap Int = {}
    /\ \A k \in OverrideKeys \ {"saleMode"} : Typing[k] \subseteq Typed
    /\ Typing["saleMode"] \subseteq SaleModes
    /\ Volatilities \cup Collaterals \subseteq Typed
    /\ Tenors \subseteq Int
    /\ Trailings \subseteq Nat \cup {Bad}
    /\ Balances \subseteq Nat \X Nat
    /\ {"ask", "bid"} \subseteq DOMAIN GroupTyping
    /\ \A k \in DOMAIN GroupTyping : GroupTyping[k] \subseteq Typed

\* A form that is not blocked says nothing.
ASSUME BlockersAssumption ==
    Unknown \notin {"Contracts not deployed", "Connect a wallet", "Add USDC to write",
                    "Not enough USDC", "Reading realized vol", "Fix the highlighted fields",
                    "Fix Advanced", "Check the inputs"}

VARIABLES
    page,       \* "write" or "pairs"
    now,        \* block.timestamp
    clock,      \* the page's
    edits,      \* edits so far
    form,       \* the inputs of the page
    reads,      \* of trailing variance: window -> Unknown, Bad when it failed, or the answer
    wallet,     \* the balances read
    touched,    \* the writer has named a collateral
    submitted,  \* the terms being created and the inputs they came from, or Unknown
    refused     \* what the creation reverted for, or Unknown

vars == <<page, now, clock, edits, form, reads, wallet, touched, submitted, refused>>

FirstSeries ==
    [tenorDays |-> 7, stance |-> "fair", customVol |-> Absent, collateral |-> Wanted,
     ov |-> NoOverrides]
FirstGroup ==
    [window |-> 70 * DAY, sale |-> 420 * HOUR, capVol |-> WAD, capPayout |-> 10,
     maxUnits |-> WAD, ask |-> [high |-> 4, calm |-> 7], bid |-> [high |-> 3, calm |-> 6]]

Init ==
    /\ page \in {"write", "pairs"}
    /\ now = Start /\ clock \in {Start - lag : lag \in Lags}
    /\ edits = 0
    /\ form = IF page = "write" THEN FirstSeries ELSE FirstGroup
    /\ reads = [win \in {"1d", "7d", "30d"} |-> Unknown]
    /\ wallet = [deployed |-> TRUE, connected |-> TRUE, usdc |-> Absent, free |-> 0]
    /\ touched = FALSE
    /\ submitted = Unknown /\ refused = Unknown

-----------------------------------------------------------------------------
(* The wizard *)

\* What the derivation is given.
Inputs ==
    LET read == reads[anchorWindow(form.tenorDays)]
    IN  [tenorDays |-> form.tenorDays, stance |-> form.stance, customVol |-> form.customVol,
         collateral |-> form.collateral, ov |-> form.ov, nowTs |-> clock,
         trailing |-> IF read \in {Unknown, Bad} THEN Absent ELSE read,
         pending |-> read = Unknown,
         wallet |-> IF wallet.usdc = Absent THEN Absent ELSE wallet.usdc + wallet.free]
Derived == deriveSeries(Inputs)

Edit(change) ==
    /\ submitted = Unknown
    /\ edits < MaxEdits /\ edits' = edits + 1
    /\ form' = change
    /\ UNCHANGED <<page, now, clock, reads, wallet, submitted, refused>>

SetTenor(days) == Edit([form EXCEPT !.tenorDays = days]) /\ UNCHANGED touched

\* Custom starts at the price shown so far.
onStance(s) ==
    /\ form.stance # s
    /\ s \notin Decisions(Inputs, Derived).disabled
    /\ Edit([form EXCEPT !.stance = s,
                                  !.customVol = IF s = "custom" /\ @ = Absent
                                                THEN sqrtWad(Derived.draft.anchorVariance) ELSE @])
    /\ UNCHANGED touched

\* Cleared, the price falls back to fair, if there is a trailing read.
onCustomVol(v) ==
    /\ Edit([form EXCEPT !.customVol = v,
                                  !.stance = IF v # Absent THEN "custom"
                                             ELSE IF Inputs.trailing # Absent THEN "fair" ELSE @])
    /\ UNCHANGED touched

onCollateral(v) == Edit([form EXCEPT !.collateral = v]) /\ touched' = TRUE

onMax ==
    /\ WriteTicket(Inputs, Derived, wallet, FALSE).offersMax
    /\ Edit([form EXCEPT !.collateral = MaxCollateral(Derived, wallet)])
    /\ touched' = TRUE

\* A lift replaces the slope typed before.
setOverride(k, v) ==
    /\ Edit([form EXCEPT !.ov = IF k = "selloutLiftBps"
                                         THEN [@ EXCEPT ![k] = v, !["impactPerUnit"] = Absent]
                                         ELSE [@ EXCEPT ![k] = v]])
    /\ UNCHANGED touched

resetAll ==
    /\ form.ov # NoOverrides
    /\ Edit([form EXCEPT !.ov = NoOverrides])
    /\ UNCHANGED touched

\* The effects of the page: nothing to price against, so the writer is to
\* name a level; and a first collateral, as long as none was named.
SwitchToCustom ==
    /\ submitted = Unknown
    /\ reads[anchorWindow(form.tenorDays)] = Bad /\ form.stance # "custom"
    /\ form' = [form EXCEPT !.stance = "custom", !.customVol = IF @ = Absent THEN Assumed ELSE @]
    /\ UNCHANGED <<page, now, clock, edits, reads, wallet, touched, submitted, refused>>

ProposeCollateral ==
    /\ submitted = Unknown
    /\ ~touched /\ wallet.usdc # Absent
    /\ \E pick \in {DefaultCollateral(Derived, wallet, Wanted)} :
          pick > 0 /\ pick # form.collateral /\ form' = [form EXCEPT !.collateral = pick]
    /\ UNCHANGED <<page, now, clock, edits, reads, wallet, touched, submitted, refused>>

ReadTrailing(v) ==
    LET win == anchorWindow(form.tenorDays) IN
    /\ submitted = Unknown
    /\ reads[win] = Unknown
    /\ reads' = [reads EXCEPT ![win] = v]
    /\ UNCHANGED <<page, now, clock, edits, form, wallet, touched, submitted, refused>>

ReadWallet(b) ==
    /\ submitted = Unknown
    /\ wallet.usdc = Absent
    /\ wallet' = [wallet EXCEPT !.usdc = b[1], !.free = b[2]]
    /\ UNCHANGED <<page, now, clock, edits, form, reads, touched, submitted, refused>>

WriteSeries ==
    /\ submitted = Unknown
    /\ WriteTicket(Inputs, Derived, wallet, FALSE).submits
    /\ submitted' = [terms |-> Derived.draft, at |-> now]
    /\ UNCHANGED <<page, now, clock, edits, form, reads, wallet, touched, refused>>

-----------------------------------------------------------------------------
(* The form of a paired market *)

SetField(k, v) ==
    Edit([form EXCEPT ![k] = v]) /\ UNCHANGED touched
SetQuote(k, side, v) ==
    Edit([form EXCEPT ![k][side] = v]) /\ UNCHANGED touched

WriteGroup ==
    /\ submitted = Unknown
    /\ CreateGroupForm(form, clock, wallet, FALSE).submits
    /\ submitted' = [terms |-> GroupTerms(form, clock), at |-> now]
    /\ UNCHANGED <<page, now, clock, edits, form, reads, wallet, touched, refused>>

-----------------------------------------------------------------------------
(* The chain *)

\* The creation is mined.
Create ==
    /\ submitted # Unknown /\ refused = Unknown
    /\ refused' = IF page = "write" THEN Refusals(submitted.terms, now)
                  ELSE GroupRefusals(submitted.terms, now)
    /\ UNCHANGED <<page, now, clock, edits, form, reads, wallet, touched, submitted>>

Tick ==
    /\ now < Start + MaxSteps * Step /\ refused = Unknown
    /\ now' = now + Step
    /\ clock' \in {now' - lag : lag \in Lags}
    /\ UNCHANGED <<page, edits, form, reads, wallet, touched, submitted, refused>>

WizardEdit ==
    \/ \E days \in Tenors : SetTenor(days)
    \/ \E s \in {"cheap", "fair", "rich", "custom"} : onStance(s)
    \/ \E v \in Volatilities : onCustomVol(v)
    \/ \E v \in Collaterals : onCollateral(v)
    \/ onMax
    \/ \E k \in OverrideKeys : \E v \in Typing[k] : setOverride(k, v)
    \/ resetAll

WizardStep ==
    \/ SwitchToCustom
    \/ ProposeCollateral
    \/ \E v \in Trailings : ReadTrailing(v)
    \/ \E b \in Balances : ReadWallet(b)
    \/ WriteSeries

GroupStep ==
    \/ \E k \in DOMAIN GroupTyping \ {"ask", "bid"} : \E v \in GroupTyping[k] : SetField(k, v)
    \/ \E k \in {"ask", "bid"}, side \in Side : \E v \in GroupTyping[k] : SetQuote(k, side, v)
    \/ WriteGroup

Next ==
    \/ page = "write" /\ (WizardEdit \/ WizardStep)
    \/ page = "pairs" /\ GroupStep
    \/ Create
    \/ Tick

Spec == Init /\ [][Next]_vars

-----------------------------------------------------------------------------
(* Properties *)

\* How long a submission took to be mined, and how old its clock may be.
Delay == now - submitted.at
MaxLag == CHOOSE lag \in Lags : \A other \in Lags : other <= lag

\* What the wizard lets through the controller accepts, but for three cases
\* that derive.ts leaves open: a half-life of the writer's own, a start of the
\* writer's own (a sale held open past the expiry, or over by the time it is
\* mined), and transactions before the creation that take until the sale is
\* over. That is with the start, five minutes away at least, for a sale that
\* ends there, and no less than a sample later for any other.
SeriesFormAccepted ==
    (page = "write" /\ refused # Unknown) =>
        /\ refused \subseteq {"BadHalfLife", "BadSaleEnd"}
        /\ "BadHalfLife" \in refused => form.ov["halfLifeHours"] # Absent
        /\ "BadSaleEnd" \in refused =>
            \/ form.ov["start"] # Absent
            \/ Delay + MaxLag > 300 + (IF form.ov["saleMode"] = "start" THEN 0
                                        ELSE submitted.terms.sampleInterval)

\* What the form of a paired market lets through the market accepts when the
\* window is a whole number of hours, 2 to 256, the cap at most 200 % of
\* volatility, every ask between nothing and S, and both the sale and the
\* window, at which it ends at the latest, are still open when the creation is
\* mined. The form itself checks none of these.
GroupFormAccepted ==
    (page = "pairs" /\ refused # Unknown) =>
        LET hours == Rounded(form.window) \div HOUR
        IN  (/\ Rounded(form.window) % HOUR = 0 /\ hours \in 2 .. 256
             /\ varianceFromVol(form.capVol) <= MAX_CAP_VARIANCE
             /\ \A s \in Side : form.ask[s] \in 1 .. form.capPayout
             /\ \A t \in {form.sale, form.window} : Rounded(t) >= HOUR + Delay + MaxLag)
            => refused = {}

\* A step of inventory is worth more than a ticket rounds up by.
StepsShow(p) ==
    (1 + TicketCut \div 2) * WAD * WAD <= UNITS_STEP * p.unitNotional * p.capVariance

\* What a form with the inputs in, and d derived from them, must keep to.
Promises(in, d) ==
    /\ d.valid =>
        /\ form.ov["maxUnits"] = Absent => d.committed <= form.collateral
        /\ form.ov["impactPerUnit"] = Absent => d.askAtSellOut <= d.draft.capVariance
        /\ wallet.usdc # Absent => WriteTicket(in, d, wallet, FALSE).topUp <= wallet.usdc
    /\ (wallet.usdc # Absent /\ form.ov["maxUnits"] = Absent /\ StepsShow(d.draft)) =>
            "short-balance" \notin
                SizePart([in EXCEPT !.collateral = MaxCollateral(d, wallet)],
                         d.draft.unitNotional, d.draft.capVariance).errors

\* What the page says of a valid form. "The committed amount never exceeds
\* what you type" (WriteWizard.tsx:321), the wallet and the free collateral
\* pay for it, selling it all is "a bounded, stated move" (AdvancedParams.tsx:
\* 369) that stays under the cap; and MAX never names more than there is, unless
\* the cap is so low that half a cent is worth a step of inventory: MAX then
\* rounds up to a collateral that the balance does not back.
FormKeepsPromises ==
    (page = "write" /\ submitted = Unknown) => Promises(Inputs, Derived)
=============================================================================
