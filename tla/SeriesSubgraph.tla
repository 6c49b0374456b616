--------------------------- MODULE SeriesSubgraph ----------------------------
(***************************************************************************)
(* What the subgraph (subgraph/src) makes of the v2 contracts' logs: one   *)
(* handler per event, folding it into the entities a client queries.  The  *)
(* graph node runs the handlers of a transaction once it is mined, in log  *)
(* order; a data source created by a handler sees the whole block of its   *)
(* creation, so no log of a new vault or receipt is missed.                *)
(*                                                                         *)
(* A receipt token stands for its series, an order hash for series and     *)
(* leg.  Terms, timestamps and the immutable per-log records are left out, *)
(* but fills are kept as sums per series and leg.                          *)
(***************************************************************************)
EXTENDS Integers, Sequences, SequencesExt

Legs == {"ISSUE", "EXIT", "SETTLE"}

VARIABLES
    log,        \* the logs of the transaction in progress
    entities    \* the store the handlers write

NoVault == [created |-> FALSE, totalDeposited |-> 0, totalWithdrawn |-> 0,
            lastReportedBalance |-> 0, lastReportedLocked |-> 0, actions |-> {}]

NoEntities ==
    [vault |-> NoVault, series |-> << >>, order |-> << >>, fills |-> << >>,
     balance |-> << >>, finalization |-> << >>]

Known(d, e) == e.series \in DOMAIN d.series

\* An entity saved in a table, new or again.
With(table, id, entity) ==
    [i \in DOMAIN table \cup {id} |-> IF i = id THEN entity ELSE table[i]]

-----------------------------------------------------------------------------
(* controller.ts *)

HandleVaultCreated(d, e) == [d EXCEPT !.vault = [NoVault EXCEPT !.created = TRUE]]

SaveOrder(d, s, leg) ==
    [d EXCEPT !.order = With(d.order, <<s, leg>>, [series |-> s, leg |-> leg]),
              !.fills = With(d.fills, <<s, leg>>, [units |-> 0, quote |-> 0])]

NewSeries(start) ==
    [unitsIssued |-> 0, unitsExited |-> 0, unitsSettled |-> 0, unitsBurned |-> 0,
     premiumCollected |-> 0, exitPaid |-> 0, settlementPaid |-> 0,
     outstanding |-> 0, locked |-> 0, processedThrough |-> start,
     stopped |-> FALSE, closed |-> FALSE]

HandleSeriesCreated(d, e) ==
    LET new == [d EXCEPT !.series = With(d.series, e.series, NewSeries(e.start))]
    IN  SaveOrder(SaveOrder(SaveOrder(new, e.series, "ISSUE"),
                            e.series, "EXIT"), e.series, "SETTLE")

HandleIssued(d, e) ==
    LET x == d.series[e.series] IN
    [d EXCEPT !.series[e.series] =
        [x EXCEPT !.unitsIssued = @ + e.units, !.premiumCollected = @ + e.quote,
                  !.outstanding = e.newOutstanding, !.locked = e.newLocked]]

HandleExited(d, e) ==
    LET x == d.series[e.series] IN
    [d EXCEPT !.series[e.series] =
        [x EXCEPT !.unitsExited = @ + e.units, !.exitPaid = @ + e.quote,
                  !.outstanding = e.newOutstanding, !.locked = e.newLocked]]

HandleSettled(d, e) ==
    LET x == d.series[e.series] IN
    [d EXCEPT !.series[e.series] =
        [x EXCEPT !.unitsSettled = @ + e.units, !.settlementPaid = @ + e.quote,
                  !.outstanding = e.newOutstanding, !.locked = e.newLocked]]

\* Mutant: the burn is recorded, what is outstanding is not.
HandleWorthlessBurnedOnly(d, e) ==
    [d EXCEPT !.series[e.series].unitsBurned = @ + e.units]

HandleWorthlessBurned(d, e) ==
    LET x == d.series[e.series] IN
    [d EXCEPT !.series[e.series] =
        [x EXCEPT !.unitsBurned = @ + e.units, !.outstanding = @ - e.units]]

HandleFinalized(d, e) ==
    LET x == d.series[e.series] IN
    [d EXCEPT !.finalization = With(d.finalization, e.series,
                                    [ppu |-> e.ppu, outstanding |-> e.outstanding]),
              !.series[e.series] = [x EXCEPT !.locked = @ - e.released]]

HandleIssuanceStopped(d, e) ==
    LET x == d.series[e.series] IN
    [d EXCEPT !.series[e.series] = [x EXCEPT !.stopped = TRUE]]

HandleSeriesClosed(d, e) ==
    LET x == d.series[e.series] IN
    [d EXCEPT !.series[e.series] = [x EXCEPT !.closed = TRUE, !.locked = 0]]

-----------------------------------------------------------------------------
(* vault.ts: each event is an action of the trail, of which only those with *)
(* a reference are kept; what it reports replaces what is stored.          *)

Record(d, e) ==
    LET v == d.vault IN
    IF ~v.created THEN d
    ELSE [d EXCEPT !.vault =
            [v EXCEPT
                !.lastReportedBalance =
                    IF "balance" \in DOMAIN e THEN e.balance ELSE v.lastReportedBalance,
                !.lastReportedLocked =
                    IF "locked" \in DOMAIN e THEN e.locked ELSE v.lastReportedLocked,
                !.actions = IF "reference" \in DOMAIN e
                            THEN v.actions \union {<<e.event, e.reference>>} ELSE v.actions]]

HandleDeposited(d, e) ==
    LET v == d.vault IN
    Record(IF v.created THEN [d EXCEPT !.vault = [v EXCEPT !.totalDeposited = @ + e.amount]] ELSE d, e)

HandleFreeWithdrawn(d, e) ==
    LET v == d.vault IN
    Record(IF v.created THEN [d EXCEPT !.vault = [v EXCEPT !.totalWithdrawn = @ + e.amount]] ELSE d, e)

HandleLockedIncreased(d, e)   == Record(d, e)
HandleLockedDecreased(d, e)   == Record(d, e)
HandleReceiptRegistered(d, e) == Record(d, e)
HandleStrategyShipped(d, e)   == Record(d, e)
HandleStrategyDocked(d, e)    == Record(d, e)

-----------------------------------------------------------------------------
(* receipt.ts, router.ts, accumulator.ts *)

\* Mutant: an account's balance starts at zero with every transfer.
BalanceAfresh(d, s, account) == 0

\* An account's balance, zero before its first transfer.
BalanceFor(d, s, account) ==
    IF <<s, account>> \in DOMAIN d.balance THEN d.balance[<<s, account>>] ELSE 0

Moved(d, s, account, units) ==
    IF account = "zero" THEN d
    ELSE [d EXCEPT !.balance =
            With(d.balance, <<s, account>>, BalanceFor(d, s, account) + units)]

HandleReceiptTransfer(d, e) ==
    Moved(Moved(d, e.series, e.from, -e.amount), e.series, e.to, e.amount)

\* Units are the receipt side, whichever way the leg runs.
FillOf(leg, in, out) ==
    IF leg = "ISSUE" THEN [units |-> out, quote |-> in]
    ELSE [units |-> in, quote |-> out]

HandleSwapped(d, e) ==
    IF <<e.series, e.leg>> \notin DOMAIN d.order THEN d
    ELSE LET fill == FillOf(d.order[<<e.series, e.leg>>].leg, e.amountIn, e.amountOut)
             sum  == d.fills[<<e.series, e.leg>>]
         IN  [d EXCEPT !.fills[<<e.series, e.leg>>] =
                [units |-> sum.units + fill.units, quote |-> sum.quote + fill.quote]]

HandleCheckpointed(d, e) ==
    LET x == d.series[e.series] IN
    [d EXCEPT !.series[e.series] = [x EXCEPT !.processedThrough = e.processedThrough]]

-----------------------------------------------------------------------------
(* subgraph.yaml: which handler an event goes to. *)

HandleVaultEvent(d, e) ==
    CASE e.event = "Deposited"         -> HandleDeposited(d, e)
      [] e.event = "FreeWithdrawn"     -> HandleFreeWithdrawn(d, e)
      [] e.event = "LockedIncreased"   -> HandleLockedIncreased(d, e)
      [] e.event = "LockedDecreased"   -> HandleLockedDecreased(d, e)
      [] e.event = "ReceiptRegistered" -> HandleReceiptRegistered(d, e)
      [] e.event = "StrategyShipped"   -> HandleStrategyShipped(d, e)
      [] e.event = "StrategyDocked"    -> HandleStrategyDocked(d, e)

\* A series event finds its series in the store, or is dropped.
HandleSeriesEvent(d, e) ==
    CASE e.event = "Issued"          -> HandleIssued(d, e)
      [] e.event = "Exited"          -> HandleExited(d, e)
      [] e.event = "Settled"         -> HandleSettled(d, e)
      [] e.event = "WorthlessBurned" -> HandleWorthlessBurned(d, e)
      [] e.event = "Finalized"       -> HandleFinalized(d, e)
      [] e.event = "IssuanceStopped" -> HandleIssuanceStopped(d, e)
      [] e.event = "SeriesClosed"    -> HandleSeriesClosed(d, e)
      [] e.event = "Transfer"        -> HandleReceiptTransfer(d, e)
      [] e.event = "Checkpointed"    -> HandleCheckpointed(d, e)

Handle(d, e) ==
    CASE e.source = "vault"         -> HandleVaultEvent(d, e)
      [] e.event = "VaultCreated"   -> HandleVaultCreated(d, e)
      [] e.event = "SeriesCreated"  -> HandleSeriesCreated(d, e)
      [] e.event = "Swapped"        -> HandleSwapped(d, e)
      [] OTHER                      -> IF Known(d, e) THEN HandleSeriesEvent(d, e) ELSE d

\* Logs of a transaction that is not over; the last one has it indexed.
Emit(events, over) ==
    LET all == log \o events IN
    IF over THEN /\ log' = << >>
                 /\ entities' = FoldLeft(Handle, entities, all)
            ELSE log' = all /\ UNCHANGED entities
=============================================================================
