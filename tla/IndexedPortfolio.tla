-------------------------- MODULE IndexedPortfolio ---------------------------
(***************************************************************************)
(* The portfolio market watched by the subgraph: the logs each transaction *)
(* of PortfolioMarket leaves, and the handlers of subgraph/src/portfolio.ts*)
(* that fold them, once it is mined, into one entity per group.  Terms and *)
(* timestamps are left out; of the event records, the units are kept as    *)
(* sums by type and side.                                                  *)
(***************************************************************************)
EXTENDS PortfolioMarket, SequencesExt

VARIABLES
    pending,    \* logs of the transaction in progress
    began,      \* what they were as each swap in flight began
    entity      \* group -> PortfolioGroup entity, for the groups indexed

indexed == <<pending, began, entity>>

EventTypes == {"issued", "exited", "settled", "worthless_burned"}

-----------------------------------------------------------------------------
(* Handlers *)

\* An event record's units, added to those of its type and side.
Recorded(record, type, e) == [record EXCEPT ![type][e.side] = @ + e.units]

\* Units leave a side; the reserve is as reported.
Reduced(x, type, e) ==
    [x EXCEPT !.outstanding[e.side] = @ - e.units,
              !.reserveLocked = e.reserveLocked,
              !.record = Recorded(x.record, type, e)]

NewEntity ==
    [outstanding |-> Zero, reserveLocked |-> 0, exitBuffer |-> 0, finalized |-> FALSE,
     ppu |-> Zero, record |-> [t \in EventTypes |-> Zero]]

HandleGroupCreated(d, e) ==
    [g \in DOMAIN d \cup {e.group} |-> IF g = e.group THEN NewEntity ELSE d[g]]

HandlePortfolioIssued(d, e) ==
    LET x == d[e.group] IN
    [d EXCEPT ![e.group] =
        [x EXCEPT !.outstanding = e.outstanding, !.reserveLocked = e.reserveLocked,
                  !.record = Recorded(x.record, "issued", e)]]

HandlePortfolioExited(d, e) ==
    LET x == Reduced(d[e.group], "exited", e) IN
    [d EXCEPT ![e.group] = [x EXCEPT !.exitBuffer = @ - e.bufferDrawn]]

HandlePortfolioSettled(d, e) ==
    [d EXCEPT ![e.group] = Reduced(d[e.group], "settled", e)]

\* The contract's own arithmetic, on the entity's units.
SideLiability(units, ppu) == (units * ppu) \div WAD

\* Mutant: what was released is taken for what remains.
HandleGroupFinalizedReleased(d, e) ==
    LET x == d[e.group] IN
    [d EXCEPT ![e.group] =
        [x EXCEPT !.finalized = TRUE, !.ppu = e.ppu, !.exitBuffer = 0,
                  !.reserveLocked = e.released]]

HandleGroupFinalized(d, e) ==
    LET x == d[e.group] IN
    [d EXCEPT ![e.group] =
        [x EXCEPT !.finalized = TRUE, !.ppu = e.ppu, !.exitBuffer = 0,
                  !.reserveLocked = SideLiability(x.outstanding["HIGH"], e.ppu["HIGH"])
                                      + SideLiability(x.outstanding["CALM"], e.ppu["CALM"])]]

HandleExitBufferFunded(d, e)    == [d EXCEPT ![e.group].exitBuffer = e.newBuffer]
HandleExitBufferWithdrawn(d, e) == [d EXCEPT ![e.group].exitBuffer = e.newBuffer]

HandleWorthlessBurned(d, e) ==
    LET x == d[e.group] IN
    [d EXCEPT ![e.group] =
        [x EXCEPT !.outstanding[e.side] = @ - e.units,
                  !.record = Recorded(x.record, "worthless_burned", e)]]

Handle(d, e) ==
    CASE e.event = "GroupCreated" -> HandleGroupCreated(d, e)
      [] e.event # "GroupCreated" /\ e.group \notin DOMAIN d -> d
      [] e.event # "GroupCreated" /\ e.group \in DOMAIN d ->
            CASE e.event = "PortfolioIssued"     -> HandlePortfolioIssued(d, e)
              [] e.event = "PortfolioExited"     -> HandlePortfolioExited(d, e)
              [] e.event = "PortfolioSettled"    -> HandlePortfolioSettled(d, e)
              [] e.event = "GroupFinalized"      -> HandleGroupFinalized(d, e)
              [] e.event = "ExitBufferFunded"    -> HandleExitBufferFunded(d, e)
              [] e.event = "ExitBufferWithdrawn" -> HandleExitBufferWithdrawn(d, e)
              [] e.event = "WorthlessBurned"     -> HandleWorthlessBurned(d, e)

Emit(events) ==
    IF stack' = << >>
    THEN pending' = << >> /\ entity' = FoldLeft(Handle, entity, pending \o events)
    ELSE pending' = pending \o events /\ UNCHANGED entity

\* A call logs its events as it returns.
Call(events) == Emit(events) /\ UNCHANGED began

\* A transfer may be the last of its swap.
Transferred(events) ==
    /\ Emit(events)
    /\ began' = IF Top.stage = "first" THEN began ELSE Front(began)

-----------------------------------------------------------------------------
(* What each step of the market logs *)

IssuedLog(f) ==
    IF f.kind # "ISSUE" THEN << >>
    ELSE <<[event |-> "PortfolioIssued", group |-> f.group, side |-> f.side,
            units |-> f.amountOut, outstanding |-> group'[f.group].outstanding,
            reserveLocked |-> group'[f.group].reserveLocked]>>

BurnLog(f) ==
    LET draw == group[f.group].exitBuffer - group'[f.group].exitBuffer
        burn == [event |-> IF f.kind = "EXIT" THEN "PortfolioExited" ELSE "PortfolioSettled",
                 group |-> f.group, side |-> f.side, units |-> f.amountIn,
                 reserveLocked |-> group'[f.group].reserveLocked, bufferDrawn |-> draw]
    IN  IF f.kind = "ISSUE" THEN << >> ELSE <<burn>>

FinalizedLog(g) ==
    <<[event |-> "GroupFinalized", group |-> g, ppu |-> group'[g].ppu,
       released |-> lockedQuote - lockedQuote']>>

BufferLog(kind, g) ==
    <<[event |-> kind, group |-> g, newBuffer |-> group'[g].exitBuffer]>>

GroupCall(g) ==
    \/ CreateGroup(g) /\ Call(<<[event |-> "GroupCreated", group |-> g]>>)
    \/ \E v \in Variances : Finalize(g, v) /\ Call(FinalizedLog(g))
    \/ \E a \in Amounts :
        \/ AllocateExitBuffer(g, a) /\ Call(BufferLog("ExitBufferFunded", g))
        \/ FundExitBuffer(g, a) /\ Call(BufferLog("ExitBufferFunded", g))
        \/ WithdrawExitBuffer(g, a) /\ Call(BufferLog("ExitBufferWithdrawn", g))

HolderCall(g, s) ==
    \/ \E u \in UnitAmounts :
        /\ BurnWorthless(g, s, u)
        /\ Call(<<[event |-> "WorthlessBurned", group |-> g, side |-> s, units |-> u]>>)
    \/ \E u \in StrayAmounts : ReceiptTransferToVault(g, s, u) /\ Call(<< >>)

IndexedInit == Init /\ pending = << >> /\ began = << >> /\ entity = << >>

IndexedNext ==
    \/ \E g \in Groups : GroupCall(g) \/ \E s \in Sides : HolderCall(g, s)
    \/ \E a \in Amounts : (VaultDeposit(a) \/ VaultWithdrawFree(a)) /\ Call(<< >>)
    \/ SwapCall /\ Emit(IssuedLog(stack'[Len(stack')])) /\ began' = Append(began, pending)
    \/ TransferIn /\ Transferred(BurnLog(Top))
    \/ TransferOut /\ Transferred(<< >>)
    \/ Revert /\ pending' = Last(began) /\ began' = Front(began) /\ UNCHANGED entity
    \/ Tick /\ UNCHANGED indexed

IndexedSpec == IndexedInit /\ [][IndexedNext]_<<vars, indexed>>

-----------------------------------------------------------------------------
(* Property *)

\* Once a transaction is over the entities are the ledger: the outstanding
\* units, reserves and buffers the handlers fold, some from absolute figures,
\* some from deltas and one recomputed at finalization, are the contract's,
\* and the event records add up to what is outstanding.
SubgraphIsLedger ==
    stack = << >> =>
        /\ DOMAIN entity = {g \in Groups : group[g].created}
        /\ \A g \in DOMAIN entity :
            /\ entity[g].outstanding = group[g].outstanding
            /\ entity[g].reserveLocked = group[g].reserveLocked
            /\ entity[g].exitBuffer = group[g].exitBuffer
            /\ entity[g].finalized = group[g].finalized
            /\ entity[g].ppu = group[g].ppu
            /\ \A s \in Sides :
                entity[g].outstanding[s] =
                    entity[g].record["issued"][s] - entity[g].record["exited"][s]
                      - entity[g].record["settled"][s]
                      - entity[g].record["worthless_burned"][s]
=============================================================================
