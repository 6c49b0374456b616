----------------------------- MODULE SwapRouter -----------------------------
(***************************************************************************)
(* The control skeleton of AquaSwapVMRouter.swap                           *)
(* (contracts/lib/swap-vm/src/SwapVM.sol).  A swap locks its order's hash, *)
(* runs the order's program, which fixes both amounts, and then makes two  *)
(* transfers, in an order the taker picks.  Before each transfer the taker *)
(* may be called back, and there it may call anything, other swaps         *)
(* included: swaps in flight form a stack.  A revert undoes everything     *)
(* since the swap began.                                                   *)
(***************************************************************************)
EXTENDS Integers, Sequences

CONSTANTS
    Callbacks,    \* the callback points at which takers do call out
    MaxDepth      \* bound on nested swaps (gas bounds it on chain)

Kinds == {"ISSUE", "EXIT", "SETTLE"}

\* <<kind, inFirst, stage>>: before the first or the second transfer of a
\* swap of this kind, taker's payment first (isFirstTransferFromTaker) or not.
CallbackPoints == Kinds \X BOOLEAN \X {"first", "second"}

ASSUME CallbacksAssumption == Callbacks \subseteq CallbackPoints
ASSUME MaxDepthAssumption == MaxDepth \in Nat

VARIABLE stack    \* the swaps in flight, innermost last

Top == stack[Len(stack)]
Below == SubSeq(stack, 1, Len(stack) - 1)

\* Contract code other than the router's next step runs only between
\* transactions or inside a taker callback.
Callable ==
    \/ stack = << >>
    \/ stack # << >> /\ <<Top.kind, Top.inFirst, Top.stage>> \in Callbacks

\* _reentrancyGuards[orderHash]: the order is executing.
Locked(g, kind, side) ==
    \E i \in 1..Len(stack) :
        stack[i].group = g /\ stack[i].kind = kind /\ stack[i].side = side

CanSwap(g, kind, side) ==
    /\ Callable
    /\ Len(stack) < MaxDepth
    /\ ~Locked(g, kind, side)

\* The swap is priced and its transfers are due.
EnterSwap(frame) == stack' = Append(stack, frame)

\* Which transfer the innermost swap makes next.
TransferInNext  == stack # << >> /\ (Top.inFirst <=> Top.stage = "first")
TransferOutNext == stack # << >> /\ (Top.inFirst <=> Top.stage = "second")

\* The transfer is done: on to the second one, or unlock and return.
TransferDone ==
    stack' = IF Top.stage = "first"
             THEN [stack EXCEPT ![Len(stack)].stage = "second"]
             ELSE Below

-----------------------------------------------------------------------------
(* Accounting for swaps in flight: how far their payments and burns are     *)
(* apart.  A market's frames save, with all a revert restores, its vault's  *)
(* balance and lockedQuote and the advance of the swaps below.              *)

\* The callback points between the burn of an exit or settlement and its
\* payment: there, the vault still holds tokens its lock no longer counts.
AfterBurn == {<<"EXIT", TRUE, "second">>, <<"SETTLE", TRUE, "second">>}

\* The quote a swap in flight has paid ahead of the burn, or owes after it.
Ahead(f) ==
    IF f.kind = "ISSUE" \/ f.stage = "first" THEN 0
    ELSE IF f.inFirst THEN -f.amountOut ELSE f.amountOut

\* When each swap in flight began, the vault was short by no more than the
\* swaps below had paid ahead, and adv is what they all have paid ahead.
Chained(stk, adv) ==
    /\ stk = << >> => adv = 0
    /\ \A i \in 1..Len(stk) :
        /\ stk[i].saved.advance >= 0
        /\ stk[i].saved.balance + stk[i].saved.advance >= stk[i].saved.lockedQuote
        /\ i = 1 => stk[i].saved.advance = 0
        /\ stk[i].saved.advance + Ahead(stk[i]) =
                IF i = Len(stk) THEN adv ELSE stk[i + 1].saved.advance
=============================================================================
