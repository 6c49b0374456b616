----------------------------- MODULE MakerVault -----------------------------
(***************************************************************************)
(* A writer's vault (contracts/src/TremorMakerVault.sol): the quote tokens *)
(* it holds and the part of them reserved for receipts already sold.  The  *)
(* quote token is external; all the vault sees of it is its own balance.   *)
(* Each operator is one vault function, as an action on the two variables  *)
(* it touches, so that a controller's handler is the conjunction of the    *)
(* calls it makes.                                                         *)
(***************************************************************************)
EXTENDS Integers

VARIABLES
    balance,       \* quoteBalance(): quote tokens owned by the vault
    lockedQuote    \* reserved for sold receipts, never withdrawable

FreeQuote == IF balance > lockedQuote THEN balance - lockedQuote ELSE 0

\* _assertSolvent, on the state the call leaves behind.
AssertSolvent == balance' >= lockedQuote'

Deposit(amount) ==
    /\ amount > 0
    /\ balance' = balance + amount
    /\ UNCHANGED lockedQuote

WithdrawFree(amount) ==
    /\ amount > 0
    /\ amount <= FreeQuote
    /\ balance' = balance - amount
    /\ UNCHANGED lockedQuote
    /\ AssertSolvent

IncreaseLocked(amount) ==
    /\ lockedQuote' = lockedQuote + amount
    /\ UNCHANGED balance
    /\ AssertSolvent

DecreaseLocked(amount) ==
    /\ amount <= lockedQuote
    /\ lockedQuote' = lockedQuote - amount
    /\ UNCHANGED balance
    /\ AssertSolvent

\* Aqua holds an unlimited allowance: a pull moves tokens out of the vault
\* without calling it, so nothing is asserted.
Pulled(amount) ==
    /\ amount <= balance
    /\ balance' = balance - amount
    /\ UNCHANGED lockedQuote

\* Tokens that reach the vault without a vault call: Aqua's push, and a
\* controller's transferFrom.
Pushed(amount) ==
    /\ balance' = balance + amount
    /\ UNCHANGED lockedQuote

VaultUnchanged == UNCHANGED <<balance, lockedQuote>>
=============================================================================
