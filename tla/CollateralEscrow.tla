-------------------------- MODULE CollateralEscrow --------------------------
(***************************************************************************)
(* What a maker vault promises, whatever is sold against it: collateral    *)
(* comes in, is reserved for the positions of several markets, is paid out *)
(* only against what a position releases, and leaves freely only above the *)
(* reservations.                                                           *)
(***************************************************************************)
EXTENDS Integers, FiniteSetsExt

CONSTANT Positions      \* the markets that share the collateral

VARIABLES
    balance,    \* collateral held
    reserved    \* position -> collateral reserved for it

vars == <<balance, reserved>>

Reserved == SumFunction(reserved)

Free == balance - Reserved

Init ==
    /\ balance \in Nat
    /\ reserved = [p \in Positions |-> 0]

Deposit ==
    /\ balance' > balance
    /\ UNCHANGED reserved

WithdrawFree ==
    /\ balance' < balance
    /\ balance - balance' <= Free
    /\ UNCHANGED reserved

\* More is reserved only out of what is free; a premium may come with it.
Reserve(p) ==
    \E amount \in 0..Free :
        /\ reserved' = [reserved EXCEPT ![p] = @ + amount]
        /\ balance' >= balance

\* A payment is covered by what its position releases.
Release(p) ==
    \E amount \in 0..reserved[p] :
        /\ reserved' = [reserved EXCEPT ![p] = @ - amount]
        /\ balance' \in (balance - amount)..balance

Next ==
    \/ Deposit
    \/ WithdrawFree
    \/ \E p \in Positions : Reserve(p) \/ Release(p)

Spec == Init /\ [][Next]_vars
=============================================================================
