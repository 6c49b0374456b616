-------------------------- MODULE MCPortfolioMarket --------------------------
(***************************************************************************)
(* Small instances of PortfolioMarket for TLC.                             *)
(***************************************************************************)
EXTENDS PortfolioMarket

MCWad == 2

\* S = 3 and WAD = 2 round on every odd amount.
GroupOf(maxUnits, saleEnd, expiry) ==
    [saleEnd |-> saleEnd, expiry |-> expiry, capVariance |-> 2,
     capPayoutPerUnit |-> 3, maxUnitsPerSide |-> maxUnits,
     ask |-> [HIGH |-> 3, CALM |-> 2], bid |-> [HIGH |-> 2, CALM |-> 1]]

\* One group whose sale ends before it expires.
OneGroup == [g1 |-> GroupOf(3, 0, 1)]

\* One group, for swaps nested in callbacks; it sells until the very instant
\* it expires.
NestedGroup == [g1 |-> GroupOf(2, 1, 1)]

AllCallbacks == CallbackPoints
NoCallbacks == {}

\* Every callback point but the one between the burn and the payment.
SafeCallbacks == CallbackPoints \ AfterBurn
=============================================================================
