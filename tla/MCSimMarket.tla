---------------------------- MODULE MCSimMarket -----------------------------
(***************************************************************************)
(* Small instances of SimMarket for TLC.                                   *)
(***************************************************************************)
EXTENDS SimMarket

\* Notional 2 and cap 7 over WAD = 4 round every reservation and price; the
\* skew halves every step, and the sale ends before the window does.
Market(maxUnits, anchor) ==
    [saleEnd |-> 1, notional |-> 2, cap |-> 7, anchor |-> anchor, impact |-> 3,
     halfLife |-> 1, spread |-> 1, maxUnits |-> maxUnits]

MCParams == [main |-> Market(8, 2), sib |-> Market(4, 2)]
=============================================================================
