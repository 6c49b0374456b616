------------------------- MODULE MCSeriesController --------------------------
(***************************************************************************)
(* Small instances of SeriesController for TLC.                            *)
(***************************************************************************)
EXTENDS SeriesPages

\* Cap 3 over WAD = 2 rounds every reservation; at notional 2 a reserve rounded
\* down would not cover what finalization leaves of it.
Terms(notional, start, saleEnd, expiry) ==
    [start |-> start, saleEnd |-> saleEnd, expiry |-> expiry, notional |-> notional,
     cap |-> 3, slope |-> 1, maxUnits |-> 1]

TwoSeries == [s1 |-> Terms(2, 0, 0, 1), s2 |-> Terms(3, 1, 1, 2)]

\* Callbacks between two transfers, but for those after a burn.
SafeCallbacks == {c \in CallbackPoints \ AfterBurn : c[3] = "second"}
=============================================================================
