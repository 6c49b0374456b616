------------------------- MODULE MCIndexedPortfolio --------------------------
(***************************************************************************)
(* Two groups of one vault, indexed and shown.                             *)
(***************************************************************************)
EXTENDS MCPortfolioMarket, GroupPages

\* Two units a side in one, one in the other, which still sells at its expiry.
ShownGroups == [g1 |-> GroupOf(2, 0, 1), g2 |-> GroupOf(1, 1, 1)]
=============================================================================
