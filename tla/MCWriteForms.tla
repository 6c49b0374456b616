----------------------------- MODULE MCWriteForms -----------------------------
(***************************************************************************)
(* Small instances of WriteForms for TLC: one unit and a variance of one   *)
(* are 100, so volatilities are in percent and a step of inventory is 1.   *)
(* The page opens ten minutes before midnight of the tenth day, so that    *)
(* its clock falls on both sides of a full hour.                           *)
(***************************************************************************)
EXTENDS WriteForms

MCStart == 10 * DAY - 600

MCTyping ==
    [start |-> {MCStart - 30 * DAY, MCStart + 1, Bad}, tenorDays |-> {2, 300, Bad},
     sampleInterval |-> {1800, 86400}, saleMode |-> {"start", "expiry"},
     unitNotional |-> {20000, 0}, capVolPct |-> {30, 200, 300}, halfSpreadBps |-> {10, 200, 900},
     selloutLiftBps |-> {250, 10000}, impactPerUnit |-> {3, 500},
     halfLifeHours |-> {0, 1000}, maxUnits |-> {50, 200}]

MCGroupTyping ==
    [window |-> {Bad, 1, 18000, 70 * DAY + 18000, 110 * DAY}, sale |-> {0, 1, 18000, 72000},
     capVol |-> {5, 250}, capPayout |-> {Bad, 5}, maxUnits |-> {0, 1},
     ask |-> {0, 4, 11}, bid |-> {0, 5}]

MCBalances == {<<0, 0>>, <<0, 7001>>, <<3999, 0>>, <<9000, 20000>>}
=============================================================================
