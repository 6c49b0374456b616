SPECIFICATION WriterSpec
CONSTANTS
  t1 = t1
  t2 = t2
  Tabs <- MCTabs
  Sessions <- WritePage
  Need = 2
  LastHour = 1
  MaxTxs = 4
  Timeouts = TRUE
  ReloadAt = {"await"}
INVARIANTS
  NoSecondSeries
