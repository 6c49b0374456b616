SPECIFICATION WriterSpec
CONSTANTS
  t1 = t1
  t2 = t2
  Tabs <- MCTabs
  Sessions <- AllPages
  Need = 2
  LastHour = 1
  MaxTxs = 4
  Timeouts = TRUE
  ReloadAt = {"await"}
INVARIANTS
  ResumesNotRepeats
  OnlyShortfallPulled
  ResultIsReal
PROPERTY
  FlowEnds
CHECK_DEADLOCK FALSE
