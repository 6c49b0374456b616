SPECIFICATION TakerSpec
CONSTANTS
  Venues = {"series", "group"}
  MaxAmount = 3
  Prices = {2, 3, 4}
  MaxStock = 2
  SlipBase = 10
  Slip = 5
  Deadline = 0
  MaxMoves = 2
INVARIANTS
  NeverWorseThanQuoted
  AllowanceSuffices
  PartialMeansClamp
  QuoteCanFill
