SPECIFICATION Spec
CONSTANTS
  Symbols = {s1}
  NoSymbol = NoSymbol
  LastDay = 3
  Overlap = 1
  MaxStaleDays = 1
  MinBars = 2
  MaxVersion = 2
  MaxCrashes = 0
INVARIANTS
  HistoryIsImmutable
