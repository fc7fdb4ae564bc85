SPECIFICATION FairSpec
CONSTANTS
  Symbols = {s1}
  NoSymbol = NoSymbol
  LastDay = 4
  Overlap = 2
  MaxStaleDays = 1
  MinBars = 2
  MaxVersion = 2
  MaxCrashes = 1
INVARIANTS
  TypeOK
  ManifestNeverAhead
  NoGaps
  GateStillHolds
  RestatementsArrive
PROPERTIES
  BarsAreKept
  ManifestHeals
