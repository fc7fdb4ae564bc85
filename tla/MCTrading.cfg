SPECIFICATION Spec
CONSTANTS
  Processes = {p1, p2}
  Files <- MCFiles
  Overrides <- MCOverrides
  Unset = Unset
  Root <- MCRoot
  Directories <- MCDirectories
  MaxEdits = 2
  Prices = {1, 5, 10, 1500, 10004}
  Quantities <- MCQuantities
  Symbols <- MCSymbols
INVARIANTS
  TypeOK
  ConfigsAreUsable
  OneConfigPerProcess
  OneDatabase
  LimitsAreMarketable
  PositionsAgree
