SPECIFICATION Spec
CONSTANTS
  NoProposal = NoProposal
  NoRequest = NoRequest
  Proposals = {p1, p2}
  Requests = {r1, r2}
  AiFlags = {"flagged", "unavailable"}
  QtyInputs = {"absent", "positive"}
  MayReassess = TRUE
  Reruns = 1
SYMMETRY Symmetry
CHECK_DEADLOCK FALSE
INVARIANTS
  TypeOK
  OneRowPerDecision
  AnswersAreTrue
  ConflictMeansDecided
  OverridesAreExact
  WarningsHold
  TransactionInvariant
PROPERTIES
  HistoryIsFinal
  AllOrNothing
  LedgerIsImplemented
