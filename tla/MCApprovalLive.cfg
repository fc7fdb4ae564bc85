SPECIFICATION FairSpec
CONSTANTS
  NoProposal = NoProposal
  NoRequest = NoRequest
  Proposals = {p1}
  Requests = {r1, r2}
  AiFlags = {"flagged", "unavailable"}
  QtyInputs = {"absent", "positive"}
  MayReassess = FALSE
  Reruns = 0
CHECK_DEADLOCK FALSE
PROPERTIES
  EveryRequestAnswered
