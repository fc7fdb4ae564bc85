SPECIFICATION Spec
CONSTANTS
  NoProposal = NoProposal
  NoRequest = NoRequest
  Proposals = {p1}
  Requests = {r1}
  AiFlags = {"flagged", "clear", "unavailable"}
  QtyInputs = {"absent", "text", "nonpositive", "positive", "nan"}
  MayReassess = FALSE
  Reruns = 0
CHECK_DEADLOCK FALSE
INVARIANTS
  ModifyHasQuantity
