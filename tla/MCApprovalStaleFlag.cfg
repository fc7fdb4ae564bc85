SPECIFICATION Spec
CONSTANTS
  NoProposal = NoProposal
  NoRequest = NoRequest
  Proposals = {p1}
  Requests = {r1}
  AiFlags = {"flagged", "clear", "unavailable"}
  QtyInputs = {"absent", "positive"}
  MayReassess = TRUE
  Reruns = 1
CHECK_DEADLOCK FALSE
INVARIANTS
  OverridesAreRecorded
