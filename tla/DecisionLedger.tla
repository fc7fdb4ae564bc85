--------------------------- MODULE DecisionLedger ---------------------------
(***************************************************************************)
(* What the approval queue promises, without handlers, threads or          *)
(* transactions: a table of proposals and a ledger of the decisions taken  *)
(* on them.  A decision, or a bulk decision, is one atomic step.  It takes *)
(* pending proposals only, never approves one the risk engine rejects,     *)
(* enters each proposal it decides in the ledger, and is never revised.    *)
(***************************************************************************)

CONSTANT Proposals

Outcomes == [APPROVE |-> "APPROVED", REJECT |-> "REJECTED", MODIFY |-> "MODIFIED"]

VARIABLES
  status,   \* of each proposal: ABSENT, PENDING_APPROVAL or an outcome
  risk,     \* PASS or REJECT, for each proposal
  ledger    \* the decisions taken

ledgerVars == <<status, risk, ledger>>

LInit ==
  /\ status = [p \in Proposals |-> "ABSENT"]
  /\ risk = [p \in Proposals |-> "PASS"]
  /\ ledger = {}

\* A proposal appears, and its risk verdict may change while it is pending.
Assess(p) ==
  /\ status[p] \in {"ABSENT", "PENDING_APPROVAL"}
  /\ status' = [status EXCEPT ![p] = "PENDING_APPROVAL"]
  /\ \E verdict \in {"PASS", "REJECT"} : risk' = [risk EXCEPT ![p] = verdict]
  /\ UNCHANGED ledger

\* The proposals of S are decided together, p by the decision d[p].
Decide(S, d) ==
  /\ \A p \in S : /\ status[p] = "PENDING_APPROVAL"
                  /\ d[p] # "REJECT" => risk[p] # "REJECT"
  /\ status' = [p \in Proposals |-> IF p \in S THEN Outcomes[d[p]] ELSE status[p]]
  /\ ledger' = ledger \cup {[proposal_id |-> p, decision |-> d[p]] : p \in S}
  /\ UNCHANGED risk

LNext ==
  \/ \E p \in Proposals : Assess(p)
  \/ \E S \in SUBSET Proposals : \E d \in [S -> DOMAIN Outcomes] : Decide(S, d)

LSpec == LInit /\ [][LNext]_ledgerVars
=============================================================================
