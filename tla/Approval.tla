------------------------------ MODULE Approval ------------------------------
(***************************************************************************)
(* The approval queue of datasette/plugins/approval.py: the handlers       *)
(* approve_proposal and approve_all, the proposals and approvals tables    *)
(* of db/schema.sql, and the way Datasette runs the two.                   *)
(*                                                                         *)
(* Each request is a coroutine that may lose the processor at every await. *)
(* Reads run on a pool of threads and see the last committed state.  All   *)
(* writes run one after the other on a single write thread, in the order   *)
(* in which the handlers queued them; the function a handler queues opens  *)
(* a transaction with "with conn:", whose statements are steps of their    *)
(* own here, because the server can die, a statement can fail and another  *)
(* process can write between any two of them.                              *)
(*                                                                         *)
(* Proposals are inserted, and their risk and AI columns are refreshed, by *)
(* another process (the propose step, which the repository has only as a   *)
(* stub): Propose and Reassess stand for it.                               *)
(***************************************************************************)
EXTENDS Integers, Sequences, FiniteSets

CONSTANTS
  Proposals,      \* the proposal ids
  Requests,       \* the POSTs that reach the two handlers, one each
  NoProposal,     \* no proposal: nothing waits for its INSERT
  NoRequest,      \* no request: the write thread is idle
  AiFlags,        \* the values of ai_flag: 1 (flagged), 0 (clear), NULL (the
                  \* veto was unavailable)
  QtyInputs,      \* the forms modified_quantity may take in a POST
  MayReassess,    \* may the other process refresh a pending proposal?
  Reruns          \* how many times the other process may do so

QtyForms == {"absent", "text", "nonpositive", "positive", "nan"}

ASSUME ConstantsAssumption ==
  /\ IsFiniteSet(Proposals)
  /\ NoProposal \notin Proposals
  /\ NoRequest \notin Requests
  /\ AiFlags \subseteq {"flagged", "clear", "unavailable"}
  /\ "unavailable" \in AiFlags
  /\ QtyInputs \subseteq QtyForms
  /\ "absent" \in QtyInputs
  /\ MayReassess \in BOOLEAN
  /\ Reruns \in Nat

Decisions == {"APPROVE", "REJECT", "MODIFY"}

\* Mutant: a MODIFY is taken for an approval.
NewStatusOfModifyForgotten(decision) ==
  IF decision = "REJECT" THEN "REJECTED" ELSE "APPROVED"

\* new_status of approve_proposal; approve_all writes 'APPROVED' outright.
NewStatus(decision) ==
  CASE decision = "APPROVE" -> "APPROVED"
    [] decision = "REJECT"  -> "REJECTED"
    [] OTHER                -> "MODIFIED"

Decided == {"APPROVED", "REJECTED", "MODIFIED"}

\* The columns of a proposals row the handlers look at.  ABSENT: no such row.
ProposalRow ==
  [status      : Decided \cup {"ABSENT", "PENDING_APPROVAL"},
   risk_status : {"PASS", "REJECT"},
   ai_flag     : AiFlags]

NoRow == [status |-> "ABSENT", risk_status |-> "PASS", ai_flag |-> "unavailable"]

\* The columns of an approvals row.  The table's id, an AUTOINCREMENT key, is
\* the row's position; modified_quantity is NULL or a positive number; by, the
\* request that wrote the row, is there for the properties to speak of.
ApprovalRow ==
  [proposal_id       : Proposals,
   decision          : Decisions,
   modified_quantity : {"null", "positive"},
   override          : BOOLEAN,
   override_reason   : BOOLEAN,
   by                : Requests]

\* What a client may send.  A decision or a method the handlers do not take is
\* answered before anything is read.  A quantity matters with MODIFY only.
OtherMethod ==
  [handler |-> "other_method", proposal_id |-> NoProposal, decision |-> "APPROVE",
   override_reason |-> FALSE, modified_quantity |-> "absent"]

ApproveAll == [OtherMethod EXCEPT !.handler = "approve_all"]

ApproveInputs ==
  {i \in [handler           : {"approve"},
          proposal_id       : Proposals,
          decision          : Decisions \cup {"INVALID"},
          override_reason   : BOOLEAN,
          modified_quantity : QtyInputs] :
     /\ i.decision # "MODIFY" => i.modified_quantity = "absent"
     /\ i.decision = "INVALID" => ~ i.override_reason}

Inputs == ApproveInputs \cup {ApproveAll, OtherMethod}

Locations ==
  {"idle", "fetch", "check", "select", "enqueue", "queued", "writing",
   "respond", "count", "done", "lost"}

Codes == {"none", "200", "400", "403", "404", "405", "409", "500"}

VARIABLES
  proposals,      \* the committed proposals table
  approvals,      \* the committed approvals table, oldest row first
  pc,             \* where each handler is
  input,          \* what each client sent
  snapshot,       \* the row approve_proposal fetched
  ids,            \* the ids approve_all selected
  reply,          \* the status code each client got
  approved,       \* the counter of approve_all
  stillPending,   \* the count approve_all answers with
  writeQueue,     \* the write functions waiting for the write thread
  owner,          \* the request whose function the write thread runs
  todo,           \* the ids whose UPDATE this transaction has still to try
  flipped,        \* the id whose UPDATE hit and whose INSERT comes next
  locked,         \* has this transaction taken SQLite's write lock?
  workProposals,  \* the two tables as this transaction sees them, from
  workApprovals,  \* its first UPDATE until it commits or rolls back
  reruns          \* how many refreshes the other process has done

tables == <<proposals, approvals>>
work   == <<locked, workProposals, workApprovals>>
thread == <<writeQueue, owner, todo, flipped>>
local  == <<snapshot, ids, approved, stillPending>>
vars   == <<tables, work, thread, local, pc, input, reply, reruns>>

Init ==
  /\ proposals = [p \in Proposals |-> NoRow]
  /\ approvals = << >>
  /\ pc = [r \in Requests |-> "idle"]
  /\ input = [r \in Requests |-> OtherMethod]
  /\ snapshot = [r \in Requests |-> NoRow]
  /\ ids = [r \in Requests |-> {}]
  /\ reply = [r \in Requests |-> "none"]
  /\ approved = [r \in Requests |-> 0]
  /\ stillPending = [r \in Requests |-> 0]
  /\ writeQueue = << >>
  /\ owner = NoRequest
  /\ todo = {}
  /\ flipped = NoProposal
  /\ locked = FALSE
  /\ workProposals = [p \in Proposals |-> NoRow]
  /\ workApprovals = << >>
  /\ reruns = 0

-----------------------------------------------------------------------------
(* The guards of the code. *)

IsClean(row) ==
  /\ row.risk_status = "PASS"
  /\ row.ai_flag # "flagged"

\* WHERE status = 'PENDING_APPROVAL' AND risk_status = 'PASS' AND ai_flag ...
IsCleanPending(row) == row.status = "PENDING_APPROVAL" /\ IsClean(row)

\* Mutants: the flip forgets to look at the status, or at the risk verdict, or
\* it holds a risk rejection against a REJECT too.
DecideGuardWithoutStatus(decision, row) ==
  row.status # "ABSENT" /\ (decision = "REJECT" \/ row.risk_status # "REJECT")

DecideGuardWithoutRisk(decision, row) == row.status = "PENDING_APPROVAL"

DecideGuardRefusingReject(decision, row) ==
  row.status = "PENDING_APPROVAL" /\ row.risk_status # "REJECT"

\* The WHERE of the guarded flip in _decide.
DecideGuard(decision, row) ==
  /\ row.status = "PENDING_APPROVAL"
  /\ decision = "REJECT" \/ row.risk_status # "REJECT"

\* Mutant: approve_all does not check the flags again at write time.
WriteGuardOfStatusOnly(i, row) ==
  IF i.handler = "approve_all" THEN row.status = "PENDING_APPROVAL"
                               ELSE DecideGuard(i.decision, row)

\* The WHERE of the UPDATE that the write function of input i runs.
WriteGuard(i, row) ==
  IF i.handler = "approve_all" THEN IsCleanPending(row)
                               ELSE DecideGuard(i.decision, row)

\* Did the human deviate from what the system said in this row?
Override(decision, row) ==
  \/ decision = "APPROVE" /\ row.ai_flag = "flagged"
  \/ decision = "REJECT" /\ row.ai_flag # "flagged" /\ row.risk_status # "REJECT"
  \/ decision = "MODIFY"

\* float(modified_quantity) succeeds and "qty <= 0" is false: so it is of NaN.
QtyAccepted(qty) == qty \in {"positive", "nan"}

\* Mutant: the quantity is stored as it came, whatever the decision.
StoredAsSent(decision, qty) == qty

\* SQLite has no NaN: a bound NaN is stored as NULL.
Stored(decision, qty) ==
  IF decision = "MODIFY" /\ qty = "positive" THEN "positive" ELSE "null"

\* Mutant: nobody asks for the reason of an override.
VerdictWithoutReason(i, row) ==
  IF row.status = "ABSENT" THEN "404"
  ELSE IF row.status # "PENDING_APPROVAL" THEN "409"
  ELSE IF i.decision # "REJECT" /\ row.risk_status = "REJECT" THEN "403"
  ELSE IF i.decision = "MODIFY" /\ ~ QtyAccepted(i.modified_quantity) THEN "400"
  ELSE "200"

\* The refusals of approve_proposal, in the order of its early returns.
Verdict(i, row) ==
  IF row.status = "ABSENT" THEN "404"
  ELSE IF row.status # "PENDING_APPROVAL" THEN "409"
  ELSE IF i.decision # "REJECT" /\ row.risk_status = "REJECT" THEN "403"
  ELSE IF \/ Override(i.decision, row) /\ ~ i.override_reason
          \/ i.decision = "MODIFY" /\ ~ QtyAccepted(i.modified_quantity) THEN "400"
  ELSE "200"

-----------------------------------------------------------------------------
(* The handlers, on the event loop. *)

Answer(r, code) ==
  /\ pc' = [pc EXCEPT ![r] = "done"]
  /\ reply' = [reply EXCEPT ![r] = code]

Goto(r, loc) ==
  /\ pc' = [pc EXCEPT ![r] = loc]
  /\ UNCHANGED reply

\* The checks before the first await.
Receive(r) ==
  /\ pc[r] = "idle"
  /\ \E i \in Inputs :
       /\ input' = [input EXCEPT ![r] = i]
       /\ \/ i.handler = "other_method" /\ Answer(r, "405")
          \/ i.handler = "approve_all" /\ Goto(r, "select")
          \/ i.handler = "approve" /\ i.decision = "INVALID" /\ Answer(r, "400")
          \/ i.handler = "approve" /\ i.decision # "INVALID" /\ Goto(r, "fetch")
  /\ UNCHANGED <<tables, work, thread, local, reruns>>

FetchProposal(r) ==
  /\ pc[r] = "fetch"
  /\ snapshot' = [snapshot EXCEPT ![r] = proposals[input[r].proposal_id]]
  /\ Goto(r, "check")
  /\ UNCHANGED <<tables, work, thread, ids, approved, stillPending, input, reruns>>

\* Everything between the fetch and execute_write_fn looks at the snapshot.
CheckProposal(r) ==
  /\ pc[r] = "check"
  /\ LET verdict == Verdict(input[r], snapshot[r]) IN
       \/ /\ verdict # "200"
          /\ Answer(r, verdict)
          /\ UNCHANGED <<ids, thread>>
       \/ /\ verdict = "200"
          /\ ids' = [ids EXCEPT ![r] = {input[r].proposal_id}]
          /\ writeQueue' = Append(writeQueue, r)
          /\ Goto(r, "queued")
          /\ UNCHANGED <<owner, todo, flipped>>
  /\ UNCHANGED <<tables, work, snapshot, approved, stillPending, input, reruns>>

SelectClean(r) ==
  /\ pc[r] = "select"
  /\ ids' = [ids EXCEPT ![r] = {p \in Proposals : IsCleanPending(proposals[p])}]
  /\ Goto(r, "enqueue")
  /\ UNCHANGED <<tables, work, thread, snapshot, approved, stillPending, input, reruns>>

EnqueueApproveAll(r) ==
  /\ pc[r] = "enqueue"
  /\ writeQueue' = Append(writeQueue, r)
  /\ Goto(r, "queued")
  /\ UNCHANGED <<tables, work, owner, todo, flipped, local, input, reruns>>

\* The response of approve_proposal once its write function has returned.
Respond(r) ==
  /\ pc[r] = "respond"
  /\ Answer(r, "200")
  /\ UNCHANGED <<tables, work, thread, local, input, reruns>>

\* approve_all counts what is pending by now, in a read of its own.
CountPending(r) ==
  /\ pc[r] = "count"
  /\ stillPending' = [stillPending EXCEPT ![r] =
       Cardinality({p \in Proposals : proposals[p].status = "PENDING_APPROVAL"})]
  /\ Answer(r, "200")
  /\ UNCHANGED <<tables, work, thread, snapshot, ids, approved, input, reruns>>

\* A read can fail (Datasette interrupts slow queries): the handler answers 500.
ReadFails(r) ==
  /\ pc[r] \in {"fetch", "select", "count"}
  /\ Answer(r, "500")
  /\ UNCHANGED <<tables, work, thread, local, input, reruns>>

-----------------------------------------------------------------------------
(* The write thread. *)

CurProposals == IF locked THEN workProposals ELSE proposals
CurApprovals == IF locked THEN workApprovals ELSE approvals

\* The transaction is over, whichever way it went.
EndTransaction ==
  /\ owner' = NoRequest
  /\ todo' = {}
  /\ flipped' = NoProposal
  /\ locked' = FALSE
  /\ workProposals' = [p \in Proposals |-> NoRow]
  /\ workApprovals' = << >>

BeginWrite ==
  /\ owner = NoRequest
  /\ writeQueue # << >>
  /\ owner' = Head(writeQueue)
  /\ writeQueue' = Tail(writeQueue)
  /\ todo' = ids[Head(writeQueue)]
  /\ Goto(Head(writeQueue), "writing")
  /\ UNCHANGED <<tables, work, flipped, local, input, reruns>>

\* The UPDATE changes the row.  Its first execution takes the write lock.
FlipStatus(p) ==
  /\ owner # NoRequest /\ flipped = NoProposal /\ p \in todo
  /\ WriteGuard(input[owner], CurProposals[p])
  /\ workProposals' =
       [CurProposals EXCEPT ![p].status = NewStatus(input[owner].decision)]
  /\ workApprovals' = CurApprovals
  /\ locked' = TRUE
  /\ todo' = todo \ {p}
  /\ flipped' = p
  /\ UNCHANGED <<tables, writeQueue, owner, local, pc, input, reply, reruns>>

\* rowcount is 0 in approve_all: decided or changed since the read.
SkipRow(p) ==
  /\ owner # NoRequest /\ flipped = NoProposal /\ p \in todo
  /\ input[owner].handler = "approve_all"
  /\ ~ WriteGuard(input[owner], CurProposals[p])
  /\ workProposals' = CurProposals
  /\ workApprovals' = CurApprovals
  /\ locked' = TRUE
  /\ todo' = todo \ {p}
  /\ UNCHANGED <<tables, writeQueue, owner, flipped, local, pc, input, reply, reruns>>

\* Mutants: _AlreadyDecided is swallowed, or is lost on the write thread.
RefuseRowUnnoticed(p) ==
  /\ owner # NoRequest /\ flipped = NoProposal /\ p \in todo
  /\ input[owner].handler = "approve"
  /\ ~ WriteGuard(input[owner], CurProposals[p])
  /\ Answer(owner, "200")
  /\ EndTransaction
  /\ UNCHANGED <<tables, writeQueue, local, input, reruns>>

RefuseRowUnanswered(p) ==
  /\ owner # NoRequest /\ flipped = NoProposal /\ p \in todo
  /\ input[owner].handler = "approve"
  /\ ~ WriteGuard(input[owner], CurProposals[p])
  /\ EndTransaction
  /\ UNCHANGED <<tables, writeQueue, local, pc, input, reply, reruns>>

\* rowcount is 0 in approve_proposal: _AlreadyDecided, a rollback and a 409.
RefuseRow(p) ==
  /\ owner # NoRequest /\ flipped = NoProposal /\ p \in todo
  /\ input[owner].handler = "approve"
  /\ ~ WriteGuard(input[owner], CurProposals[p])
  /\ Answer(owner, "409")
  /\ EndTransaction
  /\ UNCHANGED <<tables, writeQueue, local, input, reruns>>

\* The approvals row approve_proposal, or approve_all, inserts for p.
RowOf(r, p) ==
  LET i == input[r] IN
    [proposal_id       |-> p,
     decision          |-> i.decision,
     modified_quantity |-> Stored(i.decision, i.modified_quantity),
     override          |-> i.handler = "approve" /\ Override(i.decision, snapshot[r]),
     override_reason   |-> i.override_reason,
     by                |-> r]

\* Mutant: "with conn:" is inside the loop, so that every row commits alone.
InsertApprovalCommits ==
  /\ owner # NoRequest /\ flipped # NoProposal
  /\ proposals' = workProposals
  /\ approvals' = Append(workApprovals, RowOf(owner, flipped))
  /\ locked' = FALSE
  /\ approved' = IF input[owner].handler = "approve_all"
                   THEN [approved EXCEPT ![owner] = @ + 1] ELSE approved
  /\ flipped' = NoProposal
  /\ UNCHANGED <<workProposals, workApprovals, writeQueue, owner, todo,
                 snapshot, ids, stillPending, pc, input, reply, reruns>>

InsertApproval ==
  /\ owner # NoRequest /\ flipped # NoProposal
  /\ workApprovals' = Append(workApprovals, RowOf(owner, flipped))
  /\ approved' = IF input[owner].handler = "approve_all"
                   THEN [approved EXCEPT ![owner] = @ + 1] ELSE approved
  /\ flipped' = NoProposal
  /\ UNCHANGED <<tables, locked, workProposals, writeQueue, owner, todo,
                 snapshot, ids, stillPending, pc, input, reply, reruns>>

Commit ==
  /\ owner # NoRequest /\ flipped = NoProposal /\ todo = {}
  /\ proposals' = CurProposals
  /\ approvals' = CurApprovals
  /\ Goto(owner, IF input[owner].handler = "approve_all" THEN "count" ELSE "respond")
  /\ EndTransaction
  /\ UNCHANGED <<writeQueue, local, input, reruns>>

\* Mutant: no "with conn:", hence no rollback of what is done already.
WriteFailsHalfway ==
  /\ owner # NoRequest
  /\ Answer(owner, "500")
  /\ proposals' = CurProposals
  /\ approvals' = CurApprovals
  /\ EndTransaction
  /\ UNCHANGED <<writeQueue, local, input, reruns>>

\* A statement or the COMMIT fails: "with conn:" rolls back, the handler
\* answers 500.
WriteFails ==
  /\ owner # NoRequest
  /\ Answer(owner, "500")
  /\ EndTransaction
  /\ UNCHANGED <<tables, writeQueue, local, input, reruns>>

-----------------------------------------------------------------------------
(* The server and the other process. *)

Active == {r \in Requests : pc[r] \notin {"idle", "done", "lost"}}

\* The server dies, or uvicorn --reload restarts it: what was not committed
\* is gone, and so is every answer that was still owed.
Crash ==
  /\ Active # {}
  /\ pc' = [r \in Requests |-> IF r \in Active THEN "lost" ELSE pc[r]]
  /\ writeQueue' = << >>
  /\ EndTransaction
  /\ UNCHANGED <<tables, local, input, reply, reruns>>

\* The propose step inserts a proposal.  It cannot while SQLite is locked.
Propose(p) ==
  /\ ~ locked
  /\ proposals[p].status = "ABSENT"
  /\ \E row \in ProposalRow :
       /\ row.status = "PENDING_APPROVAL"
       /\ proposals' = [proposals EXCEPT ![p] = row]
  /\ UNCHANGED <<approvals, work, thread, local, pc, input, reply, reruns>>

\* Another process refreshes the risk and AI columns of a pending proposal.
\* Both handlers are written to survive this ("decided or changed since the
\* read", "read stale data").
Reassess(p) ==
  /\ MayReassess /\ reruns < Reruns
  /\ ~ locked
  /\ proposals[p].status = "PENDING_APPROVAL"
  /\ \E row \in ProposalRow :
       /\ row.status = "PENDING_APPROVAL" /\ row # proposals[p]
       /\ proposals' = [proposals EXCEPT ![p] = row]
  /\ reruns' = reruns + 1
  /\ UNCHANGED <<approvals, work, thread, local, pc, input, reply>>

-----------------------------------------------------------------------------
Handler(r) ==
  \/ FetchProposal(r) \/ CheckProposal(r)
  \/ SelectClean(r) \/ EnqueueApproveAll(r)
  \/ Respond(r) \/ CountPending(r)

Statement(p) == FlipStatus(p) \/ SkipRow(p) \/ RefuseRow(p)

WriteThread ==
  \/ BeginWrite
  \/ \E p \in Proposals : Statement(p)
  \/ InsertApproval
  \/ Commit

Next ==
  \/ \E r \in Requests : Receive(r) \/ Handler(r) \/ ReadFails(r)
  \/ WriteThread
  \/ WriteFails
  \/ Crash
  \/ \E p \in Proposals : Propose(p) \/ Reassess(p)

Spec == Init /\ [][Next]_vars

\* The event loop runs every coroutine that can run, and the write thread
\* every function that is queued.  Nothing obliges clients, failures, crashes
\* or the other process to happen.
FairSpec ==
  /\ Spec
  /\ \A r \in Requests : WF_vars(Handler(r))
  /\ WF_vars(WriteThread)

-----------------------------------------------------------------------------
(* What is checked, and proved in the modules that extend this one. *)

TypeOK ==
  /\ proposals \in [Proposals -> ProposalRow]
  /\ approvals \in Seq(ApprovalRow)
  /\ pc \in [Requests -> Locations]
  /\ input \in [Requests -> Inputs]
  /\ snapshot \in [Requests -> ProposalRow]
  /\ ids \in [Requests -> SUBSET Proposals]
  /\ reply \in [Requests -> Codes]
  /\ approved \in [Requests -> Nat]
  /\ stillPending \in [Requests -> Nat]
  /\ writeQueue \in Seq(Requests)
  /\ owner \in Requests \cup {NoRequest}
  /\ todo \in SUBSET Proposals
  /\ flipped \in Proposals \cup {NoProposal}
  /\ locked \in BOOLEAN
  /\ workProposals \in [Proposals -> ProposalRow]
  /\ workApprovals \in Seq(ApprovalRow)
  /\ reruns \in 0 .. Reruns

RowsBy(r) == {k \in DOMAIN approvals : approvals[k].by = r}

\* Do a proposals table and an approvals table tell the same story?  Each row
\* is of the decision that its proposal's status names, no proposal has two,
\* and every decided proposal has one, but for the open one, whose UPDATE is
\* done and whose INSERT is to come.
Accounted(props, rows, open) ==
  /\ \A k \in DOMAIN rows :
       /\ props[rows[k].proposal_id].status = NewStatus(rows[k].decision)
       /\ rows[k].proposal_id # open
  /\ \A k, l \in DOMAIN rows :
       rows[k].proposal_id = rows[l].proposal_id => k = l
  /\ \A p \in Proposals \ {open} : props[p].status \in Decided =>
       \E k \in DOMAIN rows : rows[k].proposal_id = p

\* The committed tables tell the same story, whatever fails or dies between
\* the UPDATE and the INSERT (the "with conn:" of _decide and _approve_all).
OneRowPerDecision == Accounted(proposals, approvals, NoProposal)

\* May request r decide this row, as far as the risk engine and the AI veto go?
Allowed(r, decision, row) ==
  /\ decision # "REJECT" => row.risk_status # "REJECT"
  /\ input[r].handler = "approve_all" => IsClean(row)

AllAllowed(props, rows) ==
  \A k \in DOMAIN rows :
    Allowed(rows[k].by, rows[k].decision, props[rows[k].proposal_id])

\* No proposal that the risk engine rejects is ever approved or modified, and
\* approve_all never touches one that is flagged or rejected: not even when
\* the bad news arrives after the handler has read the row and before the
\* write thread runs (the WHERE clauses of _decide and _approve_all).
WarningsHold == AllAllowed(proposals, approvals)

\* The inductive invariant behind the two: they hold of the transaction's own
\* view of the tables as well, up to the row whose INSERT is to come, and that
\* view only adds to what is committed.
TransactionInvariant ==
  /\ OneRowPerDecision /\ WarningsHold
  /\ Accounted(CurProposals, CurApprovals, flipped)
  /\ AllAllowed(CurProposals, CurApprovals)
  /\ \A k \in DOMAIN approvals : pc[approvals[k].by] # "idle"
  /\ \A k \in DOMAIN CurApprovals : pc[CurApprovals[k].by] # "idle"
  /\ flipped # NoProposal =>
       LET decision == input[owner].decision IN
         /\ locked
         /\ CurProposals[flipped].status = NewStatus(decision)
         /\ Allowed(owner, decision, CurProposals[flipped])
  /\ locked =>
       /\ Len(approvals) <= Len(workApprovals)
       /\ \A k \in DOMAIN approvals : workApprovals[k] = approvals[k]
       /\ \A p \in Proposals :
            proposals[p].status \in Decided => workProposals[p] = proposals[p]

\* An answer can be relied upon.  A 200 of approve_proposal means that its own
\* row is there; a refusal or a 500 of approve_proposal that it wrote none; a
\* 200 of approve_all that it wrote exactly as many rows as it reports.  (A 500
\* of approve_all tells nothing: its last read may fail after the COMMIT.)
AnswersAreTrue ==
  \A r \in Requests :
    /\ input[r].handler = "approve" /\ reply[r] = "200" =>
         \E k \in RowsBy(r) : /\ approvals[k].proposal_id = input[r].proposal_id
                              /\ approvals[k].decision = input[r].decision
    /\ input[r].handler = "approve" /\ reply[r] \notin {"none", "200"} => RowsBy(r) = {}
    /\ input[r].handler = "approve_all" /\ reply[r] = "200" =>
         approved[r] = Cardinality(RowsBy(r))

\* As long as nobody has refreshed a pending row, a 409 tells the truth: the
\* proposal has been decided ("proposal already decided").
ConflictMeansDecided ==
  reruns = 0 =>
    \A r \in Requests : reply[r] = "409" =>
      proposals[input[r].proposal_id].status \in Decided

\* The record of deviations should be exact.  A row counts as an override when, and
\* only when, the human approved what was flagged, rejected what was clean or
\* changed the quantity, in terms of the row that stands in the table; and no
\* override lacks its reason ("Overrides are recorded, with a reason").
OverridesAreRecorded ==
  \A k \in DOMAIN approvals :
    LET row == approvals[k]
        prop == proposals[row.proposal_id] IN
      /\ row.override <=> \/ row.decision = "MODIFY"
                          \/ row.decision = "APPROVE" /\ prop.ai_flag = "flagged"
                          \/ row.decision = "REJECT" /\ IsClean(prop)
      /\ row.override => row.override_reason

\* It is, as long as nobody has refreshed a pending row: whichever requests
\* race, a row is counted by the verdict and the flag that the human was shown.
OverridesAreExact == reruns = 0 => OverridesAreRecorded

\* Every MODIFY row has a quantity (schema.sql: "set when decision='MODIFY'").
ModifyHasQuantity ==
  \A k \in DOMAIN approvals :
    approvals[k].decision = "MODIFY" => approvals[k].modified_quantity = "positive"

\* The history is append-only: a row of approvals is never changed, moved or
\* deleted, and a decision, once taken, is final.
HistoryIsFinal ==
  [][/\ Len(approvals) <= Len(approvals')
     /\ \A k \in DOMAIN approvals : approvals'[k] = approvals[k]
     /\ \A p \in Proposals : proposals[p].status \in Decided =>
          proposals'[p] = proposals[p]]_vars

\* approve_all is all or nothing: the rows of one request appear in one step,
\* and from that step on every id it selected has been decided or had, at
\* that moment, stopped being clean.
AllOrNothing ==
  [][\A r \in Requests : (RowsBy(r))' # RowsBy(r) =>
       /\ RowsBy(r) = {}
       /\ \A p \in ids[r] : ~ IsCleanPending(proposals'[p])]_vars

\* A client is never left waiting by the code: each request it took is
\* answered, unless the server dies.
EveryRequestAnswered ==
  \A r \in Requests : r \in Active ~> pc[r] \in {"done", "lost"}

\* The approval queue implements the ledger: the columns of the committed
\* tables are its variables, and every COMMIT is one of its decisions.
Ledger == INSTANCE DecisionLedger WITH
  status <- [p \in Proposals |-> proposals[p].status],
  risk   <- [p \in Proposals |-> proposals[p].risk_status],
  ledger <- {[proposal_id |-> approvals[k].proposal_id,
              decision    |-> approvals[k].decision] : k \in DOMAIN approvals}

LedgerIsImplemented == Ledger!LSpec
=============================================================================
