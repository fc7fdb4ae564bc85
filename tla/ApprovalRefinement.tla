------------------------- MODULE ApprovalRefinement -------------------------
(***************************************************************************)
(* Approval implements DecisionLedger, and approve_all is all or nothing,  *)
(* for any number of proposals and requests.                               *)
(*                                                                         *)
(* Both are about the one step that matters, Commit: what the transaction  *)
(* sees is a draft of the next committed tables.  It differs from them by  *)
(* decisions on proposals that were pending, all of them by the request    *)
(* whose function the write thread runs, which has written nothing before. *)
(***************************************************************************)
EXTENDS ApprovalProofs

\* Where a request may be that has written a row.
Past == {"respond", "count", "done", "lost"}

\* A request is in the queue at most once, and owes its answer until its
\* transaction is over.
Seated ==
  /\ \A i \in DOMAIN writeQueue : pc[writeQueue[i]] = "queued"
  /\ \A i, j \in DOMAIN writeQueue : writeQueue[i] = writeQueue[j] => i = j
  /\ owner # NoRequest => pc[owner] = "writing"
  /\ locked => owner # NoRequest
  /\ \A k \in DOMAIN approvals : pc[approvals[k].by] \in Past

\* The next row of the proposals table may become this one.
DraftOf(row, new) ==
  \/ new = row
  \/ /\ row.status = "PENDING_APPROVAL" /\ new.status \in Decided
     /\ new.risk_status = row.risk_status

\* The transaction's view is a draft by its owner, complete for the ids whose
\* UPDATE has been tried.
Draft ==
  /\ locked => \A p \in Proposals : DraftOf(proposals[p], workProposals[p])
  /\ \A k \in DOMAIN CurApprovals \ DOMAIN approvals : CurApprovals[k].by = owner
  /\ owner # NoRequest =>
       /\ ~ locked => todo = ids[owner]
       /\ \A p \in ids[owner] \ todo : ~ IsCleanPending(CurProposals[p])

RInv == IInv /\ Seated /\ Draft

LEMMA RInvInit == Init => RInv
  <1> SUFFICES ASSUME Init PROVE RInv
    OBVIOUS
  <1>1. /\ DOMAIN writeQueue = {} /\ DOMAIN approvals = {} /\ owner = NoRequest /\ ~ locked
        /\ CurApprovals = approvals
    BY DEF Init, CurApprovals
  <1> QED
    BY <1>1, InvInit DEF RInv, Seated, Draft

-----------------------------------------------------------------------------
(* Seated is kept. *)

\* Who wrote a row is Past.
LEMMA NotInThePast ==
  ASSUME RInv, NEW r \in Requests, pc[r] \notin Past
  PROVE  \A k \in DOMAIN approvals : approvals[k].by \in Requests \ {r}
  BY Tables DEF RInv, Seated

\* A request that is neither queued nor writing moves on, and not out of Past.
LEMMA SeatedMove ==
  ASSUME RInv, NEW r \in Requests, NEW loc, pc' = [pc EXCEPT ![r] = loc],
         pc[r] \notin {"queued", "writing"}, pc[r] \in Past => loc \in Past,
         UNCHANGED <<approvals, locked, writeQueue, owner>>
  PROVE  Seated'
  <1>1. /\ \A q \in Requests \ {r} : pc'[q] = pc[q]
        /\ pc'[r] = loc
        /\ \A i \in DOMAIN writeQueue : writeQueue[i] \in Requests \ {r}
        /\ owner # NoRequest => owner \in Requests \ {r}
        /\ \A k \in DOMAIN approvals : approvals[k].by \in Requests
    BY Tables DEF RInv, IInv, Types, TypeOK, Seated
  <1> QED
    BY <1>1 DEF RInv, Seated

\* A request that has no place yet takes the last one in the queue.
LEMMA SeatedEnqueue ==
  ASSUME RInv, NEW r \in Requests, pc' = [pc EXCEPT ![r] = "queued"],
         pc[r] \in {"check", "enqueue"}, writeQueue' = Append(writeQueue, r),
         UNCHANGED <<approvals, locked, owner>>
  PROVE  Seated'
  <1>1. /\ \A q \in Requests \ {r} : pc'[q] = pc[q]
        /\ pc'[r] = "queued"
        /\ \A i \in DOMAIN writeQueue : writeQueue[i] \in Requests \ {r}
        /\ owner # NoRequest => owner \in Requests \ {r}
    BY DEF RInv, IInv, Types, TypeOK, Seated
  <1>2. \A k \in DOMAIN approvals : approvals[k].by \in Requests \ {r}
    BY NotInThePast DEF Past
  <1>3. /\ DOMAIN writeQueue' = DOMAIN writeQueue \cup {Len(writeQueue) + 1}
        /\ writeQueue'[Len(writeQueue) + 1] = r
        /\ \A k \in DOMAIN writeQueue : writeQueue'[k] = writeQueue[k]
    BY AppendElements DEF RInv, IInv, Types, TypeOK
  <1> QED
    BY <1>1, <1>2, <1>3 DEF RInv, Seated

\* The first of the queue gets the write thread, which is free.
LEMMA SeatedBegin ==
  ASSUME RInv, BeginWrite
  PROVE  Seated'
  <1> DEFINE r == Head(writeQueue)
  <1>1. /\ r \in Requests /\ 1 \in DOMAIN writeQueue /\ r = writeQueue[1]
        /\ \A k \in DOMAIN writeQueue' :
             k + 1 \in DOMAIN writeQueue /\ writeQueue'[k] = writeQueue[k + 1]
        /\ DOMAIN writeQueue' \subseteq Nat \ {0}
    BY TailElements DEF BeginWrite, RInv, IInv, Types, TypeOK
  <1>2. /\ pc' = [pc EXCEPT ![r] = "writing"] /\ owner' = r
        /\ UNCHANGED <<approvals, locked>> /\ ~ locked
    BY DEF BeginWrite, Goto, tables, work, RInv, Seated
  <1>3. pc[r] = "queued"
    BY <1>1 DEF RInv, Seated
  <1> HIDE DEF r
  <1>4. /\ pc'[r] = "writing"
        /\ \A q \in Requests \ {r} : pc'[q] = pc[q]
        /\ \A k \in DOMAIN approvals : approvals[k].by \in Requests \ {r}
    BY <1>1, <1>2, <1>3, NotInThePast DEF RInv, IInv, Types, TypeOK, Past
  <1>5. \A k \in DOMAIN writeQueue' : writeQueue'[k] \in Requests \ {r}
    <2> SUFFICES ASSUME NEW k \in DOMAIN writeQueue' PROVE writeQueue'[k] \in Requests \ {r}
      OBVIOUS
    <2>1. k + 1 \in DOMAIN writeQueue /\ k + 1 # 1 /\ writeQueue'[k] = writeQueue[k + 1]
      BY <1>1
    <2> QED
      BY <1>1, <2>1 DEF RInv, Seated, IInv, Types, TypeOK
  <1>6. \A k \in DOMAIN writeQueue' : pc'[writeQueue'[k]] = "queued"
    BY <1>1, <1>4, <1>5 DEF RInv, Seated
  <1>7. \A i, j \in DOMAIN writeQueue' : writeQueue'[i] = writeQueue'[j] => i = j
    <2> SUFFICES ASSUME NEW i \in DOMAIN writeQueue', NEW j \in DOMAIN writeQueue',
                        writeQueue'[i] = writeQueue'[j]
                 PROVE  i = j
      OBVIOUS
    <2>1. i + 1 = j + 1
      BY <1>1 DEF RInv, Seated
    <2> QED
      BY <1>1, <2>1
  <1> QED
    BY <1>2, <1>4, <1>6, <1>7 DEF RInv, Seated

\* The transaction is over: its owner has got past it, or its answer is lost.
LEMMA SeatedEnd ==
  ASSUME RInv, NEW r \in Requests, r = owner, NEW loc \in Past, pc' = [pc EXCEPT ![r] = loc],
         EndTransaction, UNCHANGED writeQueue,
         approvals' = approvals \/ approvals' = CurApprovals
  PROVE  Seated'
  <1>1. /\ \A q \in Requests \ {r} : pc'[q] = pc[q]
        /\ pc'[r] = loc
        /\ \A i \in DOMAIN writeQueue : writeQueue[i] \in Requests
        /\ owner' = NoRequest /\ ~ locked' /\ owner # NoRequest
        /\ pc[r] = "writing"
    BY ConstantsAssumption DEF RInv, IInv, Types, TypeOK, Seated, EndTransaction
  <1>2. \A i \in DOMAIN writeQueue : writeQueue[i] \in Requests \ {r}
    BY <1>1 DEF RInv, Seated
  <1>3. \A k \in DOMAIN approvals : approvals[k].by \in Requests \ {r}
    BY <1>1, Tables DEF RInv, Seated, Past
  <1>4. \A k \in DOMAIN approvals' : approvals'[k].by = r \/ pc[approvals'[k].by] \in Past
    <2>1. \A k \in DOMAIN approvals : CurApprovals[k] = approvals[k]
      BY DEF RInv, IInv, TransactionInvariant, CurApprovals
    <2> QED
      BY <2>1 DEF RInv, Seated, Draft
  <1>5. \A k \in DOMAIN approvals' : approvals'[k].by \in Requests
    BY Tables DEF RInv
  <1>6. \A k \in DOMAIN approvals' : pc'[approvals'[k].by] \in Past
    BY <1>1, <1>4, <1>5
  <1> QED
    BY <1>1, <1>2, <1>6 DEF RInv, Seated

LEMMA SeatedNext == RInv /\ [Next]_vars => Seated'
  <1> SUFFICES ASSUME RInv, [Next]_vars PROVE Seated'
    OBVIOUS
  <1> USE DEF tables, work, thread, local, Answer, Goto
  <1>1. CASE UNCHANGED vars
    BY <1>1 DEF vars, RInv, Seated
  <1>2. ASSUME NEW r \in Requests, Receive(r) PROVE Seated'
    BY <1>2, SeatedMove DEF Receive, Past
  <1>3. ASSUME NEW r \in Requests, FetchProposal(r) PROVE Seated'
    BY <1>3, SeatedMove DEF FetchProposal, Past
  <1>4. ASSUME NEW r \in Requests, CheckProposal(r) PROVE Seated'
    BY <1>4, SeatedMove, SeatedEnqueue DEF CheckProposal, Past
  <1>5. ASSUME NEW r \in Requests, SelectClean(r) PROVE Seated'
    BY <1>5, SeatedMove DEF SelectClean, Past
  <1>6. ASSUME NEW r \in Requests, EnqueueApproveAll(r) PROVE Seated'
    BY <1>6, SeatedEnqueue DEF EnqueueApproveAll
  <1>7. ASSUME NEW r \in Requests, Respond(r) \/ CountPending(r) PROVE Seated'
    BY <1>7, SeatedMove DEF Respond, CountPending, Past
  <1>8. ASSUME NEW r \in Requests, ReadFails(r) PROVE Seated'
    BY <1>8, SeatedMove DEF ReadFails, Past
  <1>9. CASE BeginWrite
    BY <1>9, SeatedBegin
  <1>10. ASSUME NEW p \in Proposals, FlipStatus(p) \/ SkipRow(p) PROVE Seated'
    BY <1>10 DEF FlipStatus, SkipRow, RInv, Seated
  <1>11. CASE InsertApproval
    BY <1>11 DEF InsertApproval, RInv, Seated
  <1>12. ASSUME owner # NoRequest PROVE owner \in Requests
    BY <1>12 DEF RInv, IInv, Types, TypeOK
  <1>13. CASE Commit
    <2>1. PICK loc \in Past : pc' = [pc EXCEPT ![owner] = loc]
      BY <1>13 DEF Commit, Past
    <2> QED
      BY <1>12, <1>13, <2>1, SeatedEnd DEF Commit
  <1>14. ASSUME WriteFails \/ \E p \in Proposals : RefuseRow(p) PROVE Seated'
    <2>1. owner # NoRequest /\ pc' = [pc EXCEPT ![owner] = "done"]
      BY <1>14 DEF WriteFails, RefuseRow
    <2> QED
      BY <1>12, <1>14, <2>1, SeatedEnd DEF WriteFails, RefuseRow, Past
  <1>15. CASE Crash
    <2>1. /\ \A q \in Requests : pc[q] \in Past => pc'[q] \in Past
          /\ DOMAIN writeQueue' = {} /\ owner' = NoRequest /\ ~ locked' /\ approvals' = approvals
      BY <1>15 DEF Crash, Active, EndTransaction, Past
    <2> QED
      BY <2>1, Tables DEF RInv, Seated
  <1>16. ASSUME NEW p \in Proposals, Propose(p) \/ Reassess(p) PROVE Seated'
    BY <1>16 DEF Propose, Reassess, RInv, Seated
  <1> QED
    BY <1>1, <1>2, <1>3, <1>4, <1>5, <1>6, <1>7, <1>8, <1>9, <1>10, <1>11, <1>13, <1>14, <1>15,
       <1>16 DEF Next, Handler, WriteThread, Statement

-----------------------------------------------------------------------------
(* Draft is kept. *)

\* Only BeginWrite gives the thread to a request, and only the handler of a
\* request changes its ids: before the request is in the queue.
LEMMA DraftIdle ==
  ASSUME RInv, UNCHANGED <<tables, work, owner, todo>>,
         owner # NoRequest => ids'[owner] = ids[owner]
  PROVE  Draft'
  <1>1. CurProposals' = CurProposals /\ CurApprovals' = CurApprovals
    BY DEF CurProposals, CurApprovals, tables, work
  <1> QED
    BY <1>1 DEF RInv, Draft, tables, work

LEMMA DraftFlipStatus ==
  ASSUME RInv, NEW p \in Proposals, FlipStatus(p)
  PROVE  Draft'
  <1> DEFINE s == NewStatus(input[owner].decision)
  <1>1. /\ owner \in Requests /\ owner # NoRequest /\ s \in Decided
        /\ WriteGuard(input[owner], CurProposals[p])
    BY NewStatusIsDecided DEF FlipStatus, RInv, IInv, Types, TypeOK, InputsAreKept, Engaged
  <1>2. /\ CurProposals[p].status = "PENDING_APPROVAL"
        /\ CurProposals[p].status \notin Decided
    BY <1>1, NotDecided DEF WriteGuard, IsCleanPending, DecideGuard
  <1> HIDE DEF s
  <1>3. /\ CurProposals' = [CurProposals EXCEPT ![p].status = s]
        /\ CurApprovals' = CurApprovals /\ locked' /\ workProposals' = CurProposals'
        /\ todo' = todo \ {p}
        /\ UNCHANGED <<tables, owner, ids>>
    BY DEF FlipStatus, CurProposals, CurApprovals, s, local
  <1>4. /\ CurProposals'[p].status = s
        /\ CurProposals'[p].risk_status = CurProposals[p].risk_status
        /\ \A q \in Proposals \ {p} : CurProposals'[q] = CurProposals[q]
    BY <1>3, Tables DEF RInv, ProposalTable, ProposalRow
  <1>5. \A q \in Proposals : DraftOf(proposals[q], CurProposals[q])
    BY DEF RInv, Draft, DraftOf, CurProposals
  <1>6. DraftOf(proposals[p], CurProposals'[p])
    BY <1>1, <1>2, <1>4, <1>5 DEF DraftOf
  <1>7. \A q \in Proposals : DraftOf(proposals[q], CurProposals'[q])
    BY <1>4, <1>5, <1>6
  <1>8. ids[owner] \in SUBSET Proposals
    BY <1>1 DEF RInv, IInv, Types, TypeOK
  <1>9. \A q \in ids[owner] \ todo' : ~ IsCleanPending(CurProposals'[q])
    <2>1. s # "PENDING_APPROVAL"
      BY <1>1 DEF Decided
    <2>2. ~ IsCleanPending(CurProposals'[p])
      BY <2>1, <1>4 DEF IsCleanPending
    <2>3. \A q \in ids[owner] \ todo : ~ IsCleanPending(CurProposals[q])
      BY <1>1 DEF RInv, Draft
    <2>4. ASSUME NEW q \in ids[owner] \ todo' PROVE ~ IsCleanPending(CurProposals'[q])
      <3>1. CASE q = p
        BY <2>2, <3>1
      <3>2. CASE q # p
        <4>1. q \in ids[owner] \ todo /\ q \in Proposals \ {p}
          BY <1>3, <1>8, <2>4, <3>2
        <4> QED
          BY <1>4, <2>3, <4>1
      <3> QED
        BY <3>1, <3>2
    <2> QED
      BY <2>4
  <1>10. \A k \in DOMAIN CurApprovals \ DOMAIN approvals : CurApprovals[k].by = owner
    BY DEF RInv, Draft
  <1> QED
    BY <1>3, <1>7, <1>9, <1>10 DEF Draft, tables

LEMMA DraftSkipRow ==
  ASSUME RInv, NEW p \in Proposals, SkipRow(p)
  PROVE  Draft'
  <1>1. /\ CurProposals' = CurProposals /\ CurApprovals' = CurApprovals /\ locked'
        /\ workProposals' = CurProposals /\ todo' = todo \ {p}
        /\ UNCHANGED <<tables, owner, ids>> /\ owner # NoRequest
    BY DEF SkipRow, CurProposals, CurApprovals, local
  <1>2. ~ IsCleanPending(CurProposals[p])
    BY DEF SkipRow, WriteGuard
  <1>3. \A q \in Proposals : DraftOf(proposals[q], CurProposals[q])
    BY DEF RInv, Draft, DraftOf, CurProposals
  <1> QED
    BY <1>1, <1>2, <1>3 DEF RInv, Draft, tables

LEMMA DraftInsertApproval ==
  ASSUME RInv, InsertApproval
  PROVE  Draft'
  <1> DEFINE row == RowOf(owner, flipped)
  <1>1. flipped \in Proposals /\ locked /\ owner # NoRequest
    BY DEF InsertApproval, RInv, IInv, Types, TypeOK, TransactionInvariant
  <1>2. row \in ApprovalRow
    BY <1>1, RowOfType DEF RInv, IInv
  <1>3. row.by = owner
    BY DEF RowOf
  <1> HIDE DEF row
  <1>4. /\ CurProposals' = CurProposals /\ CurApprovals' = Append(CurApprovals, row)
        /\ UNCHANGED <<tables, owner, ids, todo, locked, workProposals>>
    BY <1>1 DEF InsertApproval, CurProposals, CurApprovals, row
  <1>5. /\ DOMAIN CurApprovals' = DOMAIN CurApprovals \cup {Len(CurApprovals) + 1}
        /\ CurApprovals'[Len(CurApprovals) + 1] = row
        /\ \A k \in DOMAIN CurApprovals : CurApprovals'[k] = CurApprovals[k]
    BY <1>2, <1>4, AppendElements, Tables DEF RInv, ApprovalTable
  <1>6. \A k \in DOMAIN CurApprovals' \ DOMAIN approvals' : CurApprovals'[k].by = owner
    BY <1>3, <1>4, <1>5 DEF RInv, Draft, tables
  <1> QED
    BY <1>4, <1>6 DEF RInv, Draft, tables

\* Between two transactions there is no draft, and nobody is its author.
LEMMA DraftNone ==
  ASSUME ~ locked', owner' = NoRequest
  PROVE  Draft'
  BY DEF Draft, CurApprovals

LEMMA DraftNext == RInv /\ [Next]_vars => Draft'
  <1> SUFFICES ASSUME RInv, [Next]_vars PROVE Draft'
    OBVIOUS
  <1>1. CASE UNCHANGED vars
    BY <1>1, DraftIdle DEF vars, thread, local
  <1>2. ASSUME NEW r \in Requests, Receive(r) \/ Handler(r) \/ ReadFails(r)
        PROVE  Draft'
    <2>1. /\ UNCHANGED <<tables, work, owner, todo>>
          /\ pc[r] # "writing"
          /\ ids' = ids \/ \E new : ids' = [ids EXCEPT ![r] = new]
      BY <1>2 DEF Receive, Handler, FetchProposal, CheckProposal, SelectClean,
                  EnqueueApproveAll, Respond, CountPending, ReadFails, thread, local
    <2>2. owner # NoRequest => owner \in Requests \ {r}
      BY <2>1 DEF RInv, IInv, Types, TypeOK, Seated
    <2>3. owner # NoRequest => ids'[owner] = ids[owner]
      BY <2>1, <2>2 DEF RInv, IInv, Types, TypeOK
    <2> QED
      BY <2>1, <2>3, DraftIdle
  <1>3. CASE BeginWrite
    <2>1. /\ ~ locked /\ ~ locked' /\ owner' = Head(writeQueue)
          /\ todo' = ids'[owner'] /\ UNCHANGED <<tables, ids>>
      BY <1>3 DEF BeginWrite, work, local, RInv, Seated
    <2> QED
      BY <2>1 DEF Draft, CurApprovals
  <1>4. ASSUME NEW p \in Proposals, Statement(p)
        PROVE  Draft'
    BY <1>4, DraftFlipStatus, DraftSkipRow, DraftNone DEF Statement, RefuseRow, EndTransaction
  <1>5. CASE InsertApproval
    BY <1>5, DraftInsertApproval
  <1>6. CASE Commit \/ WriteFails \/ Crash
    BY <1>6, DraftNone DEF Commit, WriteFails, Crash, EndTransaction
  <1>7. ASSUME NEW p \in Proposals, Propose(p) \/ Reassess(p)
        PROVE  Draft'
    <2>1. /\ ~ locked /\ ~ locked' /\ approvals' = approvals
          /\ UNCHANGED <<owner, todo, ids>>
      BY <1>7 DEF Propose, Reassess, work, thread, local
    <2>2. owner # NoRequest => todo = ids[owner]
      BY <2>1 DEF RInv, Draft
    <2> QED
      BY <2>1, <2>2 DEF Draft, CurApprovals
  <1> QED
    BY <1>1, <1>2, <1>3, <1>4, <1>5, <1>6, <1>7 DEF Next, WriteThread

LEMMA RInvNext == RInv /\ [Next]_vars => RInv'
  BY InvNext, SeatedNext, DraftNext DEF RInv

-----------------------------------------------------------------------------
(* A COMMIT is one decision of the ledger. *)

\* The proposals whose row this COMMIT replaces, and the row that says why.
Changed == {p \in Proposals : CurProposals[p] # proposals[p]}
RowFor(p) == CHOOSE k \in DOMAIN CurApprovals : CurApprovals[k].proposal_id = p
DecisionOn == [p \in Changed |-> CurApprovals[RowFor(p)].decision]

Entry(row) == [proposal_id |-> row.proposal_id, decision |-> row.decision]

LEMMA OutcomesAreStatuses ==
  /\ DOMAIN Ledger!Outcomes = Decisions
  /\ \A d \in Decisions : Ledger!Outcomes[d] = NewStatus(d)
  BY DEF Ledger!Outcomes, Decisions, NewStatus

LEMMA ChangedRows ==
  ASSUME RInv, flipped = NoProposal, NEW p \in Changed
  PROVE  /\ proposals[p].status = "PENDING_APPROVAL"
         /\ CurProposals[p].risk_status = proposals[p].risk_status
         /\ RowFor(p) \in DOMAIN CurApprovals
         /\ CurApprovals[RowFor(p)].proposal_id = p
         /\ DecisionOn[p] \in Decisions
         /\ CurProposals[p].status = NewStatus(DecisionOn[p])
         /\ DecisionOn[p] # "REJECT" => proposals[p].risk_status # "REJECT"
  <1>1. p \in Proposals /\ CurProposals[p] # proposals[p]
    BY DEF Changed
  <1>2. /\ proposals[p].status = "PENDING_APPROVAL" /\ CurProposals[p].status \in Decided
        /\ CurProposals[p].risk_status = proposals[p].risk_status
    BY <1>1 DEF RInv, Draft, DraftOf, CurProposals
  <1>3. Accounted(CurProposals, CurApprovals, NoProposal)
    BY DEF RInv, IInv, TransactionInvariant
  <1>4. p # NoProposal
    BY <1>1, ConstantsAssumption
  <1>5. \E k \in DOMAIN CurApprovals : CurApprovals[k].proposal_id = p
    BY <1>1, <1>2, <1>3, <1>4 DEF Accounted
  <1>6. /\ RowFor(p) \in DOMAIN CurApprovals
        /\ CurApprovals[RowFor(p)].proposal_id = p
    BY <1>5 DEF RowFor
  <1>7. DecisionOn[p] = CurApprovals[RowFor(p)].decision
    BY DEF DecisionOn
  <1> HIDE DEF RowFor, DecisionOn
  <1>8. DecisionOn[p] \in Decisions
    BY <1>6, <1>7, RowFields, Tables DEF RInv
  <1>9. CurProposals[p].status = NewStatus(DecisionOn[p])
    BY <1>3, <1>6, <1>7 DEF Accounted
  <1>10. DecisionOn[p] # "REJECT" => CurProposals[p].risk_status # "REJECT"
    BY <1>6, <1>7 DEF RInv, IInv, TransactionInvariant, AllAllowed, Allowed
  <1> QED
    BY <1>2, <1>6, <1>8, <1>9, <1>10

\* The rows that are new are those of the proposals that changed.
LEMMA NewRows ==
  ASSUME RInv, flipped = NoProposal, NEW k \in DOMAIN CurApprovals, k \notin DOMAIN approvals
  PROVE  CurApprovals[k].proposal_id \in Changed /\ RowFor(CurApprovals[k].proposal_id) = k
  <1> DEFINE p == CurApprovals[k].proposal_id
  <1>1. /\ p \in Proposals /\ NewStatus(CurApprovals[k].decision) \in Decided
        /\ DOMAIN approvals \subseteq DOMAIN CurApprovals
    BY RowFields, Tables DEF RInv
  <1>2. /\ \A l, m \in DOMAIN CurApprovals :
             CurApprovals[l].proposal_id = CurApprovals[m].proposal_id => l = m
        /\ CurProposals[p].status \in Decided
    BY <1>1 DEF RInv, IInv, TransactionInvariant, Accounted
  <1>3. p \in Changed
    <2> SUFFICES ASSUME CurProposals[p] = proposals[p] PROVE FALSE
      BY <1>1 DEF Changed
    <2>1. p # NoProposal
      BY <1>1, ConstantsAssumption
    <2>2. PICK l \in DOMAIN approvals : approvals[l].proposal_id = p
      BY <1>1, <1>2, <2>1 DEF RInv, IInv, TransactionInvariant, OneRowPerDecision, Accounted
    <2>3. CurApprovals[l] = approvals[l]
      BY DEF RInv, IInv, TransactionInvariant, CurApprovals
    <2> QED
      BY <1>1, <1>2, <2>2, <2>3
  <1>4. RowFor(p) \in DOMAIN CurApprovals /\ CurApprovals[RowFor(p)].proposal_id = p
    BY <1>3, ChangedRows
  <1> QED
    BY <1>2, <1>3, <1>4

LEMMA CommitIsDecide ==
  ASSUME RInv, Commit
  PROVE  Ledger!LNext
  <1>1. /\ flipped = NoProposal
        /\ proposals' = CurProposals /\ approvals' = CurApprovals
    BY DEF Commit
  <1>2. /\ proposals \in ProposalTable /\ CurProposals \in ProposalTable
        /\ Changed \subseteq Proposals
    BY Tables DEF RInv, Changed
  <1>3. DecisionOn \in [Changed -> DOMAIN Ledger!Outcomes]
    BY <1>1, ChangedRows, OutcomesAreStatuses DEF DecisionOn
  <1>4. \A p \in Changed :
          /\ [q \in Proposals |-> proposals[q].status][p] = "PENDING_APPROVAL"
          /\ DecisionOn[p] # "REJECT" => [q \in Proposals |-> proposals[q].risk_status][p] # "REJECT"
    BY <1>1, <1>2, ChangedRows
  <1>5. [q \in Proposals |-> proposals'[q].status] =
          [p \in Proposals |-> IF p \in Changed
                                 THEN Ledger!Outcomes[DecisionOn[p]]
                                 ELSE [q \in Proposals |-> proposals[q].status][p]]
    <2> SUFFICES ASSUME NEW p \in Proposals
                 PROVE  CurProposals[p].status =
                          IF p \in Changed THEN Ledger!Outcomes[DecisionOn[p]]
                                           ELSE proposals[p].status
      BY <1>1
    <2>1. CASE p \in Changed
      BY <1>1, <2>1, ChangedRows, OutcomesAreStatuses
    <2>2. CASE p \notin Changed
      BY <2>2 DEF Changed
    <2> QED
      BY <2>1, <2>2
  <1>6. [q \in Proposals |-> proposals'[q].risk_status] =
          [q \in Proposals |-> proposals[q].risk_status]
    <2> SUFFICES ASSUME NEW p \in Proposals
                 PROVE  CurProposals[p].risk_status = proposals[p].risk_status
      BY <1>1
    <2>1. CASE p \in Changed
      BY <1>1, <2>1, ChangedRows
    <2>2. CASE p \notin Changed
      BY <2>2 DEF Changed
    <2> QED
      BY <2>1, <2>2
  <1>7. {Entry(approvals'[k]) : k \in DOMAIN approvals'} =
          {Entry(approvals[k]) : k \in DOMAIN approvals} \cup
          {[proposal_id |-> p, decision |-> DecisionOn[p]] : p \in Changed}
    <2>1. /\ DOMAIN approvals \subseteq DOMAIN CurApprovals
          /\ \A k \in DOMAIN approvals : CurApprovals[k] = approvals[k]
      BY Tables DEF RInv, IInv, TransactionInvariant, CurApprovals
    <2>2. \A p \in Changed :
            /\ RowFor(p) \in DOMAIN CurApprovals
            /\ Entry(CurApprovals[RowFor(p)]) = [proposal_id |-> p, decision |-> DecisionOn[p]]
      BY <1>1, ChangedRows DEF Entry, DecisionOn
    <2>3. \A k \in DOMAIN CurApprovals \ DOMAIN approvals :
            \E p \in Changed :
              Entry(CurApprovals[k]) = [proposal_id |-> p, decision |-> DecisionOn[p]]
      BY <1>1, <2>2, NewRows
    <2> QED
      BY <1>1, <2>1, <2>2, <2>3
  <1>8. Ledger!Decide(Changed, DecisionOn)
    BY <1>4, <1>5, <1>6, <1>7 DEF Ledger!Decide, Entry
  <1>9. \E d \in [Changed -> DOMAIN Ledger!Outcomes] : Ledger!Decide(Changed, d)
    <2> HIDE DEF DecisionOn
    <2> QED
      BY <1>3, <1>8 DEF Ledger!Decide
  <1>10. \E S \in SUBSET Proposals : \E d \in [S -> DOMAIN Ledger!Outcomes] : Ledger!Decide(S, d)
    <2>1. Changed \in SUBSET Proposals
      BY <1>2
    <2> HIDE DEF Changed
    <2> QED
      BY <1>9, <2>1 DEF Ledger!Decide
  <1> QED
    BY <1>10 DEF Ledger!LNext

-----------------------------------------------------------------------------
(* Every other step is a change by the other process, or a stutter. *)

LEMMA OtherProcessIsAssess ==
  ASSUME RInv, NEW p \in Proposals, Propose(p) \/ Reassess(p)
  PROVE  Ledger!LNext
  <1>1. PICK row \in ProposalRow :
          /\ row.status = "PENDING_APPROVAL"
          /\ proposals' = [proposals EXCEPT ![p] = row]
    BY DEF Propose, Reassess
  <1>2. /\ proposals[p].status \in {"ABSENT", "PENDING_APPROVAL"}
        /\ approvals' = approvals
        /\ row.risk_status \in {"PASS", "REJECT"}
    BY DEF Propose, Reassess, ProposalRow
  <1>3. /\ proposals'[p] = row
        /\ \A q \in Proposals \ {p} : proposals'[q] = proposals[q]
    BY <1>1, Tables DEF RInv, ProposalTable
  <1>4. [q \in Proposals |-> proposals'[q].status] =
          [[q \in Proposals |-> proposals[q].status] EXCEPT ![p] = "PENDING_APPROVAL"]
    <2>1. \A q \in Proposals : proposals'[q].status =
            IF q = p THEN "PENDING_APPROVAL" ELSE proposals[q].status
      BY <1>1, <1>3
    <2> QED
      BY <2>1
  <1>5. [q \in Proposals |-> proposals'[q].risk_status] =
          [[q \in Proposals |-> proposals[q].risk_status] EXCEPT ![p] = row.risk_status]
    BY <1>3
  <1>6. [q \in Proposals |-> proposals[q].status][p] \in {"ABSENT", "PENDING_APPROVAL"}
    BY <1>2
  <1>7. {[proposal_id |-> approvals'[k].proposal_id,
          decision    |-> approvals'[k].decision] : k \in DOMAIN approvals'} =
          {[proposal_id |-> approvals[k].proposal_id,
            decision    |-> approvals[k].decision] : k \in DOMAIN approvals}
    BY <1>2
  <1>8. Ledger!Assess(p)
    BY <1>2, <1>4, <1>5, <1>6, <1>7 DEF Ledger!Assess
  <1> QED
    BY <1>8 DEF Ledger!LNext, Ledger!Assess

\* Commit and the other process are all there is to the committed tables.
LEMMA TablesChange ==
  Next => \/ UNCHANGED tables
          \/ Commit
          \/ \E p \in Proposals : Propose(p) \/ Reassess(p)
  BY DEF Next, WriteThread, Statement, Receive, Handler, ReadFails, FetchProposal,
         CheckProposal, SelectClean, EnqueueApproveAll, Respond, CountPending,
         BeginWrite, FlipStatus, SkipRow, RefuseRow, InsertApproval, WriteFails, Crash

LEMMA LedgerInit == Init => Ledger!LInit
  <1> SUFFICES ASSUME Init PROVE Ledger!LInit
    OBVIOUS
  <1>1. /\ \A p \in Proposals : proposals[p].status = "ABSENT" /\ proposals[p].risk_status = "PASS"
        /\ DOMAIN approvals = {}
    BY DEF Init, NoRow
  <1> QED
    BY <1>1 DEF Ledger!LInit

LEMMA LedgerNext == RInv /\ [Next]_vars => [Ledger!LNext]_(Ledger!ledgerVars)
  <1> SUFFICES ASSUME RInv, [Next]_vars
               PROVE  Ledger!LNext \/ UNCHANGED Ledger!ledgerVars
    OBVIOUS
  <1>1. CASE UNCHANGED tables
    BY <1>1 DEF tables, Ledger!ledgerVars
  <1>2. CASE UNCHANGED vars
    BY <1>1, <1>2 DEF vars
  <1> QED
    BY <1>1, <1>2, TablesChange, CommitIsDecide, OtherProcessIsAssess

-----------------------------------------------------------------------------
(* The theorems. *)

\* The queue keeps the ledger's promise for any number of proposals, requests,
\* crashes and failures: what clients and readers of the committed tables can
\* see is a sequence of atomic decisions on pending proposals.
THEOREM QueueImplementsLedger == Spec => LedgerIsImplemented
  BY RInvInit, RInvNext, LedgerInit, LedgerNext, PTL DEF Spec, LedgerIsImplemented, Ledger!LSpec

\* approve_all is all or nothing: only a COMMIT adds rows, they are the owner's
\* first, and no id of its is left that is still clean and pending.
THEOREM ApproveAllIsAllOrNothing == Spec => AllOrNothing
  <1> DEFINE Whole == \A r \in Requests : (RowsBy(r))' # RowsBy(r) =>
                        /\ RowsBy(r) = {}
                        /\ \A p \in ids[r] : ~ IsCleanPending(proposals'[p])
  <1>1. RInv /\ [Next]_vars => [Whole]_vars
    <2> SUFFICES ASSUME RInv, Next, NEW r \in Requests, (RowsBy(r))' # RowsBy(r)
                 PROVE  /\ RowsBy(r) = {}
                        /\ \A p \in ids[r] : ~ IsCleanPending(proposals'[p])
      OBVIOUS
    <2>1. approvals' # approvals
      BY DEF RowsBy
    <2>2. Commit
      BY <2>1, TablesChange DEF tables, Propose, Reassess
    <2>3. /\ owner # NoRequest /\ todo = {} /\ pc[owner] \notin Past
          /\ proposals' = CurProposals /\ approvals' = CurApprovals
      BY <2>2 DEF Commit, RInv, Seated, Past
    <2>4. r = owner
      <3>1. /\ DOMAIN approvals \subseteq DOMAIN CurApprovals
            /\ \A k \in DOMAIN approvals : CurApprovals[k] = approvals[k]
        BY Tables DEF RInv, IInv, TransactionInvariant, CurApprovals
      <3>2. \A k \in DOMAIN CurApprovals \ DOMAIN approvals : CurApprovals[k].by = owner
        BY DEF RInv, Draft
      <3> QED
        BY <2>3, <3>1, <3>2 DEF RowsBy
    <2>5. RowsBy(r) = {}
      BY <2>3, <2>4, NotInThePast DEF RowsBy
    <2>6. \A p \in ids[r] : ~ IsCleanPending(proposals'[p])
      BY <2>3, <2>4 DEF RInv, Draft
    <2> QED
      BY <2>5, <2>6
  <1> QED
    BY <1>1, RInvInit, RInvNext, PTL DEF Spec, AllOrNothing
=============================================================================
