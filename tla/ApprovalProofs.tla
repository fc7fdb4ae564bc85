--------------------------- MODULE ApprovalProofs ---------------------------
(***************************************************************************)
(* The type correctness and the safety theorems about Approval, for any    *)
(* number of proposals and requests.                                       *)
(*                                                                         *)
(* TransactionInvariant is inductive together with the types: the two      *)
(* tables agree in what is committed and in what the running transaction   *)
(* sees, so that a COMMIT may replace the one by the other and a rollback  *)
(* may forget the other.                                                   *)
(***************************************************************************)
EXTENDS Approval, FiniteSetTheorems, TLAPS

(* Facts about the data. *)

LEMMA InputFields ==
  ASSUME NEW i \in Inputs
  PROVE  /\ i.handler \in {"approve", "approve_all", "other_method"}
         /\ i.decision \in Decisions \cup {"INVALID"}
         /\ i.handler = "approve" => i.proposal_id \in Proposals
         /\ i.override_reason \in BOOLEAN
         /\ i.handler # "approve" => i.decision = "APPROVE"
  <1>1. CASE i \in ApproveInputs
    BY <1>1 DEF ApproveInputs
  <1>2. CASE i = OtherMethod
    BY <1>2 DEF OtherMethod, Decisions
  <1>3. CASE i = ApproveAll
    BY <1>3 DEF ApproveAll, OtherMethod, Decisions
  <1> QED
    BY <1>1, <1>2, <1>3 DEF Inputs

LEMMA NoRowIsARow == NoRow \in ProposalRow
  BY ConstantsAssumption DEF NoRow, ProposalRow, Decided

LEMMA NewStatusIsDecided ==
  ASSUME NEW d \in Decisions
  PROVE  NewStatus(d) \in Decided
  BY DEF Decisions, NewStatus, Decided

LEMMA CountOfProposals ==
  ASSUME NEW S \in SUBSET Proposals
  PROVE  Cardinality(S) \in Nat
  BY FS_Subset, FS_CardinalityType, ConstantsAssumption

LEMMA RowWithStatus ==
  ASSUME NEW row \in ProposalRow, NEW s \in Decided
  PROVE  [row EXCEPT !.status = s] \in ProposalRow
  BY DEF ProposalRow

LEMMA AppendElements ==
  ASSUME NEW S, NEW s \in Seq(S), NEW e \in S
  PROVE  /\ Append(s, e) \in Seq(S)
         /\ DOMAIN Append(s, e) = (DOMAIN s) \cup {Len(s) + 1}
         /\ Append(s, e)[Len(s) + 1] = e
         /\ \A k \in DOMAIN s : Append(s, e)[k] = s[k]
         /\ Len(s) + 1 \notin DOMAIN s
  OBVIOUS

LEMMA TailElements ==
  ASSUME NEW S, NEW s \in Seq(S), s # << >>
  PROVE  /\ Head(s) \in S /\ Tail(s) \in Seq(S)
         /\ 1 \in DOMAIN s /\ Head(s) = s[1]
         /\ \A k \in DOMAIN Tail(s) : k + 1 \in DOMAIN s /\ Tail(s)[k] = s[k + 1]
  OBVIOUS
-----------------------------------------------------------------------------
(* An input is never changed once its request has left "idle", and what     *)
(* reaches the write thread has a decision the handlers take.               *)

Engaged(r) == pc[r] # "idle" /\ input[r].decision \in Decisions

InputsAreKept ==
  /\ \A r \in Requests :
       /\ pc[r] \in {"fetch", "check"} => Engaged(r) /\ input[r].handler = "approve"
       /\ pc[r] \in {"select", "enqueue"} => Engaged(r) /\ input[r].handler = "approve_all"
  /\ \A k \in DOMAIN writeQueue : Engaged(writeQueue[k])
  /\ owner # NoRequest => Engaged(owner)
  /\ owner = NoRequest => flipped = NoProposal

Types == TypeOK /\ InputsAreKept

LEMMA TypesInit == Init => Types
  <1> SUFFICES ASSUME Init PROVE Types
    OBVIOUS
  <1>1. OtherMethod \in Inputs
    BY DEF Inputs
  <1>2. /\ proposals \in [Proposals -> ProposalRow]
        /\ snapshot \in [Requests -> ProposalRow]
        /\ workProposals \in [Proposals -> ProposalRow]
    BY NoRowIsARow DEF Init
  <1>3. /\ approvals \in Seq(ApprovalRow)
        /\ workApprovals \in Seq(ApprovalRow)
        /\ writeQueue \in Seq(Requests)
    BY DEF Init
  <1>4. /\ pc \in [Requests -> Locations]
        /\ input \in [Requests -> Inputs]
        /\ ids \in [Requests -> SUBSET Proposals]
        /\ reply \in [Requests -> Codes]
        /\ approved \in [Requests -> Nat]
        /\ stillPending \in [Requests -> Nat]
    BY <1>1 DEF Init, Locations, Codes
  <1>5. reruns \in 0 .. Reruns
    BY ConstantsAssumption DEF Init
  <1>6. TypeOK
    BY <1>2, <1>3, <1>4, <1>5 DEF Init, TypeOK
  <1>7. InputsAreKept
    BY ConstantsAssumption DEF Init, InputsAreKept
  <1> QED
    BY <1>6, <1>7 DEF Types

LEMMA RowOfType ==
  ASSUME Types, owner # NoRequest, NEW p \in Proposals
  PROVE  RowOf(owner, p) \in ApprovalRow
  <1>1. owner \in Requests /\ input[owner] \in Inputs /\ input[owner].decision \in Decisions
    BY DEF Types, TypeOK, InputsAreKept, Engaged
  <1>2. input[owner].override_reason \in BOOLEAN
    BY <1>1, InputFields
  <1>3. Stored(input[owner].decision, input[owner].modified_quantity) \in {"null", "positive"}
    BY DEF Stored
  <1>4. (input[owner].handler = "approve"
           /\ Override(input[owner].decision, snapshot[owner])) \in BOOLEAN
    OBVIOUS
  <1> QED
    BY <1>1, <1>2, <1>3, <1>4 DEF RowOf, ApprovalRow

LEMMA TypesReceive ==
  ASSUME Types, NEW r \in Requests, Receive(r)
  PROVE  Types'
  <1> USE DEF Types
  <1>1. PICK i \in Inputs :
          /\ input' = [input EXCEPT ![r] = i]
          /\ \/ i.handler = "other_method" /\ Answer(r, "405")
             \/ i.handler = "approve_all" /\ Goto(r, "select")
             \/ i.handler = "approve" /\ i.decision = "INVALID" /\ Answer(r, "400")
             \/ i.handler = "approve" /\ i.decision # "INVALID" /\ Goto(r, "fetch")
    BY DEF Receive
  <1>2. UNCHANGED <<tables, work, thread, local, reruns>> /\ pc[r] = "idle"
    BY DEF Receive
  <1>3. TypeOK'
    BY <1>1, <1>2 DEF TypeOK, Answer, Goto, Locations, Codes, tables, work, thread, local
  <1>4. /\ i.decision \in Decisions \cup {"INVALID"}
        /\ i.handler # "approve" => i.decision = "APPROVE"
    BY InputFields
  <1>5. InputsAreKept'
    BY <1>1, <1>2, <1>4 DEF TypeOK, InputsAreKept, Engaged, Answer, Goto, thread, Decisions
  <1> QED
    BY <1>3, <1>5

LEMMA EngagedIsKept ==
  ASSUME Types, NEW r \in Requests, NEW loc, loc # "idle",
         pc' = [pc EXCEPT ![r] = loc], input' = input
  PROVE  /\ \A q \in Requests : Engaged(q) =>
              pc'[q] # "idle" /\ input'[q].decision \in Decisions
         /\ \A k \in DOMAIN writeQueue :
              writeQueue[k] \in Requests /\ Engaged(writeQueue[k])
  BY DEF Types, TypeOK, InputsAreKept, Engaged

LEMMA EngagedInQueue ==
  ASSUME Types, NEW r \in Requests, Engaged(r), input' = input,
         pc' = [pc EXCEPT ![r] = "queued"], writeQueue' = Append(writeQueue, r)
  PROVE  (\A k \in DOMAIN writeQueue : Engaged(writeQueue[k]))'
  <1> SUFFICES ASSUME NEW k \in DOMAIN writeQueue'
               PROVE  /\ pc'[writeQueue'[k]] # "idle"
                      /\ input'[writeQueue'[k]].decision \in Decisions
    BY DEF Engaged
  <1>1. writeQueue \in Seq(Requests)
    BY DEF Types, TypeOK
  <1>2. \/ writeQueue'[k] = r
        \/ k \in DOMAIN writeQueue /\ writeQueue'[k] = writeQueue[k]
    BY <1>1, AppendElements
  <1>3. writeQueue'[k] \in Requests /\ Engaged(writeQueue'[k])
    BY <1>1, <1>2, EngagedIsKept
  <1> QED
    BY <1>3, EngagedIsKept

LEMMA TypesHandler ==
  ASSUME Types, NEW r \in Requests, Handler(r) \/ ReadFails(r)
  PROVE  Types'
  <1> USE DEF Types, TypeOK, InputsAreKept, Engaged, Answer, Goto, Locations, Codes,
              tables, work, thread, local
  <1>1. CASE FetchProposal(r)
    <2>1. proposals[input[r].proposal_id] \in ProposalRow
      BY <1>1, InputFields DEF FetchProposal
    <2> QED
      BY <1>1, <2>1 DEF FetchProposal
  <1>2. CASE CheckProposal(r)
    <2>1. input[r].proposal_id \in Proposals
      BY <1>2, InputFields DEF CheckProposal
    <2>2. Verdict(input[r], snapshot[r]) \in Codes
      BY DEF Verdict
    <2>3. CASE Verdict(input[r], snapshot[r]) # "200"
      <3>1. /\ pc' = [pc EXCEPT ![r] = "done"]
            /\ reply' = [reply EXCEPT ![r] = Verdict(input[r], snapshot[r])]
            /\ UNCHANGED <<tables, work, thread, local, input, reruns>>
        BY <1>2, <2>3 DEF CheckProposal
      <3> HIDE DEF Verdict
      <3> QED
        BY <2>2, <3>1
    <2>4. CASE Verdict(input[r], snapshot[r]) = "200"
      <3>1. /\ ids' = [ids EXCEPT ![r] = {input[r].proposal_id}]
            /\ writeQueue' = Append(writeQueue, r)
            /\ pc' = [pc EXCEPT ![r] = "queued"]
            /\ Engaged(r)
        BY <1>2, <2>4 DEF CheckProposal
      <3>2. writeQueue' \in Seq(Requests)
        BY <3>1, AppendElements
      <3>4. TypeOK'
        BY <1>2, <2>1, <3>1, <3>2 DEF CheckProposal
      <3>3. (\A k \in DOMAIN writeQueue : Engaged(writeQueue[k]))'
        BY <1>2, <3>1, EngagedInQueue DEF CheckProposal
      <3> QED
        BY <1>2, <3>1, <3>4, <3>3 DEF CheckProposal
    <2> QED
      BY <2>3, <2>4
  <1>3. CASE SelectClean(r)
    BY <1>3 DEF SelectClean
  <1>4. CASE EnqueueApproveAll(r)
    <2>3. writeQueue' = Append(writeQueue, r) /\ writeQueue' \in Seq(Requests)
      BY <1>4, AppendElements DEF EnqueueApproveAll
    <2>1. TypeOK'
      BY <1>4, <2>3 DEF EnqueueApproveAll
    <2>2. (\A k \in DOMAIN writeQueue : Engaged(writeQueue[k]))'
      BY <1>4, <2>3, EngagedInQueue DEF EnqueueApproveAll
    <2> QED
      BY <1>4, <2>1, <2>2 DEF EnqueueApproveAll
  <1>5. CASE Respond(r)
    BY <1>5, EngagedIsKept DEF Respond
  <1>6. CASE CountPending(r)
    <2>1. Cardinality({p \in Proposals : proposals[p].status = "PENDING_APPROVAL"}) \in Nat
      BY CountOfProposals
    <2> QED
      BY <1>6, <2>1 DEF CountPending
  <1>7. CASE ReadFails(r)
    BY <1>7 DEF ReadFails
  <1> QED
    BY <1>1, <1>2, <1>3, <1>4, <1>5, <1>6, <1>7 DEF Handler

LEMMA TypesEndTransaction ==
  ASSUME Types, EndTransaction
  PROVE  /\ owner' = NoRequest /\ todo' \in SUBSET Proposals /\ flipped' = NoProposal
         /\ locked' \in BOOLEAN
         /\ workProposals' \in [Proposals -> ProposalRow]
         /\ workApprovals' \in Seq(ApprovalRow)
  <1>1. << >> \in Seq(ApprovalRow)
    OBVIOUS
  <1> QED
    BY <1>1, NoRowIsARow DEF EndTransaction

LEMMA CurTypes ==
  ASSUME Types
  PROVE  /\ CurProposals \in [Proposals -> ProposalRow]
         /\ CurApprovals \in Seq(ApprovalRow)
  BY DEF Types, TypeOK, CurProposals, CurApprovals

LEMMA TypesWriteThread ==
  ASSUME Types, WriteThread \/ WriteFails
  PROVE  Types'
  <1> USE DEF Types, TypeOK, InputsAreKept, Engaged, Answer, Goto, Locations, Codes,
              tables, work, thread, local
  <1>1. CASE BeginWrite
    <2>1. Head(writeQueue) \in Requests /\ Engaged(Head(writeQueue))
      BY <1>1, TailElements DEF BeginWrite
    <2>4. writeQueue' = Tail(writeQueue) /\ writeQueue' \in Seq(Requests)
      BY <1>1, TailElements DEF BeginWrite
    <2>2. TypeOK'
      BY <1>1, <2>1, <2>4 DEF BeginWrite
    <2>3. /\ \A q \in Requests : Engaged(q) =>
               pc'[q] # "idle" /\ input'[q].decision \in Decisions
          /\ \A k \in DOMAIN writeQueue :
               writeQueue[k] \in Requests /\ Engaged(writeQueue[k])
      BY <1>1, <2>1, EngagedIsKept DEF BeginWrite
    <2>5. (\A k \in DOMAIN writeQueue : Engaged(writeQueue[k]))'
      <3> SUFFICES ASSUME NEW k \in DOMAIN writeQueue'
                   PROVE  /\ pc'[writeQueue'[k]] # "idle"
                          /\ input'[writeQueue'[k]].decision \in Decisions
        OBVIOUS
      <3>1. k + 1 \in DOMAIN writeQueue /\ writeQueue'[k] = writeQueue[k + 1]
        BY <1>1, <2>4, TailElements DEF BeginWrite
      <3> QED
        BY <2>3, <3>1
    <2>6. owner' = Head(writeQueue) /\ Engaged(owner)'
      BY <1>1, <2>1, <2>3 DEF BeginWrite
    <2>7. pc' = [pc EXCEPT ![owner'] = "writing"] /\ UNCHANGED <<flipped, input>>
      BY <1>1 DEF BeginWrite
    <2>8. owner' \in Requests /\ owner' # NoRequest
      BY <2>1, <2>6, ConstantsAssumption
    <2> QED
      BY <2>2, <2>5, <2>6, <2>7, <2>8
  <1>2. ASSUME NEW p \in Proposals, FlipStatus(p)
        PROVE  Types'
    <2>1. NewStatus(input[owner].decision) \in Decided
      BY <1>2, NewStatusIsDecided DEF FlipStatus
    <2>3. CurProposals \in [Proposals -> ProposalRow] /\ CurApprovals \in Seq(ApprovalRow)
      BY CurTypes
    <2>4. /\ workProposals' =
               [CurProposals EXCEPT ![p].status = NewStatus(input[owner].decision)]
          /\ workApprovals' = CurApprovals
      BY <1>2 DEF FlipStatus
    <2>5. [CurProposals[p] EXCEPT !.status = NewStatus(input[owner].decision)] \in ProposalRow
      BY <2>1, <2>3, RowWithStatus
    <2>2. workProposals' \in [Proposals -> ProposalRow] /\ workApprovals' \in Seq(ApprovalRow)
      BY <2>3, <2>4, <2>5
    <2> QED
      BY <1>2, <2>2 DEF FlipStatus
  <1>3. ASSUME NEW p \in Proposals, SkipRow(p)
        PROVE  Types'
    BY <1>3, CurTypes DEF SkipRow
  <1>4. ASSUME NEW p \in Proposals, RefuseRow(p)
        PROVE  Types'
    BY <1>4, TypesEndTransaction DEF RefuseRow
  <1>5. CASE InsertApproval
    <2>1. RowOf(owner, flipped) \in ApprovalRow
      BY <1>5, RowOfType DEF InsertApproval
    <2>2. workApprovals' \in Seq(ApprovalRow)
      BY <1>5, <2>1, AppendElements DEF InsertApproval
    <2> QED
      BY <1>5, <2>2 DEF InsertApproval
  <1>6. CASE Commit
    BY <1>6, CurTypes, TypesEndTransaction DEF Commit
  <1>7. CASE WriteFails
    BY <1>7, TypesEndTransaction DEF WriteFails
  <1> QED
    BY <1>1, <1>2, <1>3, <1>4, <1>5, <1>6, <1>7 DEF WriteThread, Statement

LEMMA TypesOthers ==
  ASSUME Types, Crash \/ (\E p \in Proposals : Propose(p) \/ Reassess(p))
  PROVE  Types'
  <1> USE DEF Types, TypeOK, InputsAreKept, Engaged, Locations, Codes,
              tables, work, thread, local
  <1>1. CASE Crash
    <2>1. writeQueue' = << >> /\ DOMAIN writeQueue' = {}
      BY <1>1 DEF Crash
    <2> QED
      BY <1>1, <2>1, TypesEndTransaction DEF Crash
  <1>2. ASSUME NEW p \in Proposals, Propose(p)
        PROVE  Types'
    BY <1>2 DEF Propose
  <1>3. ASSUME NEW p \in Proposals, Reassess(p)
        PROVE  Types'
    BY <1>3, ConstantsAssumption DEF Reassess
  <1> QED
    BY <1>1, <1>2, <1>3

LEMMA TypesNext == Types /\ [Next]_vars => Types'
  <1> SUFFICES ASSUME Types, [Next]_vars PROVE Types'
    OBVIOUS
  <1>1. CASE UNCHANGED vars
    BY <1>1 DEF vars, Types, TypeOK, InputsAreKept, Engaged, tables, work, thread, local
  <1>2. CASE Next
    BY <1>2, TypesReceive, TypesHandler, TypesWriteThread, TypesOthers DEF Next
  <1> QED
    BY <1>1, <1>2

\* Every variable keeps its type: in particular every row the handlers insert
\* is a row of the shape the schema gives it.
THEOREM TypeCorrectness == Spec => []TypeOK
  <1>1. Types => TypeOK
    BY DEF Types
  <1> QED
    BY <1>1, TypesInit, TypesNext, PTL DEF Spec

-----------------------------------------------------------------------------
(* How the three changes of the tables affect Accounted. *)

ProposalTable == [Proposals -> ProposalRow]
ApprovalTable == Seq(ApprovalRow)

LEMMA RowFields ==
  ASSUME NEW rows \in ApprovalTable, NEW k \in DOMAIN rows
  PROVE  /\ rows[k].proposal_id \in Proposals
         /\ rows[k].decision \in Decisions
         /\ rows[k].by \in Requests
         /\ NewStatus(rows[k].decision) \in Decided
  <1>1. rows[k] \in ApprovalRow
    BY DEF ApprovalTable
  <1>2. rows[k].proposal_id \in Proposals /\ rows[k].decision \in Decisions
        /\ rows[k].by \in Requests
    BY <1>1 DEF ApprovalRow
  <1> QED
    BY <1>2, NewStatusIsDecided

LEMMA AccountedFlip ==
  ASSUME NEW props \in ProposalTable, NEW rows \in ApprovalTable,
         NEW p \in Proposals, NEW s \in Decided,
         Accounted(props, rows, NoProposal), props[p].status \notin Decided
  PROVE  Accounted([props EXCEPT ![p].status = s], rows, p)
  <1> DEFINE new == [props EXCEPT ![p].status = s]
  <1>1. \A q \in Proposals : q # p => new[q] = props[q]
    BY DEF ProposalTable
  <1>2. \A k \in DOMAIN rows : rows[k].proposal_id \in Proposals \ {p}
    BY RowFields DEF Accounted
  <1> QED
    BY <1>1, <1>2, ConstantsAssumption DEF Accounted

LEMMA AccountedInsert ==
  ASSUME NEW props \in ProposalTable, NEW rows \in ApprovalTable,
         NEW row \in ApprovalRow,
         Accounted(props, rows, row.proposal_id),
         props[row.proposal_id].status = NewStatus(row.decision)
  PROVE  Accounted(props, Append(rows, row), NoProposal)
  <1> DEFINE new == Append(rows, row)
             n == Len(rows) + 1
  <1>1. /\ DOMAIN new = DOMAIN rows \cup {n}
        /\ new[n] = row
        /\ n \notin DOMAIN rows
        /\ \A k \in DOMAIN rows : new[k] = rows[k]
    BY AppendElements DEF ApprovalTable
  <1>2. row.proposal_id \in Proposals
    BY DEF ApprovalRow
  <1>3. \A k \in DOMAIN rows : rows[k].proposal_id \in Proposals \ {row.proposal_id}
    BY RowFields DEF Accounted
  <1> HIDE DEF new, n
  <1>4. \A k \in DOMAIN new : /\ props[new[k].proposal_id].status = NewStatus(new[k].decision)
                              /\ new[k].proposal_id # NoProposal
    BY <1>1, <1>2, <1>3, ConstantsAssumption DEF Accounted
  <1>5. \A k, l \in DOMAIN new : new[k].proposal_id = new[l].proposal_id => k = l
    BY <1>1, <1>3 DEF Accounted
  <1>6. ASSUME NEW q \in Proposals, props[q].status \in Decided
        PROVE  \E k \in DOMAIN new : new[k].proposal_id = q
    BY <1>1, <1>6 DEF Accounted
  <1>7. Accounted(props, new, NoProposal)
    BY <1>4, <1>5, <1>6 DEF Accounted
  <1> QED
    BY <1>7 DEF new

LEMMA AccountedOther ==
  ASSUME NEW props \in ProposalTable, NEW rows \in ApprovalTable,
         NEW p \in Proposals, NEW row \in ProposalRow,
         Accounted(props, rows, NoProposal),
         props[p].status \notin Decided, row.status \notin Decided
  PROVE  /\ Accounted([props EXCEPT ![p] = row], rows, NoProposal)
         /\ \A k \in DOMAIN rows : rows[k].proposal_id \in Proposals \ {p}
  <1>1. \A k \in DOMAIN rows : rows[k].proposal_id \in Proposals \ {p}
    BY RowFields DEF Accounted
  <1> QED
    BY <1>1 DEF Accounted, ProposalTable

LEMMA NotDecided == {"ABSENT", "PENDING_APPROVAL"} \cap Decided = {}
  BY DEF Decided
-----------------------------------------------------------------------------
IInv == Types /\ TransactionInvariant

LEMMA Tables ==
  ASSUME IInv
  PROVE  /\ proposals \in ProposalTable /\ approvals \in ApprovalTable
         /\ CurProposals \in ProposalTable /\ CurApprovals \in ApprovalTable
         /\ DOMAIN approvals \subseteq DOMAIN CurApprovals
         /\ \A k \in DOMAIN approvals : approvals[k].by \in Requests
         /\ \A k \in DOMAIN CurApprovals : CurApprovals[k].by \in Requests
  <1>1. /\ proposals \in ProposalTable /\ approvals \in ApprovalTable
        /\ CurProposals \in ProposalTable /\ CurApprovals \in ApprovalTable
    BY CurTypes DEF IInv, Types, TypeOK, ProposalTable, ApprovalTable
  <1>2. Len(approvals) <= Len(CurApprovals)
    BY <1>1 DEF IInv, TransactionInvariant, CurApprovals, ApprovalTable
  <1>3. DOMAIN approvals \subseteq DOMAIN CurApprovals
    BY <1>1, <1>2 DEF ApprovalTable
  <1> QED
    BY <1>1, <1>3, RowFields

LEMMA InvInit == Init => IInv
  <1> SUFFICES ASSUME Init PROVE IInv
    OBVIOUS
  <1>1. DOMAIN approvals = {} /\ CurApprovals = approvals /\ DOMAIN CurApprovals = {}
    BY DEF Init, CurApprovals
  <1>2. \A p \in Proposals : proposals[p].status = "ABSENT"
    BY DEF Init, NoRow
  <1>3. CurProposals = proposals /\ flipped = NoProposal /\ ~ locked
    BY DEF Init, CurProposals
  <1>4. TransactionInvariant
    BY <1>1, <1>2, <1>3, NotDecided
       DEF TransactionInvariant, OneRowPerDecision, WarningsHold, Accounted, AllAllowed
  <1> QED
    BY <1>4, TypesInit DEF IInv

\* Steps that leave the tables, the transaction and the inputs alone.
LEMMA InvQuiet ==
  ASSUME IInv, UNCHANGED <<tables, work, flipped, input>>,
         flipped # NoProposal => owner' = owner,
         \A q \in Requests : pc[q] # "idle" => pc'[q] # "idle"
  PROVE  TransactionInvariant'
  <1>1. CurProposals' = CurProposals /\ CurApprovals' = CurApprovals
    BY DEF CurProposals, CurApprovals, tables, work
  <1> QED
    BY <1>1, Tables
       DEF IInv, TransactionInvariant, OneRowPerDecision, WarningsHold,
           AllAllowed, Allowed, tables, work

LEMMA InvReceive ==
  ASSUME IInv, NEW r \in Requests, Receive(r)
  PROVE  TransactionInvariant'
  <1>1. /\ UNCHANGED <<tables, work, flipped, owner>>
        /\ pc[r] = "idle"
        /\ \A q \in Requests \ {r} : input'[q] = input[q] /\ pc'[q] = pc[q]
    BY DEF Receive, Answer, Goto, thread, IInv, Types, TypeOK
  <1>2. CurProposals' = CurProposals /\ CurApprovals' = CurApprovals
    BY <1>1 DEF CurProposals, CurApprovals, tables, work
  <1>3. flipped # NoProposal => owner \in Requests \ {r}
    BY <1>1 DEF IInv, Types, TypeOK, InputsAreKept, Engaged
  <1>4. /\ \A k \in DOMAIN approvals : approvals[k].by \in Requests \ {r}
        /\ \A k \in DOMAIN CurApprovals : CurApprovals[k].by \in Requests \ {r}
    BY <1>1, Tables DEF IInv, TransactionInvariant
  <1> QED
    BY <1>1, <1>2, <1>3, <1>4
       DEF IInv, TransactionInvariant, OneRowPerDecision, WarningsHold,
           AllAllowed, Allowed, tables, work

\* A rollback: by a refusal, a failure or the end of the process.
LEMMA InvRollback ==
  ASSUME IInv, UNCHANGED <<tables, input>>, EndTransaction,
         \A q \in Requests : pc[q] # "idle" => pc'[q] # "idle"
  PROVE  TransactionInvariant'
  <1>1. /\ CurProposals' = proposals /\ CurApprovals' = approvals
        /\ flipped' = NoProposal /\ ~ locked'
    BY DEF CurProposals, CurApprovals, tables, EndTransaction
  <1> QED
    BY <1>1, Tables
       DEF IInv, TransactionInvariant, OneRowPerDecision, WarningsHold,
           AllAllowed, Allowed, tables

\* While no INSERT is due, the transaction's view is itself accounted for.
LEMMA InvFlipStatus ==
  ASSUME IInv, NEW p \in Proposals, FlipStatus(p)
  PROVE  TransactionInvariant'
  <1> DEFINE d == input[owner].decision
             s == NewStatus(d)
  <1>1. /\ owner \in Requests /\ pc[owner] # "idle" /\ d \in Decisions /\ s \in Decided
        /\ owner # NoRequest /\ flipped = NoProposal
        /\ input[owner] \in Inputs
    BY NewStatusIsDecided DEF FlipStatus, IInv, Types, TypeOK, InputsAreKept, Engaged
  <1> HIDE DEF s, d
  <1>2. /\ CurProposals' = [CurProposals EXCEPT ![p].status = s]
        /\ CurApprovals' = CurApprovals /\ locked' /\ flipped' = p
        /\ workProposals' = CurProposals' /\ workApprovals' = CurApprovals'
        /\ UNCHANGED <<tables, owner, pc, input>>
    BY DEF FlipStatus, CurProposals, CurApprovals, s, d
  <1>3. /\ CurProposals[p].status = "PENDING_APPROVAL"
        /\ Allowed(owner, d, CurProposals[p])
    <2>1. WriteGuard(input[owner], CurProposals[p])
      BY DEF FlipStatus
    <2>2. CASE input[owner].handler = "approve_all"
      BY <2>1, <2>2 DEF WriteGuard, IsCleanPending, IsClean, Allowed
    <2>3. CASE input[owner].handler # "approve_all"
      BY <2>1, <2>3 DEF WriteGuard, DecideGuard, Allowed, d
    <2> QED
      BY <2>2, <2>3
  <1>4. CurProposals[p].status \notin Decided
    BY <1>3, NotDecided
  <1>5. Accounted(CurProposals, CurApprovals, NoProposal)
    BY <1>1 DEF IInv, TransactionInvariant
  <1>6. Accounted(CurProposals', CurApprovals', flipped')
    BY <1>1, <1>2, <1>4, <1>5, AccountedFlip, Tables
  <1>7. /\ CurProposals'[p].status = s
        /\ CurProposals'[p].risk_status = CurProposals[p].risk_status
        /\ CurProposals'[p].ai_flag = CurProposals[p].ai_flag
        /\ \A q \in Proposals \ {p} : CurProposals'[q] = CurProposals[q]
    BY <1>2, Tables DEF ProposalTable, ProposalRow
  <1>8. \A k \in DOMAIN CurApprovals : CurApprovals[k].proposal_id \in Proposals \ {p}
    BY <1>3, <1>4, <1>5, RowFields, Tables DEF Accounted
  <1>9. AllAllowed(CurProposals, CurApprovals)'
    BY <1>2, <1>7, <1>8 DEF IInv, TransactionInvariant, AllAllowed, Allowed
  <1>10. Allowed(owner, d, CurProposals[p])'
    BY <1>2, <1>3, <1>7 DEF Allowed, IsClean, d
  <1>11. /\ OneRowPerDecision' /\ WarningsHold'
         /\ \A k \in DOMAIN approvals' : pc'[approvals'[k].by] # "idle"
         /\ \A k \in DOMAIN CurApprovals' : pc'[CurApprovals'[k].by] # "idle"
    BY <1>2 DEF IInv, TransactionInvariant, OneRowPerDecision, WarningsHold, AllAllowed,
                Allowed, tables
  <1>12. /\ Len(approvals) <= Len(CurApprovals)
         /\ \A k \in DOMAIN approvals : CurApprovals[k] = approvals[k]
         /\ \A q \in Proposals :
              proposals[q].status \in Decided => CurProposals[q] = proposals[q]
    BY Tables DEF IInv, TransactionInvariant, CurProposals, CurApprovals, ApprovalTable
  <1>13. /\ Len(approvals') <= Len(workApprovals')
         /\ \A k \in DOMAIN approvals' : workApprovals'[k] = approvals'[k]
         /\ \A q \in Proposals :
              proposals'[q].status \in Decided => workProposals'[q] = proposals'[q]
    BY <1>2, <1>4, <1>7, <1>12 DEF tables
  <1> QED
    BY <1>2, <1>6, <1>7, <1>9, <1>10, <1>11, <1>13 DEF TransactionInvariant, s, d

LEMMA InvSkipRow ==
  ASSUME IInv, NEW p \in Proposals, SkipRow(p)
  PROVE  TransactionInvariant'
  <1>1. /\ CurProposals' = CurProposals /\ CurApprovals' = CurApprovals
        /\ locked' /\ flipped = NoProposal
        /\ workProposals' = CurProposals /\ workApprovals' = CurApprovals
        /\ UNCHANGED <<tables, flipped, owner, pc, input>>
    BY DEF SkipRow, CurProposals, CurApprovals
  <1>2. /\ Len(approvals) <= Len(CurApprovals)
        /\ \A k \in DOMAIN approvals : CurApprovals[k] = approvals[k]
        /\ \A q \in Proposals :
             proposals[q].status \in Decided => CurProposals[q] = proposals[q]
    BY Tables DEF IInv, TransactionInvariant, CurProposals, CurApprovals, ApprovalTable
  <1> QED
    BY <1>1, <1>2
       DEF IInv, TransactionInvariant, OneRowPerDecision, WarningsHold,
           AllAllowed, Allowed, tables

LEMMA InvInsertApproval ==
  ASSUME IInv, InsertApproval
  PROVE  TransactionInvariant'
  <1> DEFINE row == RowOf(owner, flipped)
  <1>1. /\ owner \in Requests /\ pc[owner] # "idle" /\ flipped \in Proposals
        /\ flipped # NoProposal /\ locked
    BY DEF InsertApproval, IInv, Types, TypeOK, InputsAreKept, Engaged, TransactionInvariant
  <1>2. row \in ApprovalRow
    BY <1>1, RowOfType DEF InsertApproval, IInv
  <1>3. /\ row.proposal_id = flipped /\ row.by = owner
        /\ row.decision = input[owner].decision
    BY DEF RowOf
  <1> HIDE DEF row
  <1>4. /\ CurProposals' = CurProposals /\ CurProposals = workProposals
        /\ CurApprovals = workApprovals
        /\ CurApprovals' = Append(CurApprovals, row)
        /\ workProposals' = CurProposals' /\ workApprovals' = CurApprovals'
        /\ locked' /\ flipped' = NoProposal
        /\ UNCHANGED <<tables, owner, pc, input>>
    BY <1>1 DEF InsertApproval, CurProposals, CurApprovals, row
  <1>5. /\ Accounted(CurProposals, CurApprovals, row.proposal_id)
        /\ CurProposals[row.proposal_id].status = NewStatus(row.decision)
        /\ Allowed(row.by, row.decision, CurProposals[row.proposal_id])
    BY <1>1, <1>3 DEF IInv, TransactionInvariant
  <1>6. Accounted(CurProposals', CurApprovals', flipped')
    BY <1>2, <1>4, <1>5, AccountedInsert, Tables
  <1>7. /\ DOMAIN CurApprovals' = DOMAIN CurApprovals \cup {Len(CurApprovals) + 1}
        /\ CurApprovals'[Len(CurApprovals) + 1] = row
        /\ \A k \in DOMAIN CurApprovals : CurApprovals'[k] = CurApprovals[k]
        /\ Len(CurApprovals) <= Len(CurApprovals')
    BY <1>2, <1>4, AppendElements, Tables DEF ApprovalTable
  <1>8. AllAllowed(CurProposals, CurApprovals)'
    BY <1>4, <1>5, <1>7 DEF IInv, TransactionInvariant, AllAllowed, Allowed
  <1>9. /\ OneRowPerDecision' /\ WarningsHold'
        /\ \A k \in DOMAIN approvals' : pc'[approvals'[k].by] # "idle"
    BY <1>4 DEF IInv, TransactionInvariant, OneRowPerDecision, WarningsHold, AllAllowed,
                Allowed, tables
  <1>10. \A k \in DOMAIN CurApprovals' : pc'[CurApprovals'[k].by] # "idle"
    BY <1>1, <1>3, <1>4, <1>7 DEF IInv, TransactionInvariant
  <1>11. /\ Len(approvals') <= Len(workApprovals')
         /\ \A k \in DOMAIN approvals' : workApprovals'[k] = approvals'[k]
         /\ \A q \in Proposals :
              proposals'[q].status \in Decided => workProposals'[q] = proposals'[q]
    <2>1. Len(approvals) \in Nat /\ Len(CurApprovals) \in Nat /\ Len(CurApprovals') \in Nat
      BY <1>2, <1>4, AppendElements, Tables DEF ApprovalTable
    <2>2. Len(approvals) <= Len(CurApprovals)
      BY <1>1, <1>4 DEF IInv, TransactionInvariant
    <2> QED
      BY <1>1, <1>4, <1>7, <2>1, <2>2, Tables DEF IInv, TransactionInvariant, tables
  <1> QED
    BY <1>4, <1>6, <1>8, <1>9, <1>10, <1>11 DEF TransactionInvariant

LEMMA InvCommit ==
  ASSUME IInv, Commit
  PROVE  TransactionInvariant'
  <1>1. /\ CurProposals' = CurProposals /\ CurApprovals' = CurApprovals
        /\ proposals' = CurProposals /\ approvals' = CurApprovals
        /\ flipped = NoProposal /\ flipped' = NoProposal /\ ~ locked'
        /\ UNCHANGED input
        /\ \A q \in Requests : pc[q] # "idle" => pc'[q] # "idle"
    BY DEF Commit, EndTransaction, Goto, CurProposals, CurApprovals, IInv, Types, TypeOK
  <1> QED
    BY <1>1, Tables
       DEF IInv, TransactionInvariant, OneRowPerDecision, WarningsHold, AllAllowed, Allowed

\* Propose and Reassess write only while no transaction holds the lock, and
\* only a row that is not decided.
LEMMA InvOtherProcess ==
  ASSUME IInv, NEW p \in Proposals, Propose(p) \/ Reassess(p)
  PROVE  TransactionInvariant'
  <1>1. /\ ~ locked /\ ~ locked' /\ proposals[p].status \in {"ABSENT", "PENDING_APPROVAL"}
        /\ UNCHANGED <<approvals, pc, input, flipped>>
    BY DEF Propose, Reassess, work, thread
  <1>2. PICK row \in ProposalRow :
          row.status = "PENDING_APPROVAL" /\ proposals' = [proposals EXCEPT ![p] = row]
    BY DEF Propose, Reassess
  <1>3. /\ CurProposals' = proposals' /\ CurApprovals' = approvals
        /\ CurProposals = proposals /\ CurApprovals = approvals
        /\ flipped = NoProposal
    BY <1>1 DEF CurProposals, CurApprovals, IInv, TransactionInvariant
  <1>4. proposals[p].status \notin Decided /\ row.status \notin Decided
    BY <1>1, <1>2, NotDecided
  <1>5. Accounted(proposals, approvals, NoProposal)
    BY DEF IInv, TransactionInvariant, OneRowPerDecision
  <1>6. /\ Accounted(proposals', approvals, NoProposal)
        /\ \A k \in DOMAIN approvals : approvals[k].proposal_id \in Proposals \ {p}
    BY <1>2, <1>4, <1>5, AccountedOther, Tables
  <1>7. \A q \in Proposals \ {p} : proposals'[q] = proposals[q]
    BY <1>2, Tables DEF ProposalTable
  <1>8. AllAllowed(proposals, approvals)'
    BY <1>1, <1>6, <1>7 DEF IInv, TransactionInvariant, WarningsHold, AllAllowed, Allowed
  <1> QED
    BY <1>1, <1>3, <1>6, <1>8
       DEF IInv, TransactionInvariant, OneRowPerDecision, WarningsHold

LEMMA InvNext == IInv /\ [Next]_vars => IInv'
  <1> SUFFICES ASSUME IInv, [Next]_vars PROVE TransactionInvariant'
    BY TypesNext DEF IInv
  <1>1. CASE UNCHANGED vars
    BY <1>1, InvQuiet DEF vars, thread
  <1>2. ASSUME NEW r \in Requests, Receive(r)
        PROVE  TransactionInvariant'
    BY <1>2, InvReceive
  <1>3. ASSUME NEW r \in Requests, Handler(r) \/ ReadFails(r)
        PROVE  TransactionInvariant'
    <2>1. /\ UNCHANGED <<tables, work, flipped, owner, input>>
          /\ \A q \in Requests : pc[q] # "idle" => pc'[q] # "idle"
      BY <1>3 DEF Handler, FetchProposal, CheckProposal, SelectClean, EnqueueApproveAll,
                  Respond, CountPending, ReadFails, Answer, Goto, thread, IInv, Types, TypeOK
    <2> QED
      BY <2>1, InvQuiet
  <1>4. CASE BeginWrite
    <2>1. /\ UNCHANGED <<tables, work, flipped, input>> /\ flipped = NoProposal
          /\ \A q \in Requests : pc[q] # "idle" => pc'[q] # "idle"
      BY <1>4 DEF BeginWrite, Goto, IInv, Types, TypeOK, InputsAreKept
    <2> QED
      BY <2>1, InvQuiet
  <1>5. ASSUME NEW p \in Proposals, Statement(p)
        PROVE  TransactionInvariant'
    <2>1. CASE RefuseRow(p)
      <3>1. \A q \in Requests : pc[q] # "idle" => pc'[q] # "idle"
        BY <2>1 DEF RefuseRow, Answer, IInv, Types, TypeOK
      <3> QED
        BY <2>1, <3>1, InvRollback DEF RefuseRow
    <2> QED
      BY <1>5, <2>1, InvFlipStatus, InvSkipRow DEF Statement
  <1>6. CASE InsertApproval
    BY <1>6, InvInsertApproval
  <1>7. CASE Commit
    BY <1>7, InvCommit
  <1>8. CASE WriteFails \/ Crash
    <2>1. \A q \in Requests : pc[q] # "idle" => pc'[q] # "idle"
      BY <1>8 DEF WriteFails, Crash, Answer, IInv, Types, TypeOK
    <2> QED
      BY <1>8, <2>1, InvRollback DEF WriteFails, Crash
  <1>9. ASSUME NEW p \in Proposals, Propose(p) \/ Reassess(p)
        PROVE  TransactionInvariant'
    BY <1>9, InvOtherProcess
  <1> QED
    BY <1>1, <1>2, <1>3, <1>4, <1>5, <1>6, <1>7, <1>8, <1>9 DEF Next, WriteThread

-----------------------------------------------------------------------------
(* The theorems. *)

\* The strengthening itself: what is committed and what the transaction sees
\* are both accounted for, at every moment.
THEOREM TransactionInvariance == Spec => []TransactionInvariant
  <1>1. IInv => TransactionInvariant
    BY DEF IInv
  <1> QED
    BY <1>1, InvInit, InvNext, PTL DEF Spec

\* Crashes, failed statements and concurrent requests notwithstanding, each
\* decided proposal has exactly one approvals row and no other has any.
THEOREM EveryDecisionHasOneRow == Spec => []OneRowPerDecision
  <1>1. IInv => OneRowPerDecision
    BY DEF IInv, TransactionInvariant
  <1> QED
    BY <1>1, InvInit, InvNext, PTL DEF Spec

\* A risk-rejected proposal is never approved or modified, and approve_all
\* never decides a flagged one, however stale what the handler read.
THEOREM WarningsAlwaysHold == Spec => []WarningsHold
  <1>1. IInv => WarningsHold
    BY DEF IInv, TransactionInvariant
  <1> QED
    BY <1>1, InvInit, InvNext, PTL DEF Spec

\* The approvals table is append-only and a decision is final.
THEOREM HistoryNeverChanges == Spec => HistoryIsFinal
  <1> DEFINE Final ==
        /\ Len(approvals) <= Len(approvals')
        /\ \A k \in DOMAIN approvals : approvals'[k] = approvals[k]
        /\ \A p \in Proposals : proposals[p].status \in Decided =>
             proposals'[p] = proposals[p]
  <1>1. IInv /\ [Next]_vars => [Final]_vars
    <2> SUFFICES ASSUME IInv, Next PROVE Final
      OBVIOUS
    <2>0. Len(approvals) \in Nat
      BY Tables DEF ApprovalTable
    <2>1. CASE UNCHANGED tables
      BY <2>0, <2>1 DEF tables
    <2>2. CASE Commit
      <3>1. approvals' = CurApprovals /\ proposals' = CurProposals
        BY <2>2 DEF Commit
      <3> QED
        BY <2>0, <3>1 DEF IInv, TransactionInvariant, CurApprovals, CurProposals
    <2>3. ASSUME NEW p \in Proposals, Propose(p) \/ Reassess(p)
          PROVE  Final
      <3>1. /\ approvals' = approvals
            /\ proposals[p].status \in {"ABSENT", "PENDING_APPROVAL"}
            /\ \A q \in Proposals \ {p} : proposals'[q] = proposals[q]
        BY <2>3, Tables DEF Propose, Reassess, ProposalTable
      <3> QED
        BY <2>0, <3>1, NotDecided
    <2>4. UNCHANGED tables \/ Commit \/ \E p \in Proposals : Propose(p) \/ Reassess(p)
      BY DEF Next, WriteThread, Statement, Receive, Handler, ReadFails, FetchProposal,
             CheckProposal, SelectClean, EnqueueApproveAll, Respond, CountPending,
             BeginWrite, FlipStatus, SkipRow, RefuseRow, InsertApproval, WriteFails, Crash
    <2> QED
      BY <2>1, <2>2, <2>3, <2>4
  <1> QED
    BY <1>1, InvInit, InvNext, PTL DEF Spec, HistoryIsFinal
=============================================================================
