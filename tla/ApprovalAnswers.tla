-------------------------- MODULE ApprovalAnswers --------------------------
(***************************************************************************)
(* What a client is told, and what is recorded about it, is true: for any  *)
(* number of proposals and requests.                                       *)
(*                                                                         *)
(* Between the read of a handler and its answer lie the queue, another     *)
(* process and the write thread.  The invariant follows a request through  *)
(* them: what it has been shown, what its function has written so far, and *)
(* what of this is committed when it is answered.                          *)
(***************************************************************************)
EXTENDS ApprovalRefinement

Single(r) == input[r].handler = "approve"
Bulk(r)   == input[r].handler = "approve_all"

\* The row that a 200 of approve_proposal promises.
OwnRow(r, rows) ==
  \E k \in DOMAIN rows : /\ rows[k].by = r
                         /\ rows[k].proposal_id = input[r].proposal_id
                         /\ rows[k].decision = input[r].decision

\* Where a request is decides what it has been told and what it has counted.
Told(r) ==
  /\ pc[r] = "done" <=> reply[r] # "none"
  /\ pc[r] \in {"idle", "fetch", "check", "select", "enqueue", "queued"} => approved[r] = 0
  /\ pc[r] \in {"queued", "writing"} => Single(r) \/ Bulk(r)
  /\ pc[r] = "respond" => Single(r)
  /\ pc[r] = "count" => Bulk(r)

\* What it has been told is in the approvals table, and only what it wrote is.
Kept(r) ==
  /\ Single(r) /\ (pc[r] = "respond" \/ reply[r] = "200") => OwnRow(r, approvals)
  /\ Single(r) /\ RowsBy(r) # {} => pc[r] \in {"respond", "lost"} \/ reply[r] = "200"
  /\ Bulk(r) /\ (pc[r] = "count" \/ reply[r] = "200") =>
       approved[r] = Cardinality(RowsBy(r))

\* What the human was shown is what is decided, unless a decision came first or
\* somebody has refreshed a pending row.
Shown(r) ==
  /\ Single(r) /\ pc[r] \in {"check", "queued", "writing"} =>
       LET row == proposals[input[r].proposal_id] IN
         /\ snapshot[r].status \in Decided => row = snapshot[r]
         /\ reruns = 0 /\ snapshot[r].status = "PENDING_APPROVAL" =>
              row = snapshot[r] \/ row.status \in Decided
  /\ Single(r) /\ pc[r] \in {"queued", "writing"} =>
       Verdict(input[r], snapshot[r]) = "200" /\ ids[r] = {input[r].proposal_id}
  /\ reply[r] = "409" =>
       /\ Single(r)
       /\ reruns = 0 => proposals[input[r].proposal_id].status \in Decided

Followed(r) == Told(r) /\ Kept(r) /\ Shown(r)

\* A row counts as an override exactly when it is one in terms of `prop`.
RowExact(row, prop) ==
  /\ row.override <=> \/ row.decision = "MODIFY"
                      \/ row.decision = "APPROVE" /\ prop.ai_flag = "flagged"
                      \/ row.decision = "REJECT" /\ IsClean(prop)
  /\ row.override => row.override_reason

Exact(props, rows) ==
  \A k \in DOMAIN rows : RowExact(rows[k], props[rows[k].proposal_id])

\* The running function: what it has not tried it has not touched, its counter
\* is right, and once it has tried its only id, the row is there or to come.
Thread ==
  /\ owner # NoRequest =>
       /\ todo \subseteq ids[owner]
       /\ \A p \in todo : CurProposals[p] = proposals[p]
       /\ flipped # NoProposal => flipped \in ids[owner]
       /\ Single(owner) => \/ input[owner].proposal_id \in todo \cup {flipped}
                           \/ OwnRow(owner, CurApprovals)
       /\ Bulk(owner) => approved[owner] = Len(CurApprovals) - Len(approvals)
  /\ reruns = 0 =>
       /\ Exact(proposals, approvals)
       /\ Exact(CurProposals, CurApprovals)
       /\ flipped # NoProposal => RowExact(RowOf(owner, flipped), CurProposals[flipped])

AInv == RInv /\ Thread /\ \A r \in Requests : Followed(r)

LEMMA AInvInit == Init => AInv
  <1> SUFFICES ASSUME Init PROVE AInv
    OBVIOUS
  <1>1. /\ DOMAIN approvals = {} /\ CurApprovals = approvals /\ CurProposals = proposals
        /\ owner = NoRequest /\ flipped = NoProposal
    BY DEF Init, CurApprovals, CurProposals
  <1>2. ASSUME NEW r \in Requests PROVE Followed(r)
    BY <1>1 DEF Init, OtherMethod, Followed, Told, Kept, Shown, Single, Bulk, RowsBy
  <1>3. Thread
    BY <1>1 DEF Thread, Exact
  <1> QED
    BY <1>2, <1>3, RInvInit DEF AInv

-----------------------------------------------------------------------------
(* What a step leaves alone.  It does not touch a request, it only adds to  *)
(* the history, and pending rows stay what they are unless refreshed.       *)

Untouched(q) ==
  /\ pc'[q] = pc[q] /\ input'[q] = input[q] /\ snapshot'[q] = snapshot[q]
  /\ ids'[q] = ids[q] /\ reply'[q] = reply[q] /\ approved'[q] = approved[q]

OnlyAdds ==
  /\ \A k \in DOMAIN approvals : k \in DOMAIN approvals' /\ approvals'[k] = approvals[k]
  /\ \A p \in Proposals : proposals[p].status \in Decided => proposals'[p] = proposals[p]

NotRefreshed ==
  reruns' = 0 =>
    /\ reruns = 0
    /\ \A p \in Proposals : proposals[p].status = "PENDING_APPROVAL" =>
         proposals'[p] = proposals[p] \/ proposals'[p].status \in Decided

LEMMA ProposalOfSingle ==
  ASSUME RInv, NEW r \in Requests, Single(r)
  PROVE  input[r].proposal_id \in Proposals
  BY InputFields DEF RInv, IInv, Types, TypeOK, Single

LEMMA NoHandlerIsTwo ==
  ASSUME NEW r \in Requests
  PROVE  ~ (Single(r) /\ Bulk(r))
  BY DEF Single, Bulk

\* What follows a request goes on following it through the steps of others.
LEMMA FollowOther ==
  ASSUME RInv, NEW q \in Requests, Followed(q), Untouched(q), OnlyAdds, NotRefreshed,
         \A k \in DOMAIN approvals' \ DOMAIN approvals : approvals'[k].by # q
  PROVE  Followed(q)'
  <1>1. (RowsBy(q))' = RowsBy(q)
    BY DEF RowsBy, OnlyAdds
  <1>2. OwnRow(q, approvals) => OwnRow(q, approvals)'
    BY DEF OwnRow, OnlyAdds, Untouched
  <1>3. Single(q)' = Single(q) /\ Bulk(q)' = Bulk(q)
    BY DEF Single, Bulk, Untouched
  <1>4. Told(q)'
    BY <1>3 DEF Followed, Told, Untouched
  <1>5. Kept(q)'
    BY <1>1, <1>2, <1>3 DEF Followed, Kept, Untouched
  <1>6. Shown(q)'
    <2>1. Single(q) => input[q].proposal_id \in Proposals
      BY ProposalOfSingle
    <2>2. Single(q) =>
            LET row == proposals[input[q].proposal_id]
                new == proposals'[input[q].proposal_id] IN
              /\ row.status \in Decided => new = row
              /\ reruns' = 0 => reruns = 0
              /\ reruns' = 0 /\ row.status = "PENDING_APPROVAL" =>
                   new = row \/ new.status \in Decided
      BY <2>1 DEF OnlyAdds, NotRefreshed
    <2> QED
      BY <1>3, <2>2 DEF Followed, Shown, Untouched
  <1> QED
    BY <1>4, <1>5, <1>6 DEF Followed

\* The running function, while its transaction and its request stand still.
LEMMA ThreadStands ==
  ASSUME AInv, UNCHANGED <<tables, work, owner, todo, flipped, reruns>>,
         owner # NoRequest => Untouched(owner)
  PROVE  Thread'
  <1>1. CurProposals' = CurProposals /\ CurApprovals' = CurApprovals
    BY DEF CurProposals, CurApprovals, tables, work
  <1>2. flipped # NoProposal => owner # NoRequest
    BY DEF AInv, RInv, IInv, Types, InputsAreKept
  <1>3. owner # NoRequest =>
          /\ Single(owner)' = Single(owner) /\ Bulk(owner)' = Bulk(owner)
          /\ OwnRow(owner, CurApprovals)' = OwnRow(owner, CurApprovals)
          /\ RowOf(owner, flipped)' = RowOf(owner, flipped)
    BY <1>1 DEF Single, Bulk, OwnRow, RowOf, Untouched
  <1> QED
    BY <1>1, <1>2, <1>3 DEF AInv, Thread, Exact, tables, work, Untouched

-----------------------------------------------------------------------------
(* The steps of the handlers: one request moves, everything else stands. *)

\* Which request moves, and that it is not the one on the write thread.
LEMMA HandlerStands ==
  ASSUME AInv, NEW r \in Requests, Receive(r) \/ Handler(r) \/ ReadFails(r)
  PROVE  /\ UNCHANGED <<tables, work, owner, todo, flipped, reruns>>
         /\ \A q \in Requests \ {r} : Untouched(q)
         /\ owner # NoRequest => owner \in Requests \ {r}
         /\ OnlyAdds /\ NotRefreshed
         /\ pc[r] # "writing"
  <1> USE DEF AInv, RInv, IInv, Types, TypeOK, tables, work, thread, local
  <1>1. /\ UNCHANGED <<tables, work, owner, todo, flipped, reruns>>
        /\ pc[r] # "writing"
    BY DEF Receive, Handler, FetchProposal, CheckProposal, SelectClean,
           EnqueueApproveAll, Respond, CountPending, ReadFails
  <1>2. ASSUME NEW q \in Requests \ {r} PROVE Untouched(q)
    <2>1. CASE Receive(r) \/ ReadFails(r)
      BY <2>1 DEF Receive, ReadFails, Answer, Goto, Untouched
    <2>2. CASE Handler(r)
      BY <2>2 DEF Handler, FetchProposal, CheckProposal, SelectClean, EnqueueApproveAll,
                  Respond, CountPending, Answer, Goto, Untouched
    <2> QED
      BY <2>1, <2>2
  <1>3. owner # NoRequest => owner \in Requests \ {r}
    BY <1>1 DEF Seated
  <1>4. OnlyAdds /\ NotRefreshed
    BY <1>1 DEF OnlyAdds, NotRefreshed
  <1> QED
    BY <1>1, <1>2, <1>3, <1>4

\* A request that has written nothing yet has no row.
LEMMA NoRowsYet ==
  ASSUME RInv, NEW r \in Requests, pc[r] \notin Past, approvals' = approvals
  PROVE  RowsBy(r) = {} /\ (RowsBy(r))' = {}
  BY NotInThePast DEF RowsBy

LEMMA FollowReceive ==
  ASSUME AInv, NEW r \in Requests, Receive(r)
  PROVE  Followed(r)'
  <1>1. PICK i \in Inputs :
          /\ input' = [input EXCEPT ![r] = i]
          /\ \/ i.handler = "other_method" /\ Answer(r, "405")
             \/ i.handler = "approve_all" /\ Goto(r, "select")
             \/ i.handler = "approve" /\ i.decision = "INVALID" /\ Answer(r, "400")
             \/ i.handler = "approve" /\ i.decision # "INVALID" /\ Goto(r, "fetch")
    BY DEF Receive
  <1>2. pc[r] = "idle" /\ UNCHANGED <<tables, approved>>
    BY DEF Receive, local
  <1>3. reply[r] = "none" /\ approved[r] = 0
    BY <1>2 DEF AInv, Followed, Told, RInv, IInv, Types, TypeOK, Codes
  <1>4. /\ input'[r] = i
        /\ \/ pc'[r] = "done" /\ reply'[r] \in {"400", "405"}
           \/ pc'[r] \in {"select", "fetch"} /\ reply'[r] = "none"
    BY <1>1, <1>3 DEF Answer, Goto, AInv, RInv, IInv, Types, TypeOK
  <1>5. (RowsBy(r))' = {}
    BY <1>2, NoRowsYet DEF Past, AInv, tables
  <1>6. pc'[r] = "done" <=> reply'[r] # "none"
    BY <1>4
  <1>7. Told(r)'
    BY <1>2, <1>3, <1>4, <1>6 DEF Told
  <1> QED
    BY <1>4, <1>5, <1>7 DEF Followed, Kept, Shown

LEMMA FollowFetchProposal ==
  ASSUME AInv, NEW r \in Requests, FetchProposal(r)
  PROVE  Followed(r)'
  <1>1. /\ pc[r] = "fetch" /\ pc'[r] = "check" /\ UNCHANGED <<input, reply, approved, tables, reruns>>
        /\ snapshot'[r] = proposals[input[r].proposal_id]
    BY DEF FetchProposal, Goto, AInv, RInv, IInv, Types, TypeOK
  <1>2. reply[r] = "none" /\ approved[r] = 0
    BY <1>1 DEF AInv, Followed, Told, RInv, IInv, Types, TypeOK, Codes
  <1>3. (RowsBy(r))' = {}
    BY <1>1, NoRowsYet DEF Past, AInv, tables
  <1> QED
    BY <1>1, <1>2, <1>3 DEF Followed, Told, Kept, Shown, tables

\* A 409 is the verdict on a row that had been decided when it was read.
LEMMA ConflictWasDecided ==
  ASSUME RInv, NEW r \in Requests, Verdict(input[r], snapshot[r]) = "409"
  PROVE  snapshot[r].status \in Decided
  BY DEF Verdict, RInv, IInv, Types, TypeOK, ProposalRow

LEMMA FollowCheckProposal ==
  ASSUME AInv, NEW r \in Requests, CheckProposal(r)
  PROVE  Followed(r)'
  <1> DEFINE verdict == Verdict(input[r], snapshot[r])
  <1>1. /\ pc[r] = "check" /\ UNCHANGED <<input, snapshot, approved, tables, reruns>>
        /\ \/ verdict # "200" /\ pc'[r] = "done" /\ reply'[r] = verdict
           \/ /\ verdict = "200" /\ pc'[r] = "queued" /\ reply'[r] = reply[r]
              /\ ids'[r] = {input[r].proposal_id}
    BY DEF CheckProposal, Answer, Goto, AInv, RInv, IInv, Types, TypeOK
  <1>2. /\ reply[r] = "none" /\ approved[r] = 0 /\ Single(r) /\ ~ Bulk(r)
        /\ verdict \in Codes \ {"none"}
    BY <1>1 DEF AInv, Followed, Told, RInv, IInv, Types, TypeOK, Codes, InputsAreKept, Single,
                Bulk, Verdict
  <1>3. (RowsBy(r))' = {}
    BY <1>1, NoRowsYet DEF Past, AInv, tables
  <1>4. verdict = "409" => proposals[input[r].proposal_id].status \in Decided
    BY <1>1, <1>2, ConflictWasDecided DEF AInv, Followed, Shown
  <1>5. Single(r)' /\ ~ Bulk(r)' /\ verdict' = verdict
    BY <1>1, <1>2 DEF Single, Bulk
  <1> HIDE DEF verdict
  <1>6. Told(r)'
    BY <1>1, <1>2, <1>5 DEF Told
  <1>7. Kept(r)'
    BY <1>1, <1>2, <1>3, <1>5 DEF Kept
  <1>8. Shown(r)'
    BY <1>1, <1>2, <1>4, <1>5 DEF Shown, verdict, tables, AInv, Followed
  <1> QED
    BY <1>6, <1>7, <1>8 DEF Followed

LEMMA FollowApproveAll ==
  ASSUME AInv, NEW r \in Requests, SelectClean(r) \/ EnqueueApproveAll(r)
  PROVE  Followed(r)'
  <1>1. /\ pc[r] \in {"select", "enqueue"} /\ pc'[r] \in {"enqueue", "queued"}
        /\ UNCHANGED <<input, reply, approved, tables>>
    BY DEF SelectClean, EnqueueApproveAll, Goto, AInv, RInv, IInv, Types, TypeOK, local
  <1>2. reply[r] = "none" /\ approved[r] = 0 /\ Bulk(r) /\ ~ Single(r)
    BY <1>1 DEF AInv, Followed, Told, RInv, IInv, Types, TypeOK, Codes, InputsAreKept, Bulk, Single
  <1>3. Bulk(r)' /\ ~ Single(r)'
    BY <1>1, <1>2 DEF Bulk, Single
  <1> QED
    BY <1>1, <1>2, <1>3 DEF Followed, Told, Kept, Shown

\* The last step of a handler, with the answer that its place calls for.
LEMMA FollowAnswer ==
  ASSUME AInv, NEW r \in Requests, Respond(r) \/ CountPending(r) \/ ReadFails(r)
  PROVE  Followed(r)'
  <1>1. /\ UNCHANGED <<input, approved, tables>> /\ pc'[r] = "done"
        /\ \/ pc[r] = "respond" /\ reply'[r] = "200"
           \/ pc[r] = "count" /\ reply'[r] = "200"
           \/ pc[r] \in {"fetch", "select", "count"} /\ reply'[r] = "500"
    BY DEF Respond, CountPending, ReadFails, Answer, AInv, RInv, IInv, Types, TypeOK, local
  <1>2. /\ pc[r] = "respond" => Single(r) /\ ~ Bulk(r)
        /\ pc[r] = "count" => Bulk(r) /\ ~ Single(r)
    BY DEF AInv, Followed, Told, Single, Bulk
  <1>3. (RowsBy(r))' = RowsBy(r)
    BY <1>1 DEF RowsBy, tables
  <1>4. pc[r] \in {"fetch", "select"} => RowsBy(r) = {}
    BY <1>1, NoRowsYet DEF Past, AInv, tables
  <1>5. /\ Single(r)' = Single(r) /\ Bulk(r)' = Bulk(r)
        /\ OwnRow(r, approvals)' = OwnRow(r, approvals)
    BY <1>1 DEF Single, Bulk, OwnRow, tables
  <1>6. Told(r)'
    BY <1>1 DEF Told
  <1>7. Kept(r)'
    BY <1>1, <1>2, <1>3, <1>4, <1>5 DEF Kept, AInv, Followed
  <1>8. Shown(r)'
    BY <1>1 DEF Shown
  <1> QED
    BY <1>6, <1>7, <1>8 DEF Followed

LEMMA AnswersHandler ==
  ASSUME AInv, NEW r \in Requests, Receive(r) \/ Handler(r) \/ ReadFails(r)
  PROVE  Thread' /\ \A q \in Requests : Followed(q)'
  <1>1. Thread'
    BY HandlerStands, ThreadStands
  <1>2. Followed(r)'
    BY FollowReceive, FollowFetchProposal, FollowCheckProposal, FollowApproveAll, FollowAnswer
       DEF Handler
  <1>3. ASSUME NEW q \in Requests \ {r} PROVE Followed(q)'
    BY HandlerStands, FollowOther DEF AInv, tables
  <1> QED
    BY <1>1, <1>2, <1>3

-----------------------------------------------------------------------------
(* The steps of the write thread: its owner moves. *)

LEMMA AnswersBeginWrite ==
  ASSUME AInv, BeginWrite
  PROVE  Thread' /\ \A q \in Requests : Followed(q)'
  <1>1. PICK r \in Requests :
        /\ r # NoRequest /\ pc[r] = "queued"
        /\ owner' = r /\ todo' = ids[r] /\ ~ locked /\ flipped = NoProposal
        /\ pc'[r] = "writing" /\ \A q \in Requests \ {r} : pc'[q] = pc[q]
        /\ UNCHANGED <<tables, work, flipped, local, input, reply, reruns>>
    <2>1. Head(writeQueue) \in Requests /\ pc[Head(writeQueue)] = "queued"
      BY TailElements DEF BeginWrite, AInv, RInv, IInv, Types, TypeOK, Seated
    <2>2. owner = NoRequest /\ flipped = NoProposal /\ ~ locked
      BY DEF BeginWrite, AInv, RInv, IInv, Types, InputsAreKept, Seated
    <2> QED
      BY <2>1, <2>2, ConstantsAssumption
         DEF BeginWrite, Goto, AInv, RInv, IInv, Types, TypeOK
  <1>2. /\ CurProposals' = proposals /\ CurApprovals' = approvals
        /\ UNCHANGED <<proposals, approvals>>
    BY <1>1 DEF CurProposals, CurApprovals, tables, work
  <1>3. RowsBy(r) = {} /\ (RowsBy(r))' = {} /\ Followed(r)
    BY <1>1, <1>2, NoRowsYet DEF AInv, Past
  <1>4. /\ Single(r)' = Single(r) /\ Bulk(r)' = Bulk(r)
        /\ UNCHANGED <<snapshot, ids, reply, approved, input, reruns>>
    BY <1>1 DEF Single, Bulk, local
  <1>5. /\ reply[r] = "none" /\ approved[r] = 0
        /\ Single(r) \/ Bulk(r)
        /\ Single(r) => ids[r] = {input[r].proposal_id}
    BY <1>1, <1>3 DEF Followed, Told, Shown, AInv, RInv, IInv, Types, TypeOK, Codes
  <1>6. Thread'
    <2>1. /\ Single(r) => input[r].proposal_id \in todo'
          /\ Len(approvals) - Len(approvals) = 0
      BY <1>1, <1>5, Tables DEF AInv, RInv, ApprovalTable
    <2>2. reruns = 0 => Exact(proposals, approvals)
      BY DEF AInv, Thread
    <2>3. flipped' = NoProposal /\ todo' \subseteq ids[r]
      BY <1>1
    <2>4. /\ Single(owner)' => input[r].proposal_id \in todo'
          /\ Bulk(owner)' => approved'[r] = Len(CurApprovals') - Len(approvals')
      <3>1. Len(CurApprovals') - Len(approvals') = 0 /\ approved'[r] = 0
        BY <1>2, <1>4, <1>5, <2>1
      <3>2. Single(owner)' => Single(r)
        BY <1>1, <1>4 DEF Single
      <3> QED
        BY <1>1, <1>5, <2>1, <3>1, <3>2
    <2> QED
      BY <1>1, <1>2, <1>4, <2>2, <2>3, <2>4 DEF Thread, Exact
  <1>7. Followed(r)'
    BY <1>1, <1>2, <1>3, <1>4, <1>5 DEF Followed, Told, Kept, Shown
  <1>8. ASSUME NEW q \in Requests \ {r} PROVE Followed(q)'
    <2>1. Untouched(q) /\ OnlyAdds /\ NotRefreshed
      BY <1>1, <1>2, <1>4 DEF Untouched, OnlyAdds, NotRefreshed
    <2> QED
      BY <1>2, <2>1, FollowOther DEF AInv
  <1> QED
    BY <1>6, <1>7, <1>8

\* A statement changes the transaction's view; the requests are followed in
\* terms of the committed tables.
LEMMA FollowStatement ==
  ASSUME AInv, UNCHANGED <<tables, pc, input, snapshot, ids, reply, approved, reruns>>
  PROVE  \A q \in Requests : Followed(q)'
  <1>1. UNCHANGED <<proposals, approvals>> /\ OnlyAdds /\ NotRefreshed
    BY DEF tables, OnlyAdds, NotRefreshed
  <1>2. \A q \in Requests : Untouched(q)
    BY DEF Untouched
  <1> QED
    BY <1>1, <1>2, FollowOther DEF AInv

\* What the row of a flipped proposal says of overrides is true of it: the
\* human was shown that row, or approve_all took it for a clean one.
LEMMA FlipIsExact ==
  ASSUME AInv, reruns = 0, owner # NoRequest, NEW p \in todo,
         WriteGuard(input[owner], CurProposals[p])
  PROVE  RowExact(RowOf(owner, p), CurProposals[p])
  <1> DEFINE i == input[owner]
             row == CurProposals[p]
  <1>1. /\ owner \in Requests /\ i \in Inputs /\ pc[owner] = "writing"
        /\ i.decision \in Decisions /\ row = proposals[p] /\ p \in ids[owner]
        /\ Followed(owner)
    BY DEF AInv, RInv, IInv, Types, TypeOK, Seated, InputsAreKept, Engaged, Thread
  <1>2. Single(owner) \/ Bulk(owner)
    BY <1>1 DEF Followed, Told
  <1>3. CASE Bulk(owner)
    <2>1. IsClean(row) /\ i.handler # "approve" /\ i.decision = "APPROVE"
      BY <1>1, <1>3, InputFields DEF Bulk, WriteGuard, IsCleanPending
    <2> QED
      BY <2>1 DEF RowExact, RowOf, IsClean
  <1>4. CASE Single(owner)
    <2>1. p = i.proposal_id /\ Verdict(i, snapshot[owner]) = "200"
      BY <1>1, <1>4 DEF Followed, Shown
    <2>2. row.status = "PENDING_APPROVAL" /\ row.status \notin Decided
      BY <1>4, NotDecided DEF Single, WriteGuard, DecideGuard
    <2>3. snapshot[owner].status = "PENDING_APPROVAL"
      BY <2>1 DEF Verdict
    <2>4. row = snapshot[owner]
      BY <1>1, <1>4, <2>1, <2>2, <2>3 DEF Followed, Shown
    <2>5. Override(i.decision, row) => i.override_reason
      BY <2>1, <2>4 DEF Verdict
    <2>6. row.risk_status \in {"PASS", "REJECT"}
      BY <1>1, <2>4 DEF AInv, RInv, IInv, Types, TypeOK, ProposalRow
    <2>7. Override(i.decision, row) <=>
            \/ i.decision = "MODIFY"
            \/ i.decision = "APPROVE" /\ row.ai_flag = "flagged"
            \/ i.decision = "REJECT" /\ IsClean(row)
      BY <2>6 DEF Override, IsClean
    <2> QED
      BY <1>4, <2>4, <2>5, <2>7 DEF RowExact, RowOf, Single
  <1> QED
    BY <1>2, <1>3, <1>4

LEMMA AnswersFlipStatus ==
  ASSUME AInv, NEW p \in Proposals, FlipStatus(p)
  PROVE  Thread' /\ \A q \in Requests : Followed(q)'
  <1> DEFINE s == NewStatus(input[owner].decision)
  <1>1. /\ owner # NoRequest /\ owner \in Requests /\ flipped = NoProposal /\ p \in todo
        /\ WriteGuard(input[owner], CurProposals[p]) /\ flipped' = p /\ todo' = todo \ {p}
        /\ CurProposals' = [CurProposals EXCEPT ![p].status = s]
        /\ CurApprovals' = CurApprovals
        /\ UNCHANGED <<tables, owner, pc, input, snapshot, ids, reply, approved, reruns>>
    BY DEF FlipStatus, CurProposals, CurApprovals, local, AInv, RInv, IInv, Types, TypeOK
  <1> HIDE DEF s
  <1>2. /\ \A q \in Proposals \ {p} : CurProposals'[q] = CurProposals[q]
        /\ CurProposals'[p].risk_status = CurProposals[p].risk_status
        /\ CurProposals'[p].ai_flag = CurProposals[p].ai_flag
    BY <1>1, Tables DEF AInv, RInv, ProposalTable, ProposalRow
  <1>3. \A row \in ApprovalRow, q \in Proposals :
          RowExact(row, CurProposals[q]) => RowExact(row, CurProposals'[q])
    BY <1>2 DEF RowExact, IsClean
  <1>4. /\ Single(owner)' = Single(owner) /\ Bulk(owner)' = Bulk(owner)
        /\ OwnRow(owner, CurApprovals)' = OwnRow(owner, CurApprovals)
        /\ RowOf(owner, p)' = RowOf(owner, p)
    BY <1>1 DEF Single, Bulk, OwnRow, RowOf
  <1>5. ASSUME reruns = 0
        PROVE  Exact(CurProposals, CurApprovals)' /\ RowExact(RowOf(owner, p), CurProposals'[p])
    <2>1. RowOf(owner, p) \in ApprovalRow
      BY <1>1, RowOfType DEF AInv, RInv, IInv
    <2>2. RowExact(RowOf(owner, p), CurProposals'[p])
      BY <1>1, <1>3, <1>5, <2>1, FlipIsExact
    <2>3. \A k \in DOMAIN CurApprovals :
            CurApprovals[k] \in ApprovalRow /\ CurApprovals[k].proposal_id \in Proposals
      BY Tables, RowFields DEF AInv, RInv, ApprovalTable
    <2> QED
      BY <1>1, <1>3, <1>5, <2>2, <2>3 DEF AInv, Thread, Exact
  <1>6. todo \subseteq Proposals
    BY DEF AInv, RInv, IInv, Types, TypeOK
  <1>7. Thread'
    <2>1. /\ todo' \subseteq ids[owner] /\ p \in ids[owner]
          /\ \A q \in todo' : CurProposals'[q] = proposals[q]
          /\ Single(owner) => \/ input[owner].proposal_id \in todo' \cup {p}
                              \/ OwnRow(owner, CurApprovals)
          /\ Bulk(owner) => approved[owner] = Len(CurApprovals) - Len(approvals)
      BY <1>1, <1>2, <1>6, ProposalOfSingle, ConstantsAssumption DEF AInv, Thread
    <2>2. reruns = 0 => Exact(proposals, approvals)
      BY DEF AInv, Thread
    <2> QED
      BY <1>1, <1>4, <1>5, <2>1, <2>2 DEF Thread, tables, Exact
  <1> QED
    BY <1>1, <1>7, FollowStatement

LEMMA AnswersSkipRow ==
  ASSUME AInv, NEW p \in Proposals, SkipRow(p)
  PROVE  Thread' /\ \A q \in Requests : Followed(q)'
  <1>1. /\ owner # NoRequest /\ owner \in Requests /\ flipped = NoProposal
        /\ Bulk(owner) /\ todo' = todo \ {p}
        /\ CurProposals' = CurProposals /\ CurApprovals' = CurApprovals
        /\ UNCHANGED <<tables, owner, flipped, pc, input, snapshot, ids, reply, approved, reruns>>
    BY DEF SkipRow, Bulk, CurProposals, CurApprovals, local, AInv, RInv, IInv, Types, TypeOK
  <1>2. ~ Single(owner) /\ ~ Single(owner)' /\ Bulk(owner)'
    BY <1>1 DEF Single, Bulk
  <1>3. Thread'
    BY <1>1, <1>2 DEF AInv, Thread, Exact, tables
  <1> QED
    BY <1>1, <1>3, FollowStatement

LEMMA AnswersInsertApproval ==
  ASSUME AInv, InsertApproval
  PROVE  Thread' /\ \A q \in Requests : Followed(q)'
  <1> DEFINE row == RowOf(owner, flipped)
             n == Len(CurApprovals) + 1
  <1>1. /\ owner # NoRequest /\ owner \in Requests /\ flipped \in Proposals /\ locked
        /\ pc[owner] = "writing" /\ flipped' = NoProposal
        /\ CurProposals' = CurProposals /\ CurApprovals' = Append(CurApprovals, row)
        /\ UNCHANGED <<tables, owner, todo, pc, input, snapshot, ids, reply, reruns>>
    BY DEF InsertApproval, CurProposals, CurApprovals, AInv, RInv, IInv, Types, TypeOK,
           TransactionInvariant, Seated
  <1>2. /\ row \in ApprovalRow /\ row.by = owner /\ row.proposal_id = flipped
        /\ row.decision = input[owner].decision
    BY <1>1, RowOfType DEF AInv, RInv, IInv, RowOf
  <1>3. /\ DOMAIN CurApprovals' = DOMAIN CurApprovals \cup {n}
        /\ CurApprovals'[n] = row
        /\ \A k \in DOMAIN CurApprovals : CurApprovals'[k] = CurApprovals[k]
        /\ Len(CurApprovals') = n
        /\ Len(CurApprovals) \in Nat /\ Len(approvals) \in Nat
    <2>1. Append(CurApprovals, row) \in Seq(ApprovalRow) /\ Len(Append(CurApprovals, row)) = n
      BY <1>2, Tables DEF AInv, RInv, ApprovalTable
    <2> QED
      BY <1>1, <1>2, <2>1, AppendElements, Tables DEF AInv, RInv, ApprovalTable
  <1>4. /\ \A q \in Requests \ {owner} : approved'[q] = approved[q]
        /\ Bulk(owner) => approved'[owner] = approved[owner] + 1
    BY <1>1 DEF InsertApproval, Bulk, AInv, RInv, IInv, Types, TypeOK
  <1>5. Single(owner)' = Single(owner) /\ Bulk(owner)' = Bulk(owner)
    BY <1>1 DEF Single, Bulk
  <1>6. reruns = 0 => Exact(CurProposals, CurApprovals)'
    <2>1. reruns = 0 => RowExact(row, CurProposals[row.proposal_id])
      BY <1>1, <1>2, ConstantsAssumption DEF AInv, Thread
    <2> HIDE DEF row, n
    <2> QED
      BY <1>1, <1>3, <2>1 DEF AInv, Thread, Exact
  <1>7. Single(owner) => input[owner].proposal_id \in todo \/ OwnRow(owner, CurApprovals)'
    BY <1>1, <1>2, <1>3 DEF AInv, Thread, OwnRow
  <1>8. Bulk(owner) => approved'[owner] = Len(CurApprovals') - Len(approvals)
    BY <1>1, <1>3, <1>4 DEF AInv, Thread
  <1> HIDE DEF row, n
  <1>9. Thread'
    <2>1. /\ todo \subseteq ids[owner]
          /\ \A q \in todo : CurProposals[q] = proposals[q]
          /\ reruns = 0 => Exact(proposals, approvals)
      BY <1>1 DEF AInv, Thread
    <2>2. Exact(proposals, approvals)' = Exact(proposals, approvals)
      BY <1>1 DEF Exact, tables
    <2> QED
      BY <1>1, <1>5, <1>6, <1>7, <1>8, <2>1, <2>2 DEF Thread, tables
  <1>10. OnlyAdds /\ NotRefreshed 
    BY <1>1 DEF OnlyAdds, NotRefreshed, tables
  <1>11. ASSUME NEW r \in Requests, r = owner PROVE Followed(r)'
    <2>1. Followed(r) /\ RowsBy(r) = {} /\ (RowsBy(r))' = {} /\ reply[r] = "none"
      BY <1>1, <1>11, NoRowsYet
         DEF AInv, Followed, Told, Past, tables, RInv, IInv, Types, TypeOK, Codes
    <2>2. Single(r)' = Single(r) /\ Bulk(r)' = Bulk(r)
      BY <1>1 DEF Single, Bulk
    <2> QED
      BY <1>1, <1>11, <2>1, <2>2 DEF Followed, Told, Kept, Shown, tables
  <1>12. ASSUME NEW q \in Requests \ {owner} PROVE Followed(q)'
    BY <1>1, <1>4, <1>10, FollowOther DEF AInv, Untouched, tables
  <1> QED
    BY <1>9, <1>11, <1>12

\* Between two transactions there is only what is committed.
LEMMA ThreadEnds ==
  ASSUME EndTransaction, reruns' = reruns, reruns = 0 => Exact(proposals, approvals)'
  PROVE  Thread'
  <1>1. /\ owner' = NoRequest /\ flipped' = NoProposal
        /\ CurProposals' = proposals' /\ CurApprovals' = approvals'
    BY DEF EndTransaction, CurProposals, CurApprovals
  <1> QED
    BY <1>1 DEF Thread, Exact

\* What approve_all counts is what the COMMIT adds.
LEMMA RowsOfCommit ==
  ASSUME RInv, Commit, NEW r \in Requests, r = owner
  PROVE  Cardinality((RowsBy(r))') = Len(CurApprovals) - Len(approvals)
  <1>1. /\ approvals' = CurApprovals /\ pc[owner] \notin Past
        /\ owner \in Requests
    BY DEF Commit, RInv, IInv, Types, TypeOK, Seated, Past
  <1>2. /\ Len(approvals) \in Nat /\ Len(CurApprovals) \in Nat
        /\ DOMAIN approvals = 1 .. Len(approvals) /\ DOMAIN CurApprovals = 1 .. Len(CurApprovals)
    BY Tables DEF RInv, ApprovalTable
  <1>3. /\ Len(approvals) <= Len(CurApprovals)
        /\ \A k \in DOMAIN approvals : CurApprovals[k] = approvals[k]
    BY <1>2 DEF RInv, IInv, TransactionInvariant, CurApprovals
  <1>4. /\ \A k \in DOMAIN approvals : CurApprovals[k].by # owner
        /\ \A k \in DOMAIN CurApprovals \ DOMAIN approvals : CurApprovals[k].by = owner
    BY <1>1, <1>3, NotInThePast DEF RInv, Draft
  <1>5. {k \in DOMAIN CurApprovals : CurApprovals[k].by = owner}
          = Len(approvals) + 1 .. Len(CurApprovals)
    <2>1. \A k \in DOMAIN CurApprovals : k \in DOMAIN approvals <=> k <= Len(approvals)
      BY <1>2
    <2>2. \A k \in DOMAIN CurApprovals : CurApprovals[k].by = owner <=> k > Len(approvals)
      BY <1>2, <1>3, <1>4, <2>1
    <2>3. \A k \in Len(approvals) + 1 .. Len(CurApprovals) : k \in DOMAIN CurApprovals
      BY <1>2
    <2>4. \A k \in DOMAIN CurApprovals :
            k > Len(approvals) <=> k \in Len(approvals) + 1 .. Len(CurApprovals)
      BY <1>2
    <2> QED
      BY <2>2, <2>3, <2>4
  <1>6. Cardinality(Len(approvals) + 1 .. Len(CurApprovals)) = Len(CurApprovals) - Len(approvals)
    <2>1. ASSUME NEW a \in Nat, NEW b \in Nat, a <= b
          PROVE  Cardinality(a + 1 .. b) = b - a
      <3>1. Cardinality(a + 1 .. b) = IF a + 1 > b THEN 0 ELSE b - (a + 1) + 1
        BY FS_Interval
      <3> QED
        BY <2>1, <3>1
    <2> QED
      BY <1>2, <1>3, <2>1
  <1>7. {k \in DOMAIN approvals' : approvals'[k].by = owner}
          = {k \in DOMAIN CurApprovals : CurApprovals[k].by = owner}
    BY <1>1
  <1> QED
    BY <1>5, <1>6, <1>7 DEF RowsBy

LEMMA AnswersCommit ==
  ASSUME AInv, Commit
  PROVE  Thread' /\ \A q \in Requests : Followed(q)'
  <1>1. PICK r \in Requests :
        /\ r = owner /\ r # NoRequest /\ pc[r] = "writing"
        /\ flipped = NoProposal /\ todo = {}
        /\ proposals' = CurProposals /\ approvals' = CurApprovals
        /\ pc' = [pc EXCEPT ![r] = IF Bulk(r) THEN "count" ELSE "respond"]
        /\ UNCHANGED <<input, reply, snapshot, ids, approved, reruns>>
        /\ EndTransaction
    BY DEF Commit, Goto, local, Bulk, AInv, RInv, IInv, Types, TypeOK, Seated
  <1>2. OnlyAdds
    <2>1. DOMAIN approvals \subseteq DOMAIN CurApprovals
      BY Tables DEF AInv, RInv
    <2> QED
      BY <1>1, <2>1
         DEF OnlyAdds, AInv, RInv, IInv, TransactionInvariant, CurApprovals, CurProposals
  <1>3. NotRefreshed
    BY <1>1 DEF NotRefreshed, AInv, RInv, Draft, DraftOf, CurProposals
  <1>4. Thread'
    <2>1. reruns = 0 => Exact(proposals, approvals)'
      BY <1>1 DEF AInv, Thread, Exact
    <2> QED
      BY <1>1, <2>1, ThreadEnds
  <1>5. Followed(r)'
    <2>1. /\ reply[r] = "none" /\ pc'[r] = IF Bulk(r) THEN "count" ELSE "respond"
          /\ Single(r) \/ Bulk(r)
      BY <1>1 DEF AInv, Followed, Told, RInv, IInv, Types, TypeOK, Codes
    <2>2. /\ Single(r)' = Single(r) /\ Bulk(r)' = Bulk(r) /\ ~ (Single(r) /\ Bulk(r))
          /\ OwnRow(r, approvals)' = OwnRow(r, CurApprovals)
      BY <1>1 DEF Single, Bulk, OwnRow
    <2>3. Single(r) => OwnRow(r, CurApprovals)
      <3>1. Single(r) => input[r].proposal_id \in Proposals
        BY ProposalOfSingle DEF AInv
      <3> QED
        BY <1>1, <3>1, ConstantsAssumption DEF AInv, Thread
    <2>4. Bulk(r) => approved[r] = Cardinality((RowsBy(r))')
      BY <1>1, RowsOfCommit DEF AInv, Thread
    <2>5. Told(r)'
      BY <1>1, <2>1, <2>2 DEF Told
    <2>6. Kept(r)'
      BY <1>1, <2>1, <2>2, <2>3, <2>4 DEF Kept
    <2>7. Shown(r)'
      BY <1>1, <2>1 DEF Shown
    <2> QED
      BY <2>5, <2>6, <2>7 DEF Followed
  <1>6. ASSUME NEW q \in Requests \ {r} PROVE Followed(q)'
    <2>1. Untouched(q)
      BY <1>1 DEF Untouched, AInv, RInv, IInv, Types, TypeOK
    <2>2. \A k \in DOMAIN approvals' \ DOMAIN approvals : approvals'[k].by # q
      BY <1>1 DEF AInv, RInv, Draft
    <2> QED
      BY <1>2, <1>3, <2>1, <2>2, FollowOther DEF AInv
  <1> QED
    BY <1>4, <1>5, <1>6

\* The function found nothing to update: unless the row was refreshed, somebody
\* has decided it since the human was shown it.
LEMMA RefusedIsDecided ==
  ASSUME AInv, NEW p \in Proposals, RefuseRow(p), reruns = 0
  PROVE  proposals[input[owner].proposal_id].status \in Decided
  <1> DEFINE i == input[owner]
  <1>1. /\ owner # NoRequest /\ owner \in Requests /\ pc[owner] = "writing" /\ Single(owner)
        /\ ~ DecideGuard(i.decision, proposals[p]) /\ p \in ids[owner]
    BY DEF RefuseRow, Single, WriteGuard, AInv, Thread, RInv, IInv, Types, TypeOK, Seated
  <1>2. /\ p = i.proposal_id /\ Verdict(i, snapshot[owner]) = "200"
        /\ snapshot[owner].status = "PENDING_APPROVAL" =>
             proposals[p] = snapshot[owner] \/ proposals[p].status \in Decided
    BY <1>1 DEF AInv, Followed, Shown
  <1>3. /\ snapshot[owner].status = "PENDING_APPROVAL"
        /\ i.decision = "REJECT" \/ snapshot[owner].risk_status # "REJECT"
    BY <1>2 DEF Verdict
  <1> QED
    BY <1>1, <1>2, <1>3 DEF DecideGuard

\* A rollback with an answer: what the transaction saw is forgotten.
LEMMA AnswersRollback ==
  ASSUME AInv, WriteFails \/ \E p \in Proposals : RefuseRow(p)
  PROVE  Thread' /\ \A q \in Requests : Followed(q)'
  <1>1. PICK r \in Requests :
        /\ r = owner /\ r # NoRequest /\ pc[r] = "writing"
        /\ pc'[r] = "done" /\ reply'[r] \in {"409", "500"}
        /\ \A q \in Requests \ {r} : pc'[q] = pc[q] /\ reply'[q] = reply[q]
        /\ UNCHANGED <<proposals, approvals, input, snapshot, ids, approved, reruns>>
        /\ EndTransaction
    BY DEF WriteFails, RefuseRow, Answer, tables, local, AInv, RInv, IInv, Types, TypeOK, Seated
  <1>2. reply'[r] = "409" =>
          /\ Single(r)
          /\ reruns = 0 => proposals[input[r].proposal_id].status \in Decided
    <2>1. WriteFails => reply'[r] = "500"
      BY <1>1 DEF WriteFails, Answer, AInv, RInv, IInv, Types, TypeOK
    <2>2. \A p \in Proposals : RefuseRow(p) => Single(r)
      BY <1>1 DEF RefuseRow, Single
    <2> QED
      BY <1>1, <2>1, <2>2, RefusedIsDecided
  <1>3. Thread'
    <2>1. reruns = 0 => Exact(proposals, approvals)'
      BY <1>1 DEF AInv, Thread, Exact
    <2> QED
      BY <1>1, <2>1, ThreadEnds
  <1>4. Followed(r)'
    <2>1. (RowsBy(r))' = {}
      BY <1>1, NoRowsYet DEF AInv, Past
    <2>2. Single(r)' = Single(r)
      BY <1>1 DEF Single
    <2>3. Told(r)'
      BY <1>1 DEF Told
    <2> QED
      BY <1>1, <1>2, <2>1, <2>2, <2>3 DEF Followed, Kept, Shown
  <1>5. ASSUME NEW q \in Requests \ {r} PROVE Followed(q)'
    BY <1>1, FollowOther DEF AInv, Untouched, OnlyAdds, NotRefreshed
  <1> QED
    BY <1>3, <1>4, <1>5

-----------------------------------------------------------------------------
(* The server dies, and the other process writes. *)

LEMMA AnswersCrash ==
  ASSUME AInv, Crash
  PROVE  Thread' /\ \A q \in Requests : Followed(q)'
  <1>1. /\ UNCHANGED <<proposals, approvals, input, snapshot, ids, approved, reply, reruns>>
        /\ EndTransaction
        /\ \A q \in Requests : pc'[q] = IF q \in Active THEN "lost" ELSE pc[q]
    BY DEF Crash, tables, local
  <1>2. Thread'
    <2>1. reruns = 0 => Exact(proposals, approvals)'
      BY <1>1 DEF AInv, Thread, Exact
    <2> QED
      BY <1>1, <2>1, ThreadEnds
  <1>3. ASSUME NEW q \in Requests, q \notin Active PROVE Followed(q)'
    BY <1>1, <1>3, FollowOther DEF AInv, Untouched, OnlyAdds, NotRefreshed
  <1>4. ASSUME NEW q \in Requests, q \in Active PROVE Followed(q)'
    <2>1. pc'[q] = "lost" /\ reply'[q] = "none"
      BY <1>1, <1>4 DEF Active, AInv, Followed, Told, RInv, IInv, Types, TypeOK, Codes
    <2> QED
      BY <1>1, <2>1 DEF Followed, Told, Kept, Shown
  <1> QED
    BY <1>2, <1>3, <1>4

\* A new proposal has no history; a refreshed one changes what was shown.
LEMMA AnswersOtherProcess ==
  ASSUME AInv, NEW p \in Proposals, Propose(p) \/ Reassess(p)
  PROVE  Thread' /\ \A q \in Requests : Followed(q)'
  <1>1. PICK row \in ProposalRow :
          row.status = "PENDING_APPROVAL" /\ proposals' = [proposals EXCEPT ![p] = row]
    BY DEF Propose, Reassess
  <1>2. /\ ~ locked /\ ~ locked' /\ proposals[p].status \in {"ABSENT", "PENDING_APPROVAL"}
        /\ UNCHANGED <<approvals, owner, todo, flipped, pc, input, snapshot, ids, reply, approved>>
        /\ \A q \in Proposals \ {p} : proposals'[q] = proposals[q]
    BY <1>1, Tables
       DEF Propose, Reassess, work, thread, local, AInv, RInv, ProposalTable
  <1>3. /\ Propose(p) => proposals[p].status = "ABSENT" /\ reruns' = reruns
        /\ Reassess(p) => reruns' # 0
    BY DEF Propose, Reassess, AInv, RInv, IInv, Types, TypeOK
  <1>4. OnlyAdds /\ NotRefreshed
    BY <1>2, <1>3, NotDecided DEF OnlyAdds, NotRefreshed
  <1>5. ASSUME NEW q \in Requests PROVE Followed(q)'
    BY <1>2, <1>4, FollowOther DEF AInv, Untouched
  <1>6. /\ CurProposals = proposals /\ CurApprovals = approvals
        /\ CurProposals' = proposals' /\ CurApprovals' = approvals
        /\ flipped = NoProposal
    BY <1>2 DEF CurProposals, CurApprovals, AInv, RInv, IInv, TransactionInvariant
  <1>7. reruns' = 0 => Exact(proposals, approvals)'
    <2>1. \A k \in DOMAIN approvals : approvals[k].proposal_id \in Proposals \ {p}
      <3>1. proposals[p].status \notin Decided /\ row.status \notin Decided
        BY <1>1, <1>2, NotDecided
      <3>2. Accounted(proposals, approvals, NoProposal)
        BY DEF AInv, RInv, IInv, TransactionInvariant, OneRowPerDecision
      <3> QED
        BY <3>1, <3>2, AccountedOther, Tables DEF AInv, RInv
    <2> QED
      BY <1>2, <1>4, <2>1 DEF AInv, Thread, Exact, NotRefreshed
  <1>8. owner # NoRequest =>
          /\ Single(owner)' = Single(owner) /\ Bulk(owner)' = Bulk(owner)
          /\ OwnRow(owner, CurApprovals)' = OwnRow(owner, CurApprovals)
    BY <1>2, <1>6 DEF Single, Bulk, OwnRow
  <1>9. Thread'
    <2>1. Exact(CurProposals, CurApprovals)' = Exact(proposals, approvals)'
      BY <1>2, <1>6 DEF Exact
    <2> QED
      BY <1>2, <1>6, <1>7, <1>8, <2>1 DEF AInv, Thread
  <1> QED
    BY <1>5, <1>9

LEMMA AInvNext == AInv /\ [Next]_vars => AInv'
  <1> SUFFICES ASSUME AInv, [Next]_vars
               PROVE  Thread' /\ \A q \in Requests : Followed(q)'
    BY RInvNext DEF AInv
  <1>1. CASE UNCHANGED vars
    <2>1. Thread'
      BY <1>1, ThreadStands DEF vars, thread, local, Untouched
    <2> QED
      BY <1>1, <2>1, FollowStatement DEF vars, local
  <1>2. ASSUME NEW r \in Requests, Receive(r) \/ Handler(r) \/ ReadFails(r)
        PROVE  Thread' /\ \A q \in Requests : Followed(q)'
    BY <1>2, AnswersHandler
  <1>3. CASE WriteThread
    BY <1>3, AnswersBeginWrite, AnswersFlipStatus, AnswersSkipRow, AnswersRollback,
       AnswersInsertApproval, AnswersCommit DEF WriteThread, Statement
  <1>4. CASE WriteFails \/ Crash
    BY <1>4, AnswersRollback, AnswersCrash
  <1>5. ASSUME NEW p \in Proposals, Propose(p) \/ Reassess(p)
        PROVE  Thread' /\ \A q \in Requests : Followed(q)'
    BY <1>5, AnswersOtherProcess
  <1> QED
    BY <1>1, <1>2, <1>3, <1>4, <1>5 DEF Next

-----------------------------------------------------------------------------
(* The theorems. *)

\* Whatever races, fails or dies, an answer can be relied upon: a 200 means that
\* the client's own row is there, a refusal that there is none, and the count of
\* approve_all is the number of rows it wrote.
THEOREM AnswersAreAlwaysTrue == Spec => []AnswersAreTrue
  <1>1. AInv => AnswersAreTrue
    <2> SUFFICES ASSUME AInv, NEW r \in Requests
                 PROVE  /\ Single(r) /\ reply[r] = "200" =>
                             \E k \in RowsBy(r) : /\ approvals[k].proposal_id = input[r].proposal_id
                                                  /\ approvals[k].decision = input[r].decision
                        /\ Single(r) /\ reply[r] \notin {"none", "200"} => RowsBy(r) = {}
                        /\ Bulk(r) /\ reply[r] = "200" => approved[r] = Cardinality(RowsBy(r))
      BY DEF AnswersAreTrue, Single, Bulk
    <2>1. Told(r) /\ Kept(r)
      BY DEF AInv, Followed
    <2>2. reply[r] # "none" => pc[r] = "done"
      BY <2>1 DEF Told
    <2> QED
      BY <2>1, <2>2 DEF Kept, OwnRow, RowsBy
  <1> QED
    BY <1>1, AInvInit, AInvNext, PTL DEF Spec

\* A 409 never lies as long as nobody refreshes a pending row, whether it comes
\* from the check of the handler or from the guarded UPDATE.
THEOREM ConflictsMeanDecided == Spec => []ConflictMeansDecided
  <1>1. AInv => ConflictMeansDecided
    BY DEF AInv, Followed, Shown, ConflictMeansDecided
  <1> QED
    BY <1>1, AInvInit, AInvNext, PTL DEF Spec

\* As long as nobody refreshes a pending row the deviations that the approvals
\* table records are the deviations there were, and each has its reason.
THEOREM OverridesAreAlwaysExact == Spec => []OverridesAreExact
  <1>1. AInv => OverridesAreExact
    BY DEF AInv, Thread, Exact, RowExact, OverridesAreExact, OverridesAreRecorded
  <1> QED
    BY <1>1, AInvInit, AInvNext, PTL DEF Spec
=============================================================================
