------------------------- MODULE LedgerTransactions -------------------------
(***************************************************************************)
(* The ledger operations as getAndUpdateTx performs them.  A request first *)
(* passes the checks of its service; then the ledger reads the latest rows *)
(* one statement after the other, computes the changes, reads the rows to  *)
(* update once more, overwrites the changed fields in them, and inserts    *)
(* the results.  The three parts are three database transactions, and the  *)
(* statements of one see what others have committed meanwhile; only the    *)
(* final insert is atomic.                                                 *)
(*                                                                         *)
(* With a single client this is CreditLedger, one commit per operation:    *)
(* Spec of that module is checked as a property.  The replica the services *)
(* read is taken to be up to date.                                         *)
(***************************************************************************)
EXTENDS CreditLedger

CONSTANTS
    Clients,            \* API processes serving one request at a time
    MaxOperations       \* bound: ledger operations started

ASSUME TransactionAssumption == MaxOperations \in Nat

VARIABLES
    activities,     \* project.activities of the ledger: number -> state
    current,        \* number of the last activity the services know
    txn,            \* the operation each client is performing
    lastId,         \* counter of request ids
    begun           \* ledger operations started

ledgerVars == <<blocks, project, companyCredit, activities>>
replicaVars == <<activity, report, requests, current>>
tvars == <<vars, activities, current, txn, lastId, begun>>

Idle == [pc |-> "idle"]

Busy(c) == txn[c].pc # "idle"

TInit ==
    /\ Init
    /\ activities = <<>>
    /\ current = 0
    /\ txn = [c \in Clients |-> Idle]
    /\ lastId = 0
    /\ begun = 0

-----------------------------------------------------------------------------
(* What an operation reads and writes *)

Only(key, value) == [k \in {key} |-> value]

\* Rows read, in the order of getQueries.  Rows that are read and not used are
\* left out.
Reads(op) ==
    CASE op.kind = "Transfer"   -> <<"project", "block">>
      [] op.kind = "Issue"      -> <<"project", "company">>
      [] op.kind = "Monitoring" -> <<"project">>
      [] op.kind = "Retire"     -> <<"block", "project">>
      [] OTHER                  -> <<"block">>

Row(op, t) ==
    CASE t = "project" -> [totals |-> project, activities |-> activities]
      [] t = "company" -> companyCredit
      [] t = "block"   -> blocks[op.block]

RecordIndex(b, r) == CHOOSE k \in DOMAIN b.records : b.records[k].id = r

PendingIn(b, r) ==
    /\ \E k \in DOMAIN b.records : b.records[k].id = r
    /\ b.records[RecordIndex(b, r)].status = "Pending"

\* A decision splits the block unless the request covers it.
Decidable(s, b, r) ==
    LET k == RecordIndex(b, r) IN
    CoversBlock(b, k) \/ CanSplit(s, b, b.records[k].amount)

\* The checks of processGetFn, on the rows it was given.  The ledger repeats
\* some of the service's checks, not all of them.
LedgerAllows(op, row) ==
    CASE op.kind = "Transfer" ->
            LET b == row["block"] IN
            /\ b.owner = op.from
            /\ op.n <= Unassigned(b)
            /\ TakesWhole(b, op.n) \/ CanSplit(op.block, b, op.n)
      [] op.kind = "Request" ->
            LET b == row["block"] IN
            /\ b.owner = op.from
            /\ op.n <= Unassigned(b)
            /\ op.type = "ItmoAuthorized" => ~IsItmo(b) /\ b.account = "Holding"
      [] op.kind = "Decline" -> PendingIn(row["block"], op.req)
      [] op.kind \in {"Retire", "Authorize"} ->
            /\ PendingIn(row["block"], op.req)
            /\ Decidable(op.block, row["block"], op.req)
      [] op.kind = "Issue" ->
            LET issued == row["project"].totals.issued IN
            /\ op.act \in DOMAIN row["project"].activities
            /\ row["project"].activities[op.act] = "MonitoringVerified"
            /\ issued = 0 \/ Total(op.totals) <= CreditEst - issued
      [] op.kind = "Monitoring" -> op.act \notin DOMAIN row["project"].activities

\* Rows read again before the insert, in the order of updateWhere.  The company
\* row gets an absolute balance, whatever it holds by then.
Merges(op, row) ==
    CASE op.kind \in {"Issue", "Monitoring"} -> <<"project">>
      [] op.kind = "Transfer" /\ row["block"].isNotTransferred -> <<"block", "project">>
      [] op.kind = "Retire" /\ row["block"].isNotTransferred -> <<"project", "block">>
      [] OTHER -> <<"block">>

\* The block named by the operation, as computed from the row first read.
NewContent(op, b) ==
    IF op.kind = "Transfer"
    THEN IF TakesWhole(b, op.n) THEN TransferredWhole(b, op.to) ELSE Retained(b, op.n)
    ELSE IF op.kind = "Request" THEN WithRequest(b, op.id, op.type, op.n)
    ELSE LET k == RecordIndex(b, op.req) IN
         CASE op.kind = "Decline" -> Settled(b, k, op.status)
           [] op.kind = "Retire" ->
                IF CoversBlock(b, k) THEN RetiredWhole(b, k, op.account)
                                     ELSE RetiredRest(b, k)
           [] op.kind = "Authorize" ->
                IF CoversBlock(b, k) THEN AuthorizedWhole(b, k)
                ELSE Retained(Settled(b, k, "Completed"), b.records[k].amount)

\* The fields of it that the operation names in its update.
WrittenFields(op, b) ==
    LET reservation == {"reserved", "records"}
        range == {"end", "amount"}
    IN
    IF op.kind = "Transfer" THEN DOMAIN b
    ELSE IF op.kind \in {"Request", "Decline"} THEN reservation
    ELSE IF CoversBlock(b, RecordIndex(b, op.req))
    THEN reservation \cup (IF op.kind = "Retire"
                           THEN {"owner", "isNotTransferred", "account"}
                           ELSE {"itmo", "itmoEnd"})
    ELSE reservation \cup range
            \cup (IF op.kind = "Retire" /\ b.itmoEnd # 0 THEN {"itmoEnd"} ELSE {})

\* Mutant of ChildOf: the child starts one serial too high.
ChildOfShifted(op, b) ==
    LET n == IF op.kind = "Transfer" THEN op.n
             ELSE b.records[RecordIndex(b, op.req)].amount
    IN  Only(SecondStart(b, n) + 1, TransferredPart(b, n - 1, NoCompany))

\* The block split off for a part of the credits.
ChildOf(op, b) ==
    IF op.kind = "Transfer"
    THEN Only(SecondStart(b, op.n), TransferredPart(b, op.n, op.to))
    ELSE LET k == RecordIndex(b, op.req) IN
         Only(SecondStart(b, b.records[k].amount),
              IF op.kind = "Retire" THEN RetiredPart(b, k, op.account)
                                    ELSE AuthorizedPart(b, k))

Splits(op, b) ==
    CASE op.kind = "Transfer" -> ~TakesWhole(b, op.n)
      [] op.kind \in {"Retire", "Authorize"} -> ~CoversBlock(b, RecordIndex(b, op.req))
      [] OTHER -> FALSE

NewBlockRows(op, row) ==
    CASE op.kind = "Issue" ->
            NewBlocks(op.totals, row["project"].totals.issued, ProjectOwner)
      [] op.kind # "Monitoring" /\ Splits(op, row["block"]) -> ChildOf(op, row["block"])
      [] OTHER -> <<>>

IssuedActivity(list, n) == [list EXCEPT ![n] = "VerificationVerified"]

\* The fields of the latest project row are overwritten with values computed
\* from the row first read.
MergedProject(op, row, latest) ==
    LET old == row["project"].totals IN
    CASE op.kind = "Issue" ->
            [totals |-> [latest.totals EXCEPT !.issued = old.issued + Total(op.totals),
                                              !.balance = old.balance + Total(op.totals)],
             activities |-> IssuedActivity(row["project"].activities, op.act)]
      [] op.kind = "Monitoring" ->
            [latest EXCEPT !.activities = Insert(row["project"].activities,
                                                 Only(op.act, "MonitoringVerified"))]
      [] op.kind = "Transfer" ->
            [latest EXCEPT !.totals.balance = old.balance - op.n,
                           !.totals.transferred = old.transferred + op.n]
      [] op.kind = "Retire" ->
            LET n == row["block"].records[RecordIndex(row["block"], op.req)].amount IN
            [latest EXCEPT !.totals.balance = old.balance - n,
                           !.totals.retired = old.retired + n]

\* Mutant of MergedBlock: the parent of a split keeps its creditAmount.
MergedBlockAmountKept(op, b, latest) ==
    [f \in DOMAIN latest |->
        IF f \in WrittenFields(op, b) \ {"amount"} THEN NewContent(op, b)[f] ELSE latest[f]]

MergedBlock(op, b, latest) ==
    [f \in DOMAIN latest |->
        IF f \in WrittenFields(op, b) THEN NewContent(op, b)[f] ELSE latest[f]]

-----------------------------------------------------------------------------
(* The steps of an operation *)

\* A request passed its service's checks: the ledger starts reading.
Begin(c, op) ==
    /\ ~Busy(c)
    /\ begun < MaxOperations
    /\ begun' = begun + 1
    /\ txn' = [txn EXCEPT ![c] = [pc |-> "read", op |-> op, todo |-> Reads(op),
                                  row |-> <<>>, latest |-> <<>>, fresh |-> TRUE]]
    /\ UNCHANGED <<vars, activities, current>>

BeginTransfer(c, s, n, to) ==
    /\ CanTransfer(blocks[s], n, to)
    /\ Begin(c, [kind |-> "Transfer", block |-> s, n |-> n,
                 from |-> blocks[s].owner, to |-> to])
    /\ UNCHANGED lastId

\* The id of a request is drawn from its counter before the ledger is called.
BeginRequest(c, s, n, type, sub, purpose) ==
    /\ lastId < MaxRequests
    /\ blocks[s].owner \in Developers
    /\ n \in 1 .. Unassigned(blocks[s])
    /\ Begin(c, [kind |-> "Request", block |-> s, n |-> n, from |-> blocks[s].owner,
                 type |-> type, subType |-> sub, purpose |-> purpose,
                 id |-> lastId + 1])
    /\ lastId' = lastId + 1

BeginRetireRequest(c, s, n, sub) ==
    /\ MayRetireFor(blocks[s], sub)
    /\ BeginRequest(c, s, n, "Retired", sub, "None")

BeginItmoRequest(c, s, n, purpose) ==
    /\ ~IsItmo(blocks[s])
    /\ blocks[s].account = "Holding"
    /\ caStatus = "Active"
    /\ purpose = "NDC" => HasCounterparty
    /\ BeginRequest(c, s, n, "ItmoAuthorized", "None", purpose)

BeginDecision(c, r, kind, status) ==
    /\ requests[r].status = "Pending"
    /\ Begin(c, [kind |-> kind, req |-> r, block |-> requests[r].block, status |-> status,
                 account |-> MapSubTypeToAccountType(requests[r].subType)])
    /\ UNCHANGED lastId

BeginRetire(c, r) == BeginDecision(c, r, "Retire", "Completed")

BeginAuthorize(c, r) ==
    /\ requests[r].type = "ItmoAuthorized"
    /\ caStatus # "Draft"
    /\ BeginDecision(c, r, "Authorize", "Completed")

BeginDecline(c, r, status) == BeginDecision(c, r, "Decline", status)

BeginMonitoring(c) ==
    /\ activity \in {"None", "VerificationVerified"}
    /\ Begin(c, [kind |-> "Monitoring", act |-> current + 1])
    /\ UNCHANGED lastId

BeginIssue(c) ==
    /\ activity = "VerificationUploaded"
    /\ Begin(c, [kind |-> "Issue", act |-> current, totals |-> report])
    /\ UNCHANGED lastId

Accepted(c) ==
    LET t == txn[c]
        table == Head(t.todo)
        row == Insert(t.row, Only(table, Row(t.op, table)))
    IN  [t EXCEPT !.row = row, !.todo = Tail(@)]

\* One of several rows is read.
ReadRow(c) ==
    /\ txn[c].pc = "read"
    /\ Len(txn[c].todo) > 1
    /\ txn' = [txn EXCEPT ![c] = Accepted(c)]
    /\ UNCHANGED <<vars, activities, current, lastId, begun>>

\* The last row is read and the changes are computed.
Plan(c) ==
    LET t == Accepted(c) IN
    /\ txn[c].pc = "read"
    /\ Len(txn[c].todo) = 1
    /\ LedgerAllows(t.op, t.row)
    /\ txn' = [txn EXCEPT ![c] = [t EXCEPT !.pc = "merge", !.todo = Merges(t.op, t.row)]]
    /\ UNCHANGED <<vars, activities, current, lastId, begun>>

\* Or the ledger refuses, and nothing is written.
Refuse(c) ==
    LET t == Accepted(c) IN
    /\ txn[c].pc = "read"
    /\ Len(txn[c].todo) = 1
    /\ ~LedgerAllows(t.op, t.row)
    /\ txn' = [txn EXCEPT ![c] = Idle]
    /\ UNCHANGED <<vars, activities, current, lastId, begun>>

\* These updates find no project row once another client has written it; the
\* operation then goes on without the update.
GuardedByTxTime(op) == op.kind \in {"Issue", "Monitoring"}

Latest(c) ==
    LET t == txn[c]
        table == Head(t.todo)
    IN  IF table = "block"
        THEN Only("block", MergedBlock(t.op, t.row["block"], blocks[t.op.block]))
        ELSE IF GuardedByTxTime(t.op) /\ ~t.fresh THEN <<>>
        ELSE Only("project", MergedProject(t.op, t.row, Row(t.op, "project")))

\* A row is read again and takes the operation's changes.
MergeRow(c) ==
    LET t == txn[c] IN
    /\ t.pc = "merge"
    /\ t.todo # <<>>
    /\ txn' = [txn EXCEPT ![c] = [t EXCEPT !.todo = Tail(t.todo),
                                           !.latest = Insert(t.latest, Latest(c))]]
    /\ UNCHANGED <<vars, activities, current, lastId, begun>>

\* The replicator derives the request rows from the block events.
Replicate(op, latest) ==
    CASE op.kind = "Request" ->
            requests' = Insert(requests, Only(op.id,
                [type |-> op.type, subType |-> op.subType, purpose |-> op.purpose,
                 amount |-> op.n, sender |-> latest["block"].owner,
                 block |-> op.block, status |-> "Pending"]))
      [] op.kind = "Decline" ->
            requests' = [requests EXCEPT ![op.req].status = op.status]
      [] OTHER -> UNCHANGED requests

\* The row of an accepted request follows the block that carries it.
ReplicateAccepted(op, row) ==
    LET child == NewBlockRows(op, row)
        s == IF child = <<>> THEN op.block ELSE CHOOSE x \in DOMAIN child : TRUE
    IN  requests' = [requests EXCEPT ![op.req].status = "Completed", ![op.req].block = s]

\* An approval event sets the state of its activity; a repeated one may be about
\* an activity that is no longer the last.
ReplicateActivity(op, written) ==
    IF GuardedByTxTime(op) /\ written /\ op.act >= current
    THEN /\ activity' = IF op.kind = "Issue" THEN "VerificationVerified"
                                             ELSE "MonitoringVerified"
         /\ current' = op.act
         /\ report' = IF op.kind = "Issue" THEN <<>> ELSE report
    ELSE UNCHANGED <<activity, current, report>>

\* All rows are inserted in one database transaction.
Commit(c) ==
    LET op == txn[c].op
        row == txn[c].row
        latest == txn[c].latest
        written == "project" \in DOMAIN latest
    IN
    /\ txn[c].pc = "merge"
    /\ txn[c].todo = <<>>
    /\ blocks' = Insert(IF "block" \in DOMAIN latest
                        THEN [blocks EXCEPT ![op.block] = latest["block"]] ELSE blocks,
                        NewBlockRows(op, row))
    /\ IF written THEN /\ project' = latest["project"].totals
                       /\ activities' = latest["project"].activities
                  ELSE UNCHANGED <<project, activities>>
    /\ companyCredit' = IF op.kind = "Issue" THEN row["company"] + Total(op.totals)
                                             ELSE companyCredit
    /\ IF op.kind \in {"Retire", "Authorize"} THEN ReplicateAccepted(op, row)
                                              ELSE Replicate(op, latest)
    /\ ReplicateActivity(op, written)
    /\ txn' = [d \in Clients |->
                  IF d = c THEN Idle
                  ELSE IF written /\ Busy(d) /\ "project" \in DOMAIN txn[d].row
                  THEN [txn[d] EXCEPT !.fresh = FALSE] ELSE txn[d]]
    /\ UNCHANGED <<caStatus, lastId, begun>>

-----------------------------------------------------------------------------
(* Single writes to the operational database *)

Direct(c) ==
    /\ ~Busy(c)
    /\ \/ \E t \in VintageTotals : UploadVerification(t)
       \/ RejectVerification
       \/ MarkSubmitted
       \/ \E status \in CAStatus : UpdateApproach(status)
    /\ UNCHANGED <<activities, current, txn, lastId, begun>>

BeginOnBlock(c, s) ==
    \E n \in 1 .. blocks[s].amount :
        \/ \E to \in Developers : BeginTransfer(c, s, n, to)
        \/ \E sub \in UseTypes : BeginRetireRequest(c, s, n, sub)
        \/ \E purpose \in Purposes : BeginItmoRequest(c, s, n, purpose)

BeginOnRequest(c, r) ==
    \/ BeginRetire(c, r)
    \/ BeginAuthorize(c, r)
    \/ \E status \in {"Rejected", "Cancelled"} : BeginDecline(c, r, status)

Transaction(c) ==
    \/ \E s \in DOMAIN blocks : BeginOnBlock(c, s)
    \/ \E r \in DOMAIN requests : BeginOnRequest(c, r)
    \/ BeginMonitoring(c)
    \/ BeginIssue(c)
    \/ ReadRow(c) \/ Plan(c) \/ Refuse(c) \/ MergeRow(c) \/ Commit(c)

TNext == \E c \in Clients : Direct(c) \/ Transaction(c)

TSpec == TInit /\ [][TNext]_tvars

-----------------------------------------------------------------------------
(* Properties *)

Operation == {"Transfer", "Request", "Retire", "Authorize", "Decline",
              "Monitoring", "Issue"}

NoSerialLost ==
    \A i \in 1 .. project.issued :
        \E s \in DOMAIN blocks : s <= i /\ i <= blocks[s].end

NoSerialBeyondEstimate == \A s \in DOMAIN blocks : blocks[s].end <= CreditEst

\* However operations interleave, no issued serial number drops out of the block
\* table, as long as no report is replaced by a different one while its approval
\* is under way: a split writes parent and child in one transaction, so a stale
\* parent or child is overlapped by other blocks but never leaves a gap.  Nor is
\* a number beyond the estimate minted, even after a stale project row has taken
\* issued credits back.
SerialsKept == NoSerialLost /\ NoSerialBeyondEstimate

\* However operations interleave, creditAmount is the width of the serial range
\* of its block: getAndUpdateTx merges single fields of a stale row into the
\* latest one, and these two are computed and written by different statements.
AmountIsWidth ==
    \A s \in DOMAIN blocks :
        s <= blocks[s].end /\ blocks[s].amount = blocks[s].end - s + 1

\* Stated by the README: each credit receives a distinct serial number, so no
\* two blocks hold the same one.
DistinctSerials ==
    \A s, t \in DOMAIN blocks : s < t => blocks[s].end < t

\* Stated by the description of the credit lifecycle: retiring a block permanently
\* removes it from circulation, so it never has an owner again.
RetiredForGood ==
    [][\A s \in DOMAIN blocks :
         blocks[s].owner = NoCompany => blocks'[s].owner = NoCompany]_tvars

\* Stated by the guard of issueCredits that refuses a request already
\* processed: credits that have moved are not issued a second time.
IssuedOnce ==
    [][\A s \in DOMAIN blocks : ~blocks[s].isNotTransferred =>
            ~blocks'[s].isNotTransferred]_tvars

=============================================================================
