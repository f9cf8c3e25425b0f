----------------------- MODULE LedgerTransactionsProofs -----------------------
(***************************************************************************)
(* What survives when operations of the ledger interleave, and what a      *)
(* client alone does.                                                      *)
(*                                                                         *)
(* InOrder, for any number of clients: every row a client has read,        *)
(* computed or committed keeps to the width of its serial range.           *)
(* NoneLost, for any number of clients that approve the same report: every *)
(* version of a block, read, computed or committed, ends where the serial  *)
(* numbers above it are held by blocks that start above it.                *)
(* Alone, for one client: what the service checked and what the operation  *)
(* has read and merged is what the tables hold, so a commit is a step of   *)
(* CreditLedger, whose invariant IInv is needed to say that its request    *)
(* can be granted.                                                         *)
(***************************************************************************)
EXTENDS LedgerTransactions, CreditLedgerProofs

-----------------------------------------------------------------------------
(* Blocks, read, computed or committed *)

Fields == {"end", "amount", "reserved", "owner", "itmo", "itmoEnd",
           "isNotTransferred", "account", "records"}

RecordsOK(rs) ==
    rs \in Seq(TransactionRecord) /\ \A k \in DOMAIN rs : rs[k].amount > 0

\* The block that starts at s; what is reserved may be more than it holds.
BlockOK(s, b) ==
    /\ DOMAIN b = Fields
    /\ s \in Nat \ {0} /\ b.end \in Nat /\ s <= b.end
    /\ b.amount = b.end - s + 1
    /\ RecordsOK(b.records)

OnBlock == {"Transfer", "Request", "Retire", "Authorize", "Decline"}

\* What the service put into an operation.
OpOK(op) ==
    /\ op.kind \in Operation
    /\ op.kind \in OnBlock => op.block \in DOMAIN blocks
    /\ op.kind \in {"Transfer", "Request"} => op.n \in Nat \ {0}
    /\ op.kind = "Request" => op.id \in Nat /\ op.type \in TxKind
    /\ op.kind \in {"Retire", "Authorize", "Decline"} => op.status \in TxStatus
    /\ op.kind = "Issue" => op.totals \in VintageTotals

\* The credits a splitting operation takes off its block.
Part(op, b) ==
    IF op.kind = "Transfer" THEN op.n ELSE b.records[RecordIndex(b, op.req)].amount

LEMMA SettledKeepsFields ==
    ASSUME NEW b, DOMAIN b = Fields, RecordsOK(b.records),
           NEW k \in DOMAIN b.records, NEW status \in TxStatus
    PROVE  LET c == Settled(b, k, status) IN
           /\ DOMAIN c = Fields /\ c.end = b.end /\ c.amount = b.amount
           /\ RecordsOK(c.records)
           /\ DOMAIN c.records = DOMAIN b.records
           /\ c.records[k].amount = b.records[k].amount
  <1> DEFINE r == [b.records[k] EXCEPT !.status = status]
             rs == [b.records EXCEPT ![k] = r]
             c == Settled(b, k, status)
  <1>1. b.records[k] \in TransactionRecord /\ b.records \in Seq(TransactionRecord)
    BY DEF RecordsOK
  <1>2. r \in TransactionRecord /\ r.amount = b.records[k].amount
    BY <1>1 DEF TransactionRecord
  <1>3. /\ rs \in Seq(TransactionRecord) /\ DOMAIN rs = DOMAIN b.records /\ rs[k] = r
        /\ \A i \in DOMAIN b.records : i # k => rs[i] = b.records[i]
    <2> HIDE DEF r
    <2> QED BY <1>1, <1>2
  <1>4. RecordsOK(rs)
    <2> HIDE DEF rs, r
    <2> QED BY <1>2, <1>3 DEF RecordsOK
  <1>5. c = [b EXCEPT !.reserved = b.reserved - b.records[k].amount, !.records = rs]
    BY DEF Settled
  <1> HIDE DEF rs, c
  <1>6. DOMAIN c = Fields /\ c.end = b.end /\ c.amount = b.amount /\ c.records = rs
    BY <1>5 DEF Fields
  <1> QED BY <1>2, <1>3, <1>4, <1>6 DEF c

LEMMA PendingRecord ==
    ASSUME NEW b, NEW r, RecordsOK(b.records), PendingIn(b, r)
    PROVE  LET k == RecordIndex(b, r) IN
           /\ k \in DOMAIN b.records /\ b.records[k].id = r
           /\ b.records[k].amount \in Nat \ {0} /\ b.records[k] \in TransactionRecord
  <1> DEFINE k == RecordIndex(b, r)
  <1>1. k \in DOMAIN b.records /\ b.records[k].id = r
    BY DEF PendingIn, RecordIndex
  <1> HIDE DEF k
  <1>2. b.records[k] \in TransactionRecord /\ b.records[k].amount > 0
    BY <1>1 DEF RecordsOK
  <1> QED BY <1>1, <1>2 DEF k, TransactionRecord

\* What the ledger has checked of an operation on a block.
LEMMA AllowedOnBlock ==
    ASSUME NEW op, NEW row, op.kind \in OnBlock, LedgerAllows(op, row),
           NEW b, b = row["block"]
    PROVE  /\ op.kind = "Transfer" =>
                b.owner = op.from /\ op.n <= Unassigned(b)
                    /\ (TakesWhole(b, op.n) \/ CanSplit(op.block, b, op.n))
           /\ op.kind = "Request" => b.owner = op.from /\ op.n <= Unassigned(b)
           /\ op.kind \in {"Retire", "Authorize", "Decline"} => PendingIn(b, op.req)
           /\ op.kind \in {"Retire", "Authorize"} => Decidable(op.block, b, op.req)
  <1>1. CASE op.kind = "Transfer"
    BY <1>1 DEF LedgerAllows
  <1>2. CASE op.kind = "Request"
    BY <1>2 DEF LedgerAllows
  <1>3. CASE op.kind = "Decline"
    BY <1>3 DEF LedgerAllows
  <1>4. CASE op.kind = "Retire" \/ op.kind = "Authorize"
    BY <1>4 DEF LedgerAllows
  <1> QED BY <1>1, <1>2, <1>3, <1>4 DEF OnBlock

\* A part is taken off a block only if something is left.
LEMMA PartOK ==
    ASSUME NEW op, NEW row, OpOK(op), op.kind \in OnBlock, LedgerAllows(op, row),
           NEW b, b = row["block"], BlockOK(op.block, b), Splits(op, b)
    PROVE  /\ op.kind \in {"Transfer", "Retire", "Authorize"}
           /\ Part(op, b) \in Nat \ {0} /\ Part(op, b) <= b.end - op.block
  <1>1. CASE op.kind = "Transfer"
    <2>1. ~TakesWhole(b, op.n) /\ Part(op, b) = op.n
      BY <1>1 DEF Splits, Part
    <2>2. CanSplit(op.block, b, op.n)
      BY <1>1, <2>1, AllowedOnBlock
    <2> QED BY <1>1, <2>1, <2>2 DEF CanSplit, BlockOK, OpOK
  <1>2. CASE op.kind \in {"Retire", "Authorize"}
    <2> DEFINE k == RecordIndex(b, op.req)
    <2>1. ~CoversBlock(b, k) /\ Part(op, b) = b.records[k].amount
      BY <1>2 DEF Splits, Part
    <2>2. Decidable(op.block, b, op.req) /\ PendingIn(b, op.req)
      BY <1>2, AllowedOnBlock
    <2>3. CanSplit(op.block, b, b.records[k].amount)
      BY <2>1, <2>2 DEF Decidable
    <2>4. b.records[k].amount \in Nat \ {0}
      BY <2>2, PendingRecord DEF BlockOK
    <2> HIDE DEF k
    <2> QED BY <1>2, <2>1, <2>3, <2>4 DEF CanSplit, BlockOK
  <1>3. CASE op.kind \in {"Request", "Decline"}
    BY <1>3 DEF Splits
  <1> QED BY <1>1, <1>2, <1>3 DEF OnBlock

\* The fields an operation writes: the range and the amount together, or
\* neither.
LEMMA ContentOK ==
    ASSUME NEW op, NEW row, OpOK(op), op.kind \in OnBlock, LedgerAllows(op, row),
           NEW b, b = row["block"], BlockOK(op.block, b)
    PROVE  LET c == NewContent(op, b)
               w == WrittenFields(op, b)
           IN
           /\ RecordsOK(c.records)
           /\ Splits(op, b) => /\ {"end", "amount"} \subseteq w
                               /\ c.end = b.end - Part(op, b)
                               /\ c.amount = b.amount - Part(op, b)
           /\ ~Splits(op, b) => \/ {"end", "amount"} \cap w = {}
                                \/ /\ {"end", "amount"} \subseteq w
                                   /\ c.end = b.end /\ c.amount = b.amount
  <1> DEFINE c == NewContent(op, b)
             w == WrittenFields(op, b)
             Goal == /\ RecordsOK(c.records)
                     /\ Splits(op, b) => /\ {"end", "amount"} \subseteq w
                                         /\ c.end = b.end - Part(op, b)
                                         /\ c.amount = b.amount - Part(op, b)
                     /\ ~Splits(op, b) => \/ {"end", "amount"} \cap w = {}
                                          \/ /\ {"end", "amount"} \subseteq w
                                             /\ c.end = b.end /\ c.amount = b.amount
  <1> SUFFICES Goal
    OBVIOUS
  <1>1. DOMAIN b = Fields /\ RecordsOK(b.records)
    BY DEF BlockOK
  <1>2. CASE op.kind = "Transfer"
    <2>1. w = Fields
      BY <1>1, <1>2 DEF WrittenFields
    <2>2. CASE TakesWhole(b, op.n)
      <3>1. c = TransferredWhole(b, op.to) /\ ~Splits(op, b)
        BY <1>2, <2>2 DEF NewContent, Splits
      <3>2. c.records = b.records /\ c.end = b.end /\ c.amount = b.amount
        BY <1>1, <3>1 DEF TransferredWhole, Fields
      <3> HIDE DEF c, w
      <3> QED BY <1>1, <2>1, <3>1, <3>2 DEF Fields
    <2>3. CASE ~TakesWhole(b, op.n)
      <3>1. c = Retained(b, op.n) /\ Splits(op, b) /\ Part(op, b) = op.n
        BY <1>2, <2>3 DEF NewContent, Splits, Part
      <3>2. c.records = b.records /\ c.end = b.end - op.n /\ c.amount = b.amount - op.n
        BY <1>1, <3>1 DEF Retained, Fields
      <3> HIDE DEF c, w
      <3> QED BY <1>1, <2>1, <3>1, <3>2 DEF Fields
    <2> QED BY <2>2, <2>3
  <1>3. CASE op.kind = "Request"
    <2>1. c = WithRequest(b, op.id, op.type, op.n) /\ w = {"reserved", "records"} /\ ~Splits(op, b)
      BY <1>3 DEF NewContent, WrittenFields, Splits
    <2> DEFINE r == [id |-> op.id, type |-> op.type, status |-> "Pending", amount |-> op.n]
    <2>2. r \in TransactionRecord /\ r.amount > 0
      BY <1>3 DEF OpOK, TransactionRecord, TxStatus
    <2>3. c.records = Append(b.records, r)
      BY <1>1, <2>1 DEF WithRequest, Fields
    <2> HIDE DEF r, c, w
    <2>4. RecordsOK(c.records)
      BY <1>1, <2>2, <2>3 DEF RecordsOK
    <2> QED BY <2>1, <2>4
  <1>4. CASE op.kind \in {"Retire", "Authorize", "Decline"}
    <2> DEFINE k == RecordIndex(b, op.req)
               n == b.records[k].amount
    <2>1. k \in DOMAIN b.records
      BY <1>1, <1>4, AllowedOnBlock, PendingRecord
    <2>2. "Completed" \in TxStatus /\ op.status \in TxStatus
      BY <1>4 DEF TxStatus, OpOK
    <2>3. CASE op.kind = "Decline"
      <3>1. c = Settled(b, k, op.status) /\ w = {"reserved", "records"} /\ ~Splits(op, b)
        BY <2>3 DEF NewContent, WrittenFields, Splits
      <3> HIDE DEF c, w, k
      <3> QED BY <1>1, <2>1, <2>2, <3>1, SettledKeepsFields
    <2> DEFINE d == Settled(b, k, "Completed")
    <2>4. DOMAIN d = Fields /\ d.end = b.end /\ d.amount = b.amount /\ RecordsOK(d.records)
      <3> HIDE DEF k
      <3> QED BY <1>1, <2>1, <2>2, SettledKeepsFields
    <2>5. CASE op.kind \in {"Retire", "Authorize"} /\ CoversBlock(b, k)
      <3>1. /\ c = IF op.kind = "Retire" THEN RetiredWhole(b, k, op.account)
                                         ELSE AuthorizedWhole(b, k)
            /\ ~Splits(op, b)
        BY <2>5 DEF NewContent, Splits
      <3>2. {"end", "amount"} \cap w = {}
        BY <2>5 DEF WrittenFields
      <3>3. c.records = d.records
        <4> HIDE DEF k, d
        <4> QED BY <2>4, <3>1 DEF RetiredWhole, AuthorizedWhole, Fields, d
      <3> HIDE DEF c, w, d
      <3> QED BY <2>4, <3>1, <3>2, <3>3
    <2>6. CASE op.kind \in {"Retire", "Authorize"} /\ ~CoversBlock(b, k)
      <3>1. /\ c = IF op.kind = "Retire" THEN RetiredRest(b, k) ELSE Retained(d, n)
            /\ Splits(op, b) /\ Part(op, b) = n
        BY <2>6 DEF NewContent, Splits, Part
      <3>2. {"end", "amount"} \subseteq w
        BY <2>6 DEF WrittenFields
      <3>3. c.records = d.records /\ c.end = d.end - n /\ c.amount = d.amount - n
        <4> HIDE DEF n, k
        <4>1. c = Retained(d, n) \/ \E x : c = [Retained(d, n) EXCEPT !.itmoEnd = x]
          BY <3>1 DEF RetiredRest, n
        <4> HIDE DEF d, c
        <4> QED BY <2>4, <4>1 DEF Retained, Fields
      <3> HIDE DEF c, w, d
      <3> QED BY <2>4, <3>1, <3>2, <3>3
    <2> QED BY <1>4, <2>3, <2>5, <2>6
  <1> QED BY <1>2, <1>3, <1>4 DEF OnBlock

\* A row that is overwritten keeps the width of its range, and its range ends
\* where a split of the row first read leaves it, or where one of the two rows
\* ended.
LEMMA MergedOK ==
    ASSUME NEW op, NEW row, OpOK(op), op.kind \in OnBlock, LedgerAllows(op, row),
           NEW b, b = row["block"], BlockOK(op.block, b),
           NEW latest, BlockOK(op.block, latest)
    PROVE  LET m == MergedBlock(op, b, latest) IN
           /\ BlockOK(op.block, m)
           /\ Splits(op, b) => m.end = b.end - Part(op, b)
           /\ ~Splits(op, b) => m.end \in {b.end, latest.end}
  <1> DEFINE m == MergedBlock(op, b, latest)
             c == NewContent(op, b)
             w == WrittenFields(op, b)
  <1>1. /\ RecordsOK(c.records)
        /\ Splits(op, b) => /\ {"end", "amount"} \subseteq w
                            /\ c.end = b.end - Part(op, b)
                            /\ c.amount = b.amount - Part(op, b)
        /\ ~Splits(op, b) => \/ {"end", "amount"} \cap w = {}
                             \/ /\ {"end", "amount"} \subseteq w
                                /\ c.end = b.end /\ c.amount = b.amount
    BY ContentOK
  <1>2. /\ DOMAIN m = Fields
        /\ m.end = IF "end" \in w THEN c.end ELSE latest.end
        /\ m.amount = IF "amount" \in w THEN c.amount ELSE latest.amount
        /\ m.records = IF "records" \in w THEN c.records ELSE latest.records
    BY DEF MergedBlock, BlockOK, Fields
  <1>3. Splits(op, b) => Part(op, b) \in Nat \ {0} /\ Part(op, b) <= b.end - op.block
    BY PartOK
  <1> HIDE DEF m, c, w
  <1>4. RecordsOK(m.records)
    BY <1>1, <1>2 DEF BlockOK
  <1>5. CASE Splits(op, b)
    <2>1. m.end = b.end - Part(op, b) /\ m.amount = b.amount - Part(op, b)
      BY <1>1, <1>2, <1>5
    <2>2. m.end \in Nat /\ op.block <= m.end /\ m.amount = m.end - op.block + 1
      BY <1>3, <1>5, <2>1 DEF BlockOK
    <2> QED BY <1>2, <1>4, <1>5, <2>1, <2>2 DEF BlockOK, m
  <1>6. CASE ~Splits(op, b)
    <2>1. \/ m.end = latest.end /\ m.amount = latest.amount
          \/ m.end = b.end /\ m.amount = b.amount
      BY <1>1, <1>2, <1>6
    <2> QED BY <1>2, <1>4, <1>6, <2>1 DEF BlockOK, m
  <1> QED BY <1>5, <1>6

\* The block split off takes the rest of the range.
LEMMA ChildOK ==
    ASSUME NEW op, NEW row, OpOK(op), op.kind \in OnBlock, LedgerAllows(op, row),
           NEW b, b = row["block"], BlockOK(op.block, b), Splits(op, b)
    PROVE  LET t == SecondStart(b, Part(op, b)) IN
           \E child : /\ ChildOf(op, b) = Only(t, child) /\ BlockOK(t, child)
                      /\ child.end = b.end
  <1> DEFINE n == Part(op, b)
             t == SecondStart(b, n)
             k == RecordIndex(b, op.req)
             child == IF op.kind = "Transfer" THEN TransferredPart(b, op.n, op.to)
                      ELSE IF op.kind = "Retire" THEN RetiredPart(b, k, op.account)
                      ELSE AuthorizedPart(b, k)
  <1>1. /\ op.kind \in {"Transfer", "Retire", "Authorize"}
        /\ n \in Nat \ {0} /\ n <= b.end - op.block
    BY PartOK
  <1>2. ChildOf(op, b) = Only(t, child)
    BY DEF ChildOf, Part
  <1>3. t \in Nat \ {0} /\ t <= b.end /\ n = b.end - t + 1 /\ b.end \in Nat
    <2> HIDE DEF n
    <2> QED BY <1>1 DEF SecondStart, BlockOK
  <1>4. DOMAIN child = Fields /\ child.end = b.end /\ child.amount = n
    BY <1>1 DEF TransferredPart, RetiredPart, AuthorizedPart, Fields, Part
  <1>5. RecordsOK(child.records)
    <2>1. CASE op.kind = "Transfer"
      BY <2>1 DEF TransferredPart, RecordsOK
    <2>2. CASE op.kind \in {"Retire", "Authorize"}
      <3> DEFINE r == b.records[k]
      <3>1. r \in TransactionRecord /\ r.amount \in Nat \ {0}
        BY <2>2, AllowedOnBlock, PendingRecord DEF BlockOK
      <3>2. \E kind \in TxKind : child.records = Completed(r, kind)
        BY <2>2 DEF RetiredPart, AuthorizedPart, TxKind
      <3> HIDE DEF r, child
      <3>3. PICK kind \in TxKind : child.records = Completed(r, kind)
        BY <3>2
      <3>4. [id |-> r.id, type |-> kind, status |-> "Completed", amount |-> r.amount]
                \in TransactionRecord
        BY <3>1 DEF TransactionRecord, TxStatus
      <3> QED BY <3>1, <3>3, <3>4 DEF Completed, RecordsOK
    <2> QED BY <1>1, <2>1, <2>2
  <1> HIDE DEF child, n
  <1>6. BlockOK(t, child)
    <2> HIDE DEF t
    <2> QED BY <1>3, <1>4, <1>5 DEF BlockOK
  <1> QED BY <1>2, <1>4, <1>6 DEF n

-----------------------------------------------------------------------------
(* Operations under way *)

TotalsOK(p) == "issued" \in DOMAIN p /\ p.issued \in Nat

ProjectRowOK(p) == {"totals", "activities"} \subseteq DOMAIN p /\ TotalsOK(p.totals)

\* The rows read so far.
RowOK(op, row) ==
    /\ "block" \in DOMAIN row => op.kind \in OnBlock /\ BlockOK(op.block, row["block"])
    /\ "project" \in DOMAIN row => ProjectRowOK(row["project"])

\* The rows computed so far.  A split leaves the row first read its low end.
LatestOK(t) ==
    /\ "block" \in DOMAIN t.latest =>
         /\ BlockOK(t.op.block, t.latest["block"])
         /\ Splits(t.op, t.row["block"]) =>
              t.latest["block"].end = t.row["block"].end - Part(t.op, t.row["block"])
    /\ "project" \in DOMAIN t.latest => ProjectRowOK(t.latest["project"])

Named(todo) == {todo[i] : i \in DOMAIN todo}

Reading(t) ==
    \/ t.todo = Reads(t.op) /\ DOMAIN t.row = {}
    \/ /\ Len(Reads(t.op)) = 2
       /\ t.todo = <<Reads(t.op)[2]>> /\ DOMAIN t.row = {Reads(t.op)[1]}

Merging(t) ==
    /\ DOMAIN t.row = Named(Reads(t.op))
    /\ LedgerAllows(t.op, t.row)
    /\ \/ t.todo = Merges(t.op, t.row) /\ DOMAIN t.latest = {}
       \/ /\ Len(Merges(t.op, t.row)) = 2 /\ t.todo = <<Merges(t.op, t.row)[2]>>
          /\ DOMAIN t.latest \subseteq {Merges(t.op, t.row)[1]}
       \/ t.todo = <<>> /\ DOMAIN t.latest \subseteq Named(Merges(t.op, t.row))

Open(t) ==
    /\ DOMAIN t = {"pc", "op", "todo", "row", "latest", "fresh"}
    /\ OpOK(t.op) /\ RowOK(t.op, t.row) /\ LatestOK(t)
    /\ \/ t.pc = "read" /\ Reading(t) /\ DOMAIN t.latest = {}
       \/ t.pc = "merge" /\ Merging(t)

InOrder ==
    /\ \A s \in DOMAIN blocks : BlockOK(s, blocks[s])
    /\ TotalsOK(project)
    /\ \A r \in DOMAIN requests :
         "block" \in DOMAIN requests[r] /\ requests[r].block \in DOMAIN blocks
    /\ activity = "VerificationUploaded" => report \in VintageTotals
    /\ lastId \in Nat
    /\ DOMAIN txn = Clients
    /\ \A c \in Clients : txn[c] = Idle \/ Open(txn[c])

LEMMA ReadsAre ==
    ASSUME NEW op, op.kind \in Operation
    PROVE  /\ op.kind = "Transfer" => Reads(op) = <<"project", "block">>
           /\ op.kind = "Issue" => Reads(op) = <<"project", "company">>
           /\ op.kind = "Monitoring" => Reads(op) = <<"project">>
           /\ op.kind = "Retire" => Reads(op) = <<"block", "project">>
           /\ op.kind \in {"Request", "Authorize", "Decline"} => Reads(op) = <<"block">>
  <1>1. CASE op.kind = "Transfer"
    BY <1>1 DEF Reads
  <1>2. CASE op.kind = "Issue"
    BY <1>2 DEF Reads
  <1>3. CASE op.kind = "Monitoring"
    BY <1>3 DEF Reads
  <1>4. CASE op.kind = "Retire"
    BY <1>4 DEF Reads
  <1>5. CASE op.kind \in {"Request", "Authorize", "Decline"}
    BY <1>5 DEF Reads
  <1> QED BY <1>1, <1>2, <1>3, <1>4, <1>5 DEF Operation

\* The tables of an operation's reads.
LEMMA TablesRead ==
    ASSUME NEW op, op.kind \in Operation
    PROVE  /\ Reads(op) \in Seq({"project", "company", "block"})
           /\ Len(Reads(op)) \in {1, 2}
           /\ Len(Reads(op)) = 2 => /\ Reads(op)[1] # Reads(op)[2]
                                    /\ Tail(Reads(op)) = <<Reads(op)[2]>>
           /\ "block" \in Named(Reads(op)) <=> op.kind \in OnBlock
           /\ op.kind \in {"Transfer", "Issue", "Monitoring", "Retire"}
                <=> "project" \in Named(Reads(op))
           /\ op.kind = "Issue" <=> "company" \in Named(Reads(op))
  <1>1. CASE Reads(op) = <<"project", "block">> /\ op.kind = "Transfer"
    BY <1>1 DEF Named, OnBlock
  <1>2. CASE Reads(op) = <<"project", "company">> /\ op.kind = "Issue"
    BY <1>2 DEF Named, OnBlock
  <1>3. CASE Reads(op) = <<"project">> /\ op.kind = "Monitoring"
    BY <1>3 DEF Named, OnBlock
  <1>4. CASE Reads(op) = <<"block", "project">> /\ op.kind = "Retire"
    BY <1>4 DEF Named, OnBlock
  <1>5. CASE Reads(op) = <<"block">> /\ op.kind \in {"Request", "Authorize", "Decline"}
    BY <1>5 DEF Named, OnBlock
  <1> QED BY <1>1, <1>2, <1>3, <1>4, <1>5, ReadsAre DEF Operation

\* The tables of an operation's updates.
LEMMA TablesMerged ==
    ASSUME NEW op, NEW row, op.kind \in Operation, NEW m, m = Merges(op, row)
    PROVE  /\ m \in {<<"project">>, <<"block", "project">>, <<"project", "block">>, <<"block">>}
           /\ "block" \in Named(m) <=> op.kind \in OnBlock
           /\ "project" \in Named(m) => op.kind \in {"Transfer", "Issue", "Monitoring", "Retire"}
           /\ \/ Len(m) = 2 /\ Head(m) = m[1] /\ Tail(m) = <<m[2]>>
              \/ Len(m) = 1 /\ Tail(m) = <<>>
  <1>1. CASE op.kind \in {"Issue", "Monitoring"}
    <2>1. m = <<"project">>
      BY <1>1 DEF Merges
    <2> QED BY <1>1, <2>1 DEF Named, OnBlock
  <1>2. CASE op.kind = "Transfer"
    <2>1. m = <<"block", "project">> \/ m = <<"block">>
      BY <1>2 DEF Merges
    <2>2. CASE m = <<"block", "project">>
      BY <1>2, <2>2 DEF Named, OnBlock
    <2>3. CASE m = <<"block">>
      BY <1>2, <2>3 DEF Named, OnBlock
    <2> QED BY <2>1, <2>2, <2>3
  <1>3. CASE op.kind = "Retire"
    <2>1. m = <<"project", "block">> \/ m = <<"block">>
      BY <1>3 DEF Merges
    <2>2. CASE m = <<"project", "block">>
      BY <1>3, <2>2 DEF Named, OnBlock
    <2>3. CASE m = <<"block">>
      BY <1>3, <2>3 DEF Named, OnBlock
    <2> QED BY <2>1, <2>2, <2>3
  <1>4. CASE op.kind \in {"Request", "Authorize", "Decline"}
    <2>1. m = <<"block">>
      BY <1>4 DEF Merges
    <2> QED BY <1>4, <2>1 DEF Named, OnBlock
  <1> QED BY <1>1, <1>2, <1>3, <1>4 DEF Operation

LEMMA OpenFields ==
    ASSUME InOrder, NEW c \in Clients, txn[c].pc # "idle"
    PROVE  Open(txn[c])
  BY DEF InOrder, Idle

\* A step that commits nothing and moves one operation on.
LEMMA MovesOn ==
    ASSUME InOrder, NEW c \in Clients, NEW t, t = Idle \/ Open(t),
           txn' = [txn EXCEPT ![c] = t], lastId' \in Nat,
           UNCHANGED <<blocks, project, requests, activity, report>>
    PROVE  InOrder'
  <1>1. DOMAIN txn' = Clients /\ txn'[c] = t /\ \A d \in Clients : d # c => txn'[d] = txn[d]
    BY DEF InOrder
  <1>2. \A d \in Clients : txn'[d] = Idle \/ Open(txn'[d])
    BY <1>1 DEF InOrder
  <1>3. \A d \in Clients : (txn[d] = Idle \/ Open(txn[d]))'
    BY <1>2 DEF Open, OpOK
  <1> QED BY <1>1, <1>3 DEF InOrder

LEMMA BeginOrder ==
    ASSUME InOrder, NEW c \in Clients, NEW op, OpOK(op), Begin(c, op), lastId' \in Nat
    PROVE  InOrder'
  <1> DEFINE t == [pc |-> "read", op |-> op, todo |-> Reads(op),
                   row |-> <<>>, latest |-> <<>>, fresh |-> TRUE]
  <1>1. txn' = [txn EXCEPT ![c] = t] /\ UNCHANGED vars
    BY DEF Begin
  <1>2. /\ DOMAIN t = {"pc", "op", "todo", "row", "latest", "fresh"}
        /\ t.pc = "read" /\ t.op = op /\ t.todo = Reads(op)
        /\ DOMAIN t.row = {} /\ DOMAIN t.latest = {}
    OBVIOUS
  <1> HIDE DEF t
  <1>3. Open(t)
    BY <1>2 DEF Open, RowOK, LatestOK, Reading
  <1> QED BY <1>1, <1>3, MovesOn DEF vars

LEMMA TransferBegins ==
    ASSUME InOrder, NEW c \in Clients, NEW s \in DOMAIN blocks, NEW n, NEW to,
           BeginTransfer(c, s, n, to)
    PROVE  InOrder'
  <1> DEFINE op == [kind |-> "Transfer", block |-> s, n |-> n,
                    from |-> blocks[s].owner, to |-> to]
  <1>1. Begin(c, op) /\ lastId' = lastId /\ n \in Nat \ {0}
    BY DEF BeginTransfer, CanTransfer
  <1>2. OpOK(op)
    BY <1>1 DEF OpOK, Operation, OnBlock
  <1>3. lastId' \in Nat
    BY <1>1 DEF InOrder
  <1> HIDE DEF op
  <1> QED BY <1>1, <1>2, <1>3, BeginOrder

LEMMA RequestBegins ==
    ASSUME InOrder, NEW c \in Clients, NEW s \in DOMAIN blocks, NEW n,
           NEW type \in TxKind, NEW sub, NEW purpose, BeginRequest(c, s, n, type, sub, purpose)
    PROVE  InOrder'
  <1> DEFINE op == [kind |-> "Request", block |-> s, n |-> n, from |-> blocks[s].owner,
                    type |-> type, subType |-> sub, purpose |-> purpose, id |-> lastId + 1]
  <1>1. Begin(c, op) /\ lastId' = lastId + 1 /\ n \in Nat \ {0}
    BY DEF BeginRequest
  <1>2. lastId \in Nat
    BY DEF InOrder
  <1>3. OpOK(op)
    BY <1>1, <1>2 DEF OpOK, Operation, OnBlock
  <1> HIDE DEF op
  <1> QED BY <1>1, <1>2, <1>3, BeginOrder

LEMMA DecisionBegins ==
    ASSUME InOrder, NEW c \in Clients, NEW r \in DOMAIN requests,
           NEW kind \in {"Retire", "Authorize", "Decline"}, NEW status \in TxStatus,
           BeginDecision(c, r, kind, status)
    PROVE  InOrder'
  <1> DEFINE op == [kind |-> kind, req |-> r, block |-> requests[r].block, status |-> status,
                    account |-> MapSubTypeToAccountType(requests[r].subType)]
  <1>1. Begin(c, op) /\ lastId' = lastId
    BY DEF BeginDecision
  <1>2. lastId \in Nat /\ requests[r].block \in DOMAIN blocks
    BY DEF InOrder
  <1>3. OpOK(op)
    BY <1>2 DEF OpOK, Operation, OnBlock
  <1> HIDE DEF op
  <1> QED BY <1>1, <1>2, <1>3, BeginOrder

LEMMA IssueBegins ==
    ASSUME InOrder, NEW c \in Clients, BeginMonitoring(c) \/ BeginIssue(c)
    PROVE  InOrder'
  <1>1. lastId' \in Nat
    BY DEF BeginMonitoring, BeginIssue, InOrder
  <1>2. CASE BeginMonitoring(c)
    <2> DEFINE op == [kind |-> "Monitoring", act |-> current + 1]
    <2>1. Begin(c, op) /\ OpOK(op)
      BY <1>2 DEF BeginMonitoring, OpOK, Operation, OnBlock
    <2> HIDE DEF op
    <2> QED BY <1>1, <2>1, BeginOrder
  <1>3. CASE BeginIssue(c)
    <2> DEFINE op == [kind |-> "Issue", act |-> current, totals |-> report]
    <2>1. Begin(c, op) /\ report \in VintageTotals
      BY <1>3 DEF BeginIssue, InOrder
    <2>2. OpOK(op)
      BY <2>1 DEF OpOK, Operation, OnBlock
    <2> HIDE DEF op
    <2> QED BY <1>1, <2>1, <2>2, BeginOrder
  <1> QED BY <1>2, <1>3

\* One more row is read.
LEMMA AcceptedOK ==
    ASSUME InOrder, NEW c \in Clients, txn[c].pc = "read"
    PROVE  LET a == Accepted(c)
               t == txn[c]
           IN
           /\ DOMAIN a = {"pc", "op", "todo", "row", "latest", "fresh"}
           /\ a.op = t.op /\ a.latest = t.latest /\ a.pc = t.pc /\ DOMAIN a.latest = {}
           /\ OpOK(a.op) /\ RowOK(a.op, a.row)
           /\ Len(t.todo) > 1 => Reading(a)
           /\ Len(t.todo) = 1 => DOMAIN a.row = Named(Reads(t.op))
  <1> DEFINE t == txn[c]
             a == Accepted(c)
             table == Head(t.todo)
             row == Insert(t.row, Only(table, Row(t.op, table)))
  <1>1. Open(t) /\ Reading(t) /\ DOMAIN t.latest = {} /\ OpOK(t.op)
    BY OpenFields DEF Open
  <1>2. /\ DOMAIN a = {"pc", "op", "todo", "row", "latest", "fresh"}
        /\ a.op = t.op /\ a.latest = t.latest /\ a.pc = t.pc
        /\ a.row = row /\ a.todo = Tail(t.todo)
    <2>1. a = [t EXCEPT !.row = row, !.todo = Tail(@)]
      BY DEF Accepted
    <2>2. DOMAIN t = {"pc", "op", "todo", "row", "latest", "fresh"}
      BY <1>1 DEF Open
    <2> HIDE DEF t, a, row
    <2> QED BY <2>1, <2>2
  <1>3. DOMAIN row = DOMAIN t.row \cup {table} /\ row[table] = Row(t.op, table)
        /\ \A x \in DOMAIN t.row : x # table => row[x] = t.row[x]
    BY DEF Insert, Only
  <1>4. /\ Reads(t.op) \in Seq({"project", "company", "block"}) /\ Len(Reads(t.op)) \in {1, 2}
        /\ "block" \in Named(Reads(t.op)) <=> t.op.kind \in OnBlock
        /\ Len(Reads(t.op)) = 2 => /\ Reads(t.op)[1] # Reads(t.op)[2]
                                   /\ Tail(Reads(t.op)) = <<Reads(t.op)[2]>>
    BY <1>1, TablesRead DEF OpOK
  <1> HIDE DEF a, row
  <1>5. table \in Named(Reads(t.op))
    BY <1>1, <1>4 DEF Reading, Named
  <1>6. RowOK(t.op, row)
    <2>1. RowOK(t.op, t.row)
      BY <1>1 DEF Open
    <2>2. table = "block" => t.op.kind \in OnBlock /\ BlockOK(t.op.block, Row(t.op, table))
      BY <1>1, <1>4, <1>5 DEF OpOK, InOrder, Row
    <2>3. table = "project" => ProjectRowOK(Row(t.op, table))
      BY DEF InOrder, Row, ProjectRowOK
    <2> HIDE DEF t, table
    <2> QED BY <1>3, <2>1, <2>2, <2>3 DEF RowOK
  <1>7. CASE t.todo = Reads(t.op) /\ DOMAIN t.row = {}
    <2>1. table = Reads(t.op)[1]
      BY <1>4, <1>7
    <2> HIDE DEF table
    <2>2. Len(t.todo) > 1 => Tail(t.todo) = <<Reads(t.op)[2]>>
      BY <1>4, <1>7
    <2>3. Len(t.todo) = 1 => Named(Reads(t.op)) = {Reads(t.op)[1]}
      BY <1>4, <1>7 DEF Named
    <2>4. Len(t.todo) > 1 => Reading(a)
      BY <1>2, <1>3, <1>4, <1>7, <2>1, <2>2 DEF Reading
    <2> QED BY <1>1, <1>2, <1>3, <1>6, <1>7, <2>1, <2>3, <2>4 DEF a
  <1>8. CASE /\ Len(Reads(t.op)) = 2
             /\ t.todo = <<Reads(t.op)[2]>> /\ DOMAIN t.row = {Reads(t.op)[1]}
    <2>1. table = Reads(t.op)[2] /\ Len(t.todo) = 1
      BY <1>8
    <2> HIDE DEF table
    <2>2. Named(Reads(t.op)) = {Reads(t.op)[1], Reads(t.op)[2]}
      BY <1>4, <1>8 DEF Named
    <2> QED BY <1>1, <1>2, <1>3, <1>6, <1>8, <2>1, <2>2 DEF a
  <1> QED BY <1>1, <1>7, <1>8 DEF Reading

LEMMA ReadOrder ==
    ASSUME InOrder, NEW c \in Clients, ReadRow(c) \/ Plan(c) \/ Refuse(c)
    PROVE  InOrder'
  <1> DEFINE a == Accepted(c)
  <1>1. /\ txn[c].pc = "read" /\ UNCHANGED <<vars, lastId>>
        /\ \/ Len(txn[c].todo) > 1 /\ txn' = [txn EXCEPT ![c] = a]
           \/ /\ Len(txn[c].todo) = 1 /\ LedgerAllows(a.op, a.row)
              /\ txn' = [txn EXCEPT ![c] = [a EXCEPT !.pc = "merge", !.todo = Merges(a.op, a.row)]]
           \/ txn' = [txn EXCEPT ![c] = Idle]
    BY DEF ReadRow, Plan, Refuse
  <1>2. /\ DOMAIN a = {"pc", "op", "todo", "row", "latest", "fresh"}
        /\ a.pc = "read" /\ DOMAIN a.latest = {} /\ a.op = txn[c].op
        /\ OpOK(a.op) /\ RowOK(a.op, a.row)
        /\ Len(txn[c].todo) > 1 => Reading(a)
        /\ Len(txn[c].todo) = 1 => DOMAIN a.row = Named(Reads(a.op))
    BY <1>1, AcceptedOK
  <1>3. UNCHANGED <<blocks, project, requests, activity, report>> /\ lastId' \in Nat
    BY <1>1 DEF vars, InOrder
  <1> HIDE DEF a
  <1>4. CASE Len(txn[c].todo) > 1 /\ txn' = [txn EXCEPT ![c] = a]
    <2>1. Open(a)
      BY <1>2, <1>4 DEF Open, LatestOK
    <2> QED BY <1>3, <1>4, <2>1, MovesOn
  <1>5. CASE /\ Len(txn[c].todo) = 1 /\ LedgerAllows(a.op, a.row)
             /\ txn' = [txn EXCEPT ![c] = [a EXCEPT !.pc = "merge", !.todo = Merges(a.op, a.row)]]
    <2> DEFINE t == [a EXCEPT !.pc = "merge", !.todo = Merges(a.op, a.row)]
    <2>1. /\ DOMAIN t = {"pc", "op", "todo", "row", "latest", "fresh"}
          /\ t.pc = "merge" /\ t.todo = Merges(a.op, a.row)
          /\ t.op = a.op /\ t.row = a.row /\ t.latest = a.latest
      BY <1>2
    <2> HIDE DEF t
    <2>2. Open(t)
      BY <1>2, <1>5, <2>1 DEF Open, LatestOK, Merging
    <2>3. txn' = [txn EXCEPT ![c] = t]
      BY <1>5 DEF t
    <2> QED BY <1>3, <2>2, <2>3, MovesOn
  <1>6. CASE txn' = [txn EXCEPT ![c] = Idle]
    BY <1>3, <1>6, MovesOn
  <1> QED BY <1>1, <1>4, <1>5, <1>6

\* A project row that is overwritten keeps its shape.
LEMMA MergedProjectOK ==
    ASSUME NEW op, NEW row, OpOK(op), op.kind \in {"Transfer", "Issue", "Monitoring", "Retire"},
           op.kind = "Issue" => ProjectRowOK(row["project"]),
           NEW latest, ProjectRowOK(latest)
    PROVE  /\ ProjectRowOK(MergedProject(op, row, latest))
           /\ op.kind # "Issue" => MergedProject(op, row, latest).totals.issued = latest.totals.issued
           /\ op.kind = "Issue" => MergedProject(op, row, latest).totals.issued
                                    = row["project"].totals.issued + Total(op.totals)
  <1> DEFINE old == row["project"].totals
             m == MergedProject(op, row, latest)
             n == row["block"].records[RecordIndex(row["block"], op.req)].amount
  <1>1. CASE op.kind = "Issue"
    <2>1. m = [totals |-> [latest.totals EXCEPT !.issued = old.issued + Total(op.totals),
                                                !.balance = old.balance + Total(op.totals)],
               activities |-> IssuedActivity(row["project"].activities, op.act)]
      BY <1>1 DEF MergedProject
    <2>2. Total(op.totals) \in Nat
      <3>1. IsVintageTotals(op.totals)
        BY <1>1, LedgerAssumption DEF OpOK
      <3> QED BY <3>1 DEF IsVintageTotals, Total
    <2>3. old.issued + Total(op.totals) \in Nat
      BY <1>1, <2>2 DEF ProjectRowOK, TotalsOK
    <2> HIDE DEF m, old
    <2>4. /\ {"totals", "activities"} \subseteq DOMAIN m
          /\ DOMAIN m.totals = DOMAIN latest.totals /\ m.totals.issued = old.issued + Total(op.totals)
      BY <2>1 DEF ProjectRowOK, TotalsOK
    <2> QED BY <1>1, <2>3, <2>4 DEF ProjectRowOK, TotalsOK, m, old
  <1>2. CASE op.kind # "Issue"
    <2>1. \/ \E x : m = [latest EXCEPT !.activities = x]
          \/ \E x, y : m = [latest EXCEPT !.totals.balance = x, !.totals.transferred = y]
          \/ \E x, y : m = [latest EXCEPT !.totals.balance = x, !.totals.retired = y]
      <3>1. CASE op.kind = "Monitoring"
        <4>1. m = [latest EXCEPT !.activities = Insert(row["project"].activities,
                                                 Only(op.act, "MonitoringVerified"))]
          BY <3>1 DEF MergedProject
        <4> QED BY <4>1
      <3>2. CASE op.kind = "Transfer"
        <4>1. m = [latest EXCEPT !.totals.balance = old.balance - op.n,
                           !.totals.transferred = old.transferred + op.n]
          BY <3>2 DEF MergedProject
        <4> HIDE DEF m, old
        <4> QED BY <4>1
      <3>3. CASE op.kind = "Retire"
        <4>1. m = [latest EXCEPT !.totals.balance = old.balance - n,
                           !.totals.retired = old.retired + n]
          BY <3>3 DEF MergedProject
        <4> HIDE DEF m, old, n
        <4> QED BY <4>1
      <3> QED BY <1>2, <3>1, <3>2, <3>3
    <2> HIDE DEF m
    <2>2. DOMAIN m = DOMAIN latest /\ DOMAIN m.totals = DOMAIN latest.totals
          /\ m.totals.issued = latest.totals.issued
      <3>1. CASE \E x : m = [latest EXCEPT !.activities = x]
        BY <3>1 DEF ProjectRowOK, TotalsOK
      <3>2. ASSUME NEW p, NEW f \in {"transferred", "retired"}, NEW x, NEW y,
                   p = [[latest.totals EXCEPT !.balance = x] EXCEPT ![f] = y],
                   m = [latest EXCEPT !.totals = p]
            PROVE  DOMAIN m = DOMAIN latest /\ DOMAIN m.totals = DOMAIN latest.totals
                   /\ m.totals.issued = latest.totals.issued
        BY <3>2 DEF ProjectRowOK, TotalsOK
      <3>3. ASSUME NEW x, NEW y, m = [latest EXCEPT !.totals.balance = x, !.totals.transferred = y]
            PROVE  m = [latest EXCEPT !.totals =
                          [[latest.totals EXCEPT !.balance = x] EXCEPT !["transferred"] = y]]
        BY <3>3 DEF ProjectRowOK
      <3>4. ASSUME NEW x, NEW y, m = [latest EXCEPT !.totals.balance = x, !.totals.retired = y]
            PROVE  m = [latest EXCEPT !.totals =
                          [[latest.totals EXCEPT !.balance = x] EXCEPT !["retired"] = y]]
        BY <3>4 DEF ProjectRowOK
      <3> QED BY <2>1, <3>1, <3>2, <3>3, <3>4
    <2> QED BY <1>2, <2>2 DEF ProjectRowOK, TotalsOK, m
  <1> QED BY <1>1, <1>2

\* What an open operation has at hand when it merges.
LEMMA MergingFacts ==
    ASSUME InOrder, NEW c \in Clients, NEW t, t = txn[c], t.pc = "merge"
    PROVE  /\ Open(t) /\ Merging(t) /\ OpOK(t.op) /\ RowOK(t.op, t.row) /\ LatestOK(t)
           /\ t.op.kind \in Operation /\ LedgerAllows(t.op, t.row)
           /\ t.op.kind \in OnBlock =>
                /\ "block" \in DOMAIN t.row
                /\ BlockOK(t.op.block, t.row["block"])
                /\ BlockOK(t.op.block, blocks[t.op.block])
           /\ t.op.kind \in {"Transfer", "Issue", "Monitoring", "Retire"} =>
                "project" \in DOMAIN t.row /\ ProjectRowOK(t.row["project"])
  <1>1. Open(t)
    BY OpenFields
  <1>2. Merging(t) /\ OpOK(t.op) /\ RowOK(t.op, t.row) /\ LatestOK(t) /\ t.op.kind \in Operation
    BY <1>1 DEF Open, OpOK
  <1>3. /\ "block" \in Named(Reads(t.op)) <=> t.op.kind \in OnBlock
        /\ t.op.kind \in {"Transfer", "Issue", "Monitoring", "Retire"}
                <=> "project" \in Named(Reads(t.op))
    BY <1>2, TablesRead
  <1>4. DOMAIN t.row = Named(Reads(t.op)) /\ LedgerAllows(t.op, t.row)
    BY <1>2 DEF Merging
  <1>5. t.op.kind \in OnBlock => BlockOK(t.op.block, blocks[t.op.block])
    BY <1>2 DEF OpOK, InOrder
  <1> QED BY <1>1, <1>2, <1>3, <1>4, <1>5 DEF RowOK

\* The row an operation merges next.
LEMMA LatestIs ==
    ASSUME InOrder, NEW c \in Clients, NEW t, t = txn[c], t.pc = "merge", t.todo # <<>>,
           NEW x, x = Latest(c)
    PROVE  /\ Head(t.todo) \in Named(Merges(t.op, t.row))
           /\ DOMAIN x \subseteq {Head(t.todo)}
           /\ "block" \in DOMAIN x => x["block"] = MergedBlock(t.op, t.row["block"], blocks[t.op.block])
           /\ "project" \in DOMAIN x =>
                x["project"] = MergedProject(t.op, t.row, [totals |-> project, activities |-> activities])
  <1>1. Merging(t) /\ t.op.kind \in Operation
    BY MergingFacts
  <1> DEFINE m == Merges(t.op, t.row)
  <1>2. m \in {<<"project">>, <<"block", "project">>, <<"project", "block">>, <<"block">>}
    BY <1>1, TablesMerged
  <1>3. t.todo = m \/ (Len(m) = 2 /\ t.todo = <<m[2]>>)
    BY <1>1 DEF Merging
  <1> HIDE DEF m
  <1>4. Head(t.todo) \in Named(m) /\ Head(t.todo) \in {"block", "project"}
    BY <1>2, <1>3 DEF Named
  <1>5. CASE Head(t.todo) = "block"
    <2>1. x = Only("block", MergedBlock(t.op, t.row["block"], blocks[t.op.block]))
      BY <1>5 DEF Latest
    <2> QED BY <1>4, <1>5, <2>1 DEF Only, m
  <1>6. CASE Head(t.todo) = "project"
    <2>1. Row(t.op, "project") = [totals |-> project, activities |-> activities]
      BY DEF Row
    <2>2. x = <<>> \/ x = Only("project", MergedProject(t.op, t.row, Row(t.op, "project")))
      BY <1>6 DEF Latest
    <2> QED BY <1>4, <1>6, <2>1, <2>2 DEF Only, m
  <1> QED BY <1>4, <1>5, <1>6

LEMMA MergeOrder ==
    ASSUME InOrder, NEW c \in Clients, MergeRow(c)
    PROVE  InOrder'
  <1> DEFINE t == txn[c]
             x == Latest(c)
             m == Merges(t.op, t.row)
             latest == Insert(t.latest, x)
             new == [t EXCEPT !.todo = Tail(t.todo), !.latest = Insert(t.latest, Latest(c))]
  <1>1. /\ t.pc = "merge" /\ t.todo # <<>> /\ txn' = [txn EXCEPT ![c] = new]
        /\ UNCHANGED <<vars, lastId>>
    <2>1. t.pc = "merge" /\ t.todo # <<>> /\ UNCHANGED <<vars, lastId>>
      BY DEF MergeRow
    <2>2. txn' = [txn EXCEPT ![c] = new]
      BY Zenon DEF MergeRow
    <2> QED BY <2>1, <2>2
  <1>2. /\ Open(t) /\ Merging(t) /\ OpOK(t.op) /\ RowOK(t.op, t.row) /\ LatestOK(t)
        /\ t.op.kind \in Operation /\ LedgerAllows(t.op, t.row)
        /\ t.op.kind \in OnBlock =>
                /\ BlockOK(t.op.block, t.row["block"])
                /\ BlockOK(t.op.block, blocks[t.op.block])
        /\ t.op.kind \in {"Transfer", "Issue", "Monitoring", "Retire"} =>
                ProjectRowOK(t.row["project"])
    BY <1>1, MergingFacts
  <1>3. /\ m \in {<<"project">>, <<"block", "project">>, <<"project", "block">>, <<"block">>}
        /\ "block" \in Named(m) <=> t.op.kind \in OnBlock
        /\ "project" \in Named(m) => t.op.kind \in {"Transfer", "Issue", "Monitoring", "Retire"}
        /\ \/ Len(m) = 2 /\ Head(m) = m[1] /\ Tail(m) = <<m[2]>>
           \/ Len(m) = 1 /\ Tail(m) = <<>>
    BY <1>2, TablesMerged
  <1>4. /\ Head(t.todo) \in Named(m) /\ DOMAIN x \subseteq {Head(t.todo)}
        /\ "block" \in DOMAIN x => x["block"] = MergedBlock(t.op, t.row["block"], blocks[t.op.block])
        /\ "project" \in DOMAIN x =>
                x["project"] = MergedProject(t.op, t.row, [totals |-> project, activities |-> activities])
    BY <1>1, LatestIs
  <1>5. /\ DOMAIN new = {"pc", "op", "todo", "row", "latest", "fresh"}
        /\ new.pc = "merge" /\ new.op = t.op /\ new.row = t.row
        /\ new.todo = Tail(t.todo) /\ new.latest = latest
    BY <1>1, <1>2 DEF Open
  <1>6. /\ DOMAIN latest = DOMAIN t.latest \cup DOMAIN x
        /\ \A y \in DOMAIN latest : latest[y] = IF y \in DOMAIN x THEN x[y] ELSE t.latest[y]
    BY DEF Insert
  <1> HIDE DEF new, latest, x, m
  <1>7. "block" \in DOMAIN x =>
          /\ BlockOK(t.op.block, x["block"])
          /\ Splits(t.op, t.row["block"]) =>
                x["block"].end = t.row["block"].end - Part(t.op, t.row["block"])
    <2> SUFFICES ASSUME "block" \in DOMAIN x
                 PROVE  /\ BlockOK(t.op.block, x["block"])
                        /\ Splits(t.op, t.row["block"]) =>
                             x["block"].end = t.row["block"].end - Part(t.op, t.row["block"])
      OBVIOUS
    <2>1. t.op.kind \in OnBlock
      BY <1>3, <1>4
    <2>2. /\ BlockOK(t.op.block, t.row["block"]) /\ BlockOK(t.op.block, blocks[t.op.block])
          /\ x["block"] = MergedBlock(t.op, t.row["block"], blocks[t.op.block])
      BY <1>2, <1>4, <2>1
    <2> HIDE DEF t
    <2> QED BY <1>2, <2>1, <2>2, MergedOK
  <1>8. "project" \in DOMAIN x => ProjectRowOK(x["project"])
    <2> SUFFICES ASSUME "project" \in DOMAIN x PROVE ProjectRowOK(x["project"])
      OBVIOUS
    <2>1. t.op.kind \in {"Transfer", "Issue", "Monitoring", "Retire"}
      BY <1>3, <1>4
    <2> DEFINE p == [totals |-> project, activities |-> activities]
    <2>2. ProjectRowOK(p) /\ x["project"] = MergedProject(t.op, t.row, p)
      BY <1>4 DEF ProjectRowOK, InOrder
    <2> HIDE DEF t, p
    <2> QED BY <1>2, <2>1, <2>2, MergedProjectOK
  <1>9. LatestOK(new)
    BY <1>2, <1>5, <1>6, <1>7, <1>8 DEF LatestOK
  <1>10. Merging(new)
    <2>1. \/ t.todo = m /\ DOMAIN t.latest = {}
          \/ /\ Len(m) = 2 /\ t.todo = <<m[2]>>
             /\ DOMAIN t.latest \subseteq {m[1]}
      BY <1>1, <1>2 DEF Merging, m
    <2>2. CASE t.todo = m /\ Len(m) = 2 /\ DOMAIN t.latest = {}
      <3>1. Head(t.todo) = m[1] /\ Tail(t.todo) = <<m[2]>>
        BY <1>3, <2>2
      <3>2. DOMAIN latest \subseteq {m[1]}
        BY <1>4, <1>6, <2>2, <3>1
      <3> QED BY <1>2, <1>5, <2>2, <3>1, <3>2 DEF Merging, m
    <2>3. CASE t.todo = m /\ Len(m) # 2 /\ DOMAIN t.latest = {}
      <3>1. Tail(t.todo) = <<>>
        BY <1>3, <2>3
      <3>2. DOMAIN latest \subseteq Named(m)
        BY <1>4, <1>6, <2>3
      <3> QED BY <1>2, <1>5, <3>1, <3>2 DEF Merging, m
    <2>4. CASE /\ Len(m) = 2 /\ t.todo = <<m[2]>>
               /\ DOMAIN t.latest \subseteq {m[1]}
      <3>1. Tail(t.todo) = <<>> /\ m[1] \in Named(m)
        BY <1>3, <2>4 DEF Named
      <3>2. DOMAIN latest \subseteq Named(m)
        BY <1>4, <1>6, <2>4, <3>1
      <3> QED BY <1>2, <1>5, <3>1, <3>2 DEF Merging, m
    <2> QED BY <2>1, <2>2, <2>3, <2>4
  <1>11. Open(new)
    BY <1>2, <1>5, <1>9, <1>10 DEF Open
  <1>12. UNCHANGED <<blocks, project, requests, activity, report>> /\ lastId' \in Nat
    BY <1>1 DEF vars, InOrder
  <1> QED BY <1>1, <1>11, <1>12, MovesOn

\* The rows a commit inserts.
LEMMA NewRowsOK ==
    ASSUME NEW op, NEW row, OpOK(op), LedgerAllows(op, row),
           op.kind = "Issue" => ProjectRowOK(row["project"]),
           op.kind \in OnBlock => BlockOK(op.block, row["block"]),
           NEW new, new = NewBlockRows(op, row)
    PROVE  /\ \A x \in DOMAIN new : BlockOK(x, new[x])
           /\ op.kind # "Issue" => new = <<>> \/ DOMAIN new # {}
  <1>1. CASE op.kind = "Issue"
    <2> DEFINE n == row["project"].totals.issued
               v == op.totals
    <2>1. new = NewBlocks(v, n, ProjectOwner)
      <3>1. ~Splits(op, row["block"])
        BY <1>1 DEF Splits
      <3> QED BY <1>1, <3>1 DEF NewBlockRows
    <2>2. IsVintageTotals(v) /\ n \in Nat
      BY <1>1, LedgerAssumption DEF OpOK, ProjectRowOK, TotalsOK
    <2>3. /\ DOMAIN new = {VintageStart(v, n, i) : i \in DOMAIN v}
          /\ \A i \in DOMAIN v : new[VintageStart(v, n, i)]
                = NewBlock(VintageStart(v, n, i), n + v[i], ProjectOwner)
      <3> HIDE DEF n, v
      <3>1. LET w == NewBlocks(v, n, ProjectOwner) IN
            /\ DOMAIN w = {VintageStart(v, n, i) : i \in DOMAIN v}
            /\ \A i \in DOMAIN v : w[VintageStart(v, n, i)]
                = NewBlock(VintageStart(v, n, i), n + v[i], ProjectOwner)
        BY <2>2, NewBlocksAre
      <3> QED BY <2>1, <3>1
    <2> HIDE DEF n, v
    <2>4. ASSUME NEW i \in DOMAIN v
          PROVE  BlockOK(VintageStart(v, n, i), new[VintageStart(v, n, i)])
      <3> DEFINE s == VintageStart(v, n, i)
                 b == NewBlock(s, n + v[i], ProjectOwner)
      <3>1. v[i] \in Nat \ {0} /\ i \in 1 .. Len(v) /\ DOMAIN v = 1 .. Len(v) /\ Len(v) \in Nat
        BY <2>2 DEF IsVintageTotals
      <3>2. s \in Nat \ {0} /\ s <= n + v[i]
        <4>1. CASE i = 1
          BY <2>2, <3>1, <4>1 DEF VintageStart
        <4>2. CASE i # 1
          <5>1. i - 1 \in DOMAIN v /\ i - 1 < i
            BY <3>1, <4>2
          <5>2. v[i - 1] \in Nat /\ v[i - 1] < v[i]
            BY <2>2, <3>1, <5>1 DEF IsVintageTotals
          <5> QED BY <2>2, <3>1, <4>2, <5>2 DEF VintageStart
        <4> QED BY <4>1, <4>2
      <3>3. new[s] = b /\ n + v[i] \in Nat
        BY <2>2, <2>3, <3>1
      <3> HIDE DEF s
      <3>4. /\ DOMAIN b = Fields /\ b.end = n + v[i]
            /\ b.amount = b.end - s + 1 /\ b.records = <<>>
        <4> DEFINE e == n + v[i]
        <4> SUFFICES LET k == NewBlock(s, e, ProjectOwner) IN
                     /\ DOMAIN k = Fields /\ k.end = e
                     /\ k.amount = k.end - s + 1 /\ k.records = <<>>
          OBVIOUS
        <4> HIDE DEF e
        <4> QED BY DEF NewBlock, Fields
      <3>5. RecordsOK(<<>>)
        BY DEF RecordsOK
      <3> HIDE DEF b
      <3>6. BlockOK(s, b)
        <4>1. RecordsOK(b.records)
          BY <3>4, <3>5
        <4>2. b.end \in Nat /\ s <= b.end
          BY <3>2, <3>3, <3>4
        <4> QED BY <3>2, <3>4, <4>1, <4>2 DEF BlockOK
      <3> QED BY <3>3, <3>6 DEF s
    <2> QED BY <1>1, <2>3, <2>4
  <1>2. CASE op.kind \in OnBlock /\ Splits(op, row["block"])
    <2>1. new = ChildOf(op, row["block"])
      BY <1>2 DEF NewBlockRows, OnBlock
    <2>2. PICK child, x : new = Only(x, child) /\ BlockOK(x, child)
      BY <1>2, <2>1, ChildOK
    <2> QED BY <1>2, <2>2 DEF Only, OnBlock
  <1>3. CASE op.kind # "Issue" /\ ~(op.kind \in OnBlock /\ Splits(op, row["block"]))
    <2>1. new = <<>>
      BY <1>3 DEF NewBlockRows, OpOK, Operation, OnBlock
    <2> QED BY <1>3, <2>1
  <1> QED BY <1>1, <1>2, <1>3 DEF OnBlock

\* What an operation commits.
LEMMA CommitFacts ==
    ASSUME InOrder, NEW c \in Clients, NEW t, t = txn[c], t.pc = "merge",
           NEW new, new = NewBlockRows(t.op, t.row)
    PROVE  /\ Open(t) /\ OpOK(t.op) /\ LedgerAllows(t.op, t.row) /\ t.op.kind \in Operation
           /\ "block" \in DOMAIN t.latest =>
                /\ t.op.kind \in OnBlock /\ t.op.block \in DOMAIN blocks
                /\ BlockOK(t.op.block, t.latest["block"])
           /\ "project" \in DOMAIN t.latest => ProjectRowOK(t.latest["project"])
           /\ \A x \in DOMAIN new : BlockOK(x, new[x])
           /\ t.op.kind # "Issue" => new = <<>> \/ DOMAIN new # {}
  <1>1. /\ Open(t) /\ Merging(t) /\ OpOK(t.op) /\ LatestOK(t) /\ t.op.kind \in Operation
        /\ LedgerAllows(t.op, t.row)
        /\ t.op.kind \in OnBlock => BlockOK(t.op.block, t.row["block"])
        /\ t.op.kind = "Issue" => ProjectRowOK(t.row["project"])
    BY MergingFacts
  <1> DEFINE m == Merges(t.op, t.row)
  <1>2. /\ m \in {<<"project">>, <<"block", "project">>, <<"project", "block">>, <<"block">>}
        /\ "block" \in Named(m) <=> t.op.kind \in OnBlock
    BY <1>1, TablesMerged
  <1>3. DOMAIN t.latest \subseteq Named(m)
    <2> HIDE DEF m
    <2>1. Len(m) = 2 => m[1] \in Named(m)
      BY <1>2 DEF Named
    <2> QED BY <1>1, <2>1 DEF Merging, m
  <1> HIDE DEF m
  <1>4. "block" \in DOMAIN t.latest => t.op.kind \in OnBlock /\ t.op.block \in DOMAIN blocks
    BY <1>1, <1>2, <1>3 DEF OpOK
  <1>5. /\ \A x \in DOMAIN new : BlockOK(x, new[x])
        /\ t.op.kind # "Issue" => new = <<>> \/ DOMAIN new # {}
    BY <1>1, NewRowsOK
  <1> QED BY <1>1, <1>4, <1>5 DEF LatestOK

LEMMA CommitOrder ==
    ASSUME InOrder, NEW c \in Clients, Commit(c)
    PROVE  InOrder'
  <1> DEFINE t == txn[c]
             op == t.op
             latest == t.latest
             new == NewBlockRows(op, t.row)
             kept == IF "block" \in DOMAIN latest
                     THEN [blocks EXCEPT ![op.block] = latest["block"]] ELSE blocks
  <1>1. /\ t.pc = "merge" /\ blocks' = Insert(kept, new)
        /\ IF "project" \in DOMAIN latest THEN project' = latest["project"].totals
                                          ELSE project' = project
        /\ IF op.kind \in {"Retire", "Authorize"} THEN ReplicateAccepted(op, t.row)
                                                  ELSE Replicate(op, latest)
        /\ ReplicateActivity(op, "project" \in DOMAIN latest) /\ lastId' = lastId
    BY DEF Commit
  <1>2. txn' = [d \in Clients |->
                  IF d = c THEN Idle
                  ELSE IF "project" \in DOMAIN latest /\ Busy(d) /\ "project" \in DOMAIN txn[d].row
                  THEN [txn[d] EXCEPT !.fresh = FALSE] ELSE txn[d]]
    BY DEF Commit
  <1>3. /\ Open(t) /\ OpOK(t.op) /\ LedgerAllows(t.op, t.row) /\ t.op.kind \in Operation
        /\ "block" \in DOMAIN t.latest =>
                /\ t.op.kind \in OnBlock /\ t.op.block \in DOMAIN blocks
                /\ BlockOK(t.op.block, t.latest["block"])
        /\ "project" \in DOMAIN t.latest => ProjectRowOK(t.latest["project"])
        /\ \A x \in DOMAIN new : BlockOK(x, new[x])
        /\ t.op.kind # "Issue" => new = <<>> \/ DOMAIN new # {}
    BY <1>1, CommitFacts
  <1> HIDE DEF t, new
  <1>4. /\ DOMAIN kept = DOMAIN blocks
        /\ \A s \in DOMAIN blocks : BlockOK(s, kept[s])
    BY <1>3 DEF InOrder
  <1> HIDE DEF kept
  <1>5. /\ DOMAIN blocks' = DOMAIN blocks \cup DOMAIN new
        /\ \A s \in DOMAIN blocks' : BlockOK(s, blocks'[s])
    BY <1>1, <1>3, <1>4 DEF Insert
  <1>6. TotalsOK(project)'
    <2>1. TotalsOK(project) /\ ("project" \in DOMAIN latest => TotalsOK(latest["project"].totals))
      BY <1>3 DEF InOrder, ProjectRowOK
    <2> HIDE DEF latest
    <2> QED BY <1>1, <2>1 DEF TotalsOK
  <1>7. \A r \in DOMAIN requests' :
           "block" \in DOMAIN requests'[r] /\ requests'[r].block \in DOMAIN blocks'
    <2>1. \A r \in DOMAIN requests :
            "block" \in DOMAIN requests[r] /\ requests[r].block \in DOMAIN blocks'
      BY <1>5 DEF InOrder
    <2>2. op.kind \in OnBlock => op.block \in DOMAIN blocks'
      BY <1>3, <1>5 DEF OpOK
    <2>3. CASE op.kind \in {"Retire", "Authorize"}
      <3> DEFINE s == IF new = <<>> THEN op.block ELSE CHOOSE x \in DOMAIN new : TRUE
      <3>1. requests' = [requests EXCEPT ![op.req].status = "Completed", ![op.req].block = s]
        BY <1>1, <2>3 DEF ReplicateAccepted, new
      <3>2. s \in DOMAIN blocks'
        BY <1>3, <1>5, <2>2, <2>3 DEF OnBlock
      <3> HIDE DEF s
      <3> QED BY <2>1, <3>1, <3>2
    <2>4. CASE op.kind = "Request"
      <3> DEFINE q == [type |-> op.type, subType |-> op.subType, purpose |-> op.purpose,
                       amount |-> op.n, sender |-> latest["block"].owner,
                       block |-> op.block, status |-> "Pending"]
      <3>1. requests' = Insert(requests, Only(op.id, q))
        BY <1>1, <2>4 DEF Replicate
      <3>2. "block" \in DOMAIN q /\ q.block \in DOMAIN blocks'
        BY <2>2, <2>4 DEF OnBlock
      <3> HIDE DEF q
      <3> QED BY <2>1, <3>1, <3>2 DEF Insert, Only
    <2>5. CASE op.kind = "Decline"
      <3>1. requests' = [requests EXCEPT ![op.req].status = op.status]
        BY <1>1, <2>5 DEF Replicate
      <3> HIDE DEF op
      <3> QED BY <2>1, <3>1
    <2>6. CASE op.kind \notin {"Retire", "Authorize", "Request", "Decline"}
      <3>1. requests' = requests
        BY <1>1, <2>6 DEF Replicate
      <3> QED BY <2>1, <3>1
    <2> QED BY <2>3, <2>4, <2>5, <2>6
  <1>8. activity' = "VerificationUploaded" => report' \in VintageTotals
    <2>1. \/ activity' = activity /\ report' = report
          \/ activity' \in {"VerificationVerified", "MonitoringVerified"}
      BY <1>1 DEF ReplicateActivity
    <2> QED BY <2>1 DEF InOrder
  <1>9. DOMAIN txn' = Clients /\ lastId' \in Nat
    BY <1>1, <1>2 DEF InOrder
  <1>10. ASSUME NEW d \in Clients
         PROVE  (txn[d] = Idle \/ Open(txn[d]))'
    <2>1. CASE txn'[d] = Idle
      BY <2>1
    <2>2. CASE txn'[d] # Idle
      <3>1. txn[d] # Idle /\ (txn'[d] = txn[d] \/ txn'[d] = [txn[d] EXCEPT !.fresh = FALSE])
        BY <1>2, <2>2 DEF Busy, Idle
      <3>2. Open(txn[d])
        BY <3>1 DEF InOrder
      <3>3. DOMAIN blocks \subseteq DOMAIN blocks'
        BY <1>5
      <3> SUFFICES ASSUME NEW u, NEW v, u = txn[d], v = txn'[d]
                   PROVE  Open(txn[d])'
        OBVIOUS
      <3>4. /\ DOMAIN v = {"pc", "op", "todo", "row", "latest", "fresh"}
            /\ v.pc = u.pc /\ v.op = u.op /\ v.todo = u.todo /\ v.row = u.row
            /\ v.latest = u.latest
        BY <3>1, <3>2 DEF Open
      <3>5. Open(u)
        BY <3>2
      <3>6. Reading(u) => Reading(v)
        BY <3>4 DEF Reading
      <3>7. Merging(u) => Merging(v)
        BY <3>4 DEF Merging
      <3>8. LatestOK(u) => LatestOK(v)
        BY <3>4 DEF LatestOK
      <3>9. OpOK(u.op)'
        BY <3>3, <3>5 DEF Open, OpOK
      <3>10. Open(v)'
        BY <3>4, <3>5, <3>6, <3>7, <3>8, <3>9 DEF Open
      <3> QED BY <3>10 DEF Open, OpOK
    <2> QED BY <2>1, <2>2
  <1> QED BY <1>5, <1>6, <1>7, <1>8, <1>9, <1>10 DEF InOrder

\* Single writes touch no block, and put a report on file only from the reports
\* considered.
LEMMA DirectOrder ==
    ASSUME InOrder, NEW c \in Clients, Direct(c)
    PROVE  InOrder'
  <1>1. UNCHANGED <<blocks, project, requests, txn, lastId>>
    BY DEF Direct, UploadVerification, RejectVerification, MarkSubmitted, UpdateApproach
  <1>2. activity' = "VerificationUploaded" => report' \in VintageTotals
    BY DEF Direct, UploadVerification, RejectVerification, MarkSubmitted, UpdateApproach,
           InOrder
  <1>3. \A d \in Clients : (txn[d] = Idle \/ Open(txn[d]))'
    BY <1>1 DEF InOrder, Open, OpOK
  <1> QED BY <1>1, <1>2, <1>3 DEF InOrder, TotalsOK

LEMMA InitOrder == TInit => InOrder
  BY DEF TInit, Init, InOrder, TotalsOK

LEMMA StepOrder == InOrder /\ [TNext]_tvars => InOrder'
  <1> SUFFICES ASSUME InOrder, [TNext]_tvars PROVE InOrder'
    OBVIOUS
  <1>1. ASSUME NEW c \in Clients, Direct(c) PROVE InOrder'
    BY <1>1, DirectOrder
  <1>2. ASSUME NEW c \in Clients, NEW s \in DOMAIN blocks, BeginOnBlock(c, s)
        PROVE  InOrder'
    <2>1. PICK n \in 1 .. blocks[s].amount :
              \/ \E to \in Developers : BeginTransfer(c, s, n, to)
              \/ \E sub \in UseTypes : BeginRetireRequest(c, s, n, sub)
              \/ \E purpose \in Purposes : BeginItmoRequest(c, s, n, purpose)
      BY <1>2 DEF BeginOnBlock
    <2>2. ASSUME NEW to, BeginTransfer(c, s, n, to) PROVE InOrder'
      BY <2>2, TransferBegins
    <2>3. ASSUME NEW sub, BeginRetireRequest(c, s, n, sub) PROVE InOrder'
      BY <2>3, RequestBegins DEF BeginRetireRequest, TxKind
    <2>4. ASSUME NEW purpose, BeginItmoRequest(c, s, n, purpose) PROVE InOrder'
      BY <2>4, RequestBegins DEF BeginItmoRequest, TxKind
    <2> QED BY <2>1, <2>2, <2>3, <2>4
  <1>3. ASSUME NEW c \in Clients, NEW r \in DOMAIN requests, BeginOnRequest(c, r)
        PROVE  InOrder'
    BY <1>3, DecisionBegins DEF BeginOnRequest, BeginRetire, BeginAuthorize, BeginDecline, TxStatus
  <1>4. ASSUME NEW c \in Clients, BeginMonitoring(c) \/ BeginIssue(c) PROVE InOrder'
    BY <1>4, IssueBegins
  <1>5. ASSUME NEW c \in Clients, ReadRow(c) \/ Plan(c) \/ Refuse(c) PROVE InOrder'
    BY <1>5, ReadOrder
  <1>6. ASSUME NEW c \in Clients, MergeRow(c) PROVE InOrder'
    BY <1>6, MergeOrder
  <1>7. ASSUME NEW c \in Clients, Commit(c) PROVE InOrder'
    BY <1>7, CommitOrder
  <1>8. CASE UNCHANGED tvars
    <2>1. UNCHANGED <<blocks, project, activity, report, requests, txn, lastId>>
      BY <1>8 DEF tvars, vars
    <2>2. \A d \in Clients : (txn[d] = Idle \/ Open(txn[d]))'
      BY <2>1 DEF InOrder, Open, OpOK
    <2> QED BY <2>1, <2>2 DEF InOrder, TotalsOK
  <1>9. CASE TNext
    BY <1>1, <1>2, <1>3, <1>4, <1>5, <1>6, <1>7, <1>9 DEF TNext, Transaction
  <1> QED BY <1>8, <1>9

\* However many clients interleave, every row read, computed or committed keeps
\* to the width of its serial range.
THEOREM StaysInOrder == TSpec => []InOrder
  BY InitOrder, StepOrder, PTL DEF TSpec

\* For any number of clients and whatever they interleave, creditAmount is the
\* width of the serial range of its block: getAndUpdateTx merges single fields
\* of a stale row into the latest one, and range and amount always together.
THEOREM WidthKept == TSpec => []AmountIsWidth
  <1>1. InOrder => AmountIsWidth
    BY DEF InOrder, BlockOK, AmountIsWidth
  <1> QED BY <1>1, StaysInOrder, PTL

-----------------------------------------------------------------------------
(* Serial numbers, when every report verifies the same vintages.           *)
(*                                                                         *)
(* Issuances then start at multiples of the report's total, and their      *)
(* vintages cut the serial numbers at fixed places that no block ever      *)
(* straddles.  A stale block may be overlapped by others, but what lies    *)
(* above its end is held by blocks that start above its end: writing it    *)
(* again leaves no gap.                                                    *)

OneReport == \E t : VintageTotals = {t}

Report == CHOOSE t \in VintageTotals : TRUE

Batch == Total(Report)

Multiple(x) == \E j \in Nat : x = j * Batch

\* The last serial number of a vintage.
Boundary(d) == \E x : Multiple(x) /\ (d = x \/ \E l \in DOMAIN Report : d = x + Report[l])

Reached(table, i) == \E t \in DOMAIN table : i <= table[t].end

\* A block that starts above e holds i.
Covered(table, e, i) ==
    \E t \in DOMAIN table : e < t /\ t <= i /\ i <= table[t].end

\* The range s .. e lies within one vintage.
Whole(s, e) == \A d \in Nat : Boundary(d) /\ s <= d => e <= d

\* The block at s may be written with its end at e.
Version(table, s, e) ==
    /\ Whole(s, e)
    /\ \E d \in Nat : Boundary(d) /\ e <= d /\ Reached(table, d)
    /\ \A i \in Nat : e < i /\ Reached(table, i) => Covered(table, e, i)

Versions(table) ==
    \A s \in DOMAIN table :
        /\ s \in Nat \ {0} /\ table[s].end \in Nat /\ s <= table[s].end
        /\ table[s].end <= CreditEst
        /\ Version(table, s, table[s].end)

Gapless(table) == \A i \in Nat \ {0} : Reached(table, i) => Covered(table, 0, i)

\* What a step that writes blocks must not undo.
Evolves(old, new) ==
    /\ \A i \in Nat \ {0} : Reached(old, i) => Reached(new, i)
    /\ \A s, e \in Nat \ {0} : Version(old, s, e) => Version(new, s, e)

LEMMA ReportFacts ==
    ASSUME OneReport
    PROVE  /\ Report \in VintageTotals /\ IsVintageTotals(Report)
           /\ \A t \in VintageTotals : t = Report
           /\ DOMAIN Report = 1 .. Len(Report) /\ Len(Report) \in Nat \ {0}
           /\ \A l \in DOMAIN Report : Report[l] \in Nat \ {0} /\ Report[l] <= Batch
           /\ Batch \in Nat \ {0} /\ Batch = Report[Len(Report)]
           /\ \A k, l \in DOMAIN Report : k < l => Report[k] < Report[l]
  <1>1. Report \in VintageTotals /\ \A t \in VintageTotals : t = Report
    BY DEF OneReport, Report
  <1>2. IsVintageTotals(Report)
    BY <1>1, LedgerAssumption
  <1>3. /\ DOMAIN Report = 1 .. Len(Report) /\ Len(Report) \in Nat \ {0}
        /\ \A l \in DOMAIN Report : Report[l] \in Nat \ {0}
        /\ \A k, l \in DOMAIN Report : k < l => Report[k] < Report[l]
    BY <1>2 DEF IsVintageTotals
  <1>4. Batch = Report[Len(Report)] /\ Len(Report) \in DOMAIN Report
    BY <1>3 DEF Batch, Total
  <1>5. \A l \in DOMAIN Report : Report[l] <= Batch
    <2>1. TAKE l \in DOMAIN Report
    <2>2. l = Len(Report) \/ l < Len(Report)
      BY <1>3
    <2> QED BY <1>3, <1>4, <2>2
  <1> QED BY <1>1, <1>2, <1>3, <1>4, <1>5

LEMMA MultipleFacts ==
    ASSUME OneReport
    PROVE  /\ Multiple(0)
           /\ \A x : Multiple(x) => x \in Nat /\ Multiple(x + Batch)
           /\ \A x, y : Multiple(x) /\ Multiple(y) /\ x < y => x + Batch <= y
  <1>1. Batch \in Nat \ {0}
    BY ReportFacts
  <1>2. Multiple(0)
    <2>1. 0 = 0 * Batch
      BY <1>1
    <2> QED BY <2>1 DEF Multiple
  <1>3. ASSUME NEW x, Multiple(x) PROVE x \in Nat /\ Multiple(x + Batch)
    <2>1. PICK j \in Nat : x = j * Batch
      BY <1>3 DEF Multiple
    <2>2. x \in Nat /\ x + Batch = (j + 1) * Batch
      BY <1>1, <2>1
    <2> QED BY <2>2 DEF Multiple
  <1>4. ASSUME NEW x, NEW y, Multiple(x), Multiple(y), x < y
        PROVE  x + Batch <= y
    <2>1. PICK j \in Nat : x = j * Batch
      BY <1>4 DEF Multiple
    <2>2. PICK k \in Nat : y = k * Batch
      BY <1>4 DEF Multiple
    <2>3. j < k
      <3>1. SUFFICES ASSUME k <= j PROVE FALSE
        OBVIOUS
      <3>2. PICK n \in Nat : j = k + n
        <4>1. j - k \in Nat /\ j = k + (j - k)
          BY <3>1
        <4> QED BY <4>1
      <3>3. x = y + n * Batch /\ n * Batch \in Nat /\ y \in Nat
        BY <1>1, <2>1, <2>2, <3>2
      <3> QED BY <1>4, <3>3
    <2>4. PICK n \in Nat : k = j + 1 + n
      <3>1. k - (j + 1) \in Nat /\ k = j + 1 + (k - (j + 1))
        BY <2>3
      <3> QED BY <3>1
    <2>5. y = x + Batch + n * Batch /\ n * Batch \in Nat /\ x \in Nat
      BY <1>1, <2>1, <2>2, <2>4
    <2> QED BY <1>1, <2>5
  <1> QED BY <1>2, <1>3, <1>4

\* The cells into which the vintages cut the serial numbers.
LEMMA Cell ==
    ASSUME OneReport, NEW x, Multiple(x), NEW l \in DOMAIN Report,
           NEW s, s = VintageStart(Report, x, l), NEW e, e = x + Report[l]
    PROVE  /\ s \in Nat \ {0} /\ e \in Nat \ {0} /\ s <= e
           /\ x < s /\ e <= x + Batch /\ Boundary(e) /\ Whole(s, e)
  <1>1. /\ x \in Nat /\ Batch \in Nat \ {0} /\ DOMAIN Report = 1 .. Len(Report)
        /\ \A k \in DOMAIN Report : Report[k] \in Nat \ {0} /\ Report[k] <= Batch
        /\ \A k, m \in DOMAIN Report : k < m => Report[k] < Report[m]
        /\ Len(Report) \in Nat
    BY MultipleFacts, ReportFacts
  <1> DEFINE prev == IF l = 1 THEN 0 ELSE Report[l - 1]
  <1>2. s = x + 1 + prev
    BY DEF VintageStart
  <1>3. prev \in Nat /\ prev < Report[l]
    <2>1. CASE l = 1
      BY <1>1, <2>1
    <2>2. CASE l # 1
      <3>1. l - 1 \in DOMAIN Report /\ l - 1 < l
        BY <1>1, <2>2
      <3> QED BY <1>1, <2>2, <3>1
    <2> QED BY <2>1, <2>2
  <1>4. \A k \in DOMAIN Report : Report[k] < Report[l] => Report[k] <= prev
    <2>1. SUFFICES ASSUME NEW k \in DOMAIN Report, Report[k] < Report[l]
                   PROVE  Report[k] <= prev
      OBVIOUS
    <2>2. k < l
      <3>1. k \in Nat /\ l \in Nat /\ Report[k] \in Nat /\ Report[l] \in Nat
        BY <1>1
      <3>2. l < k => Report[l] < Report[k]
        BY <1>1
      <3> QED BY <2>1, <3>1, <3>2
    <2>3. l # 1 /\ l - 1 \in DOMAIN Report
      BY <1>1, <2>2
    <2>4. k = l - 1 \/ k < l - 1
      BY <1>1, <2>2
    <2> QED BY <1>1, <2>3, <2>4
  <1> HIDE DEF prev
  <1>5. Boundary(e)
    BY DEF Boundary
  <1>6. Whole(s, e)
    <2>1. SUFFICES ASSUME NEW d \in Nat, NEW y, Multiple(y), s <= d, d < e,
                          d = y \/ \E k \in DOMAIN Report : d = y + Report[k]
                   PROVE  FALSE
      BY <1>1 DEF Whole, Boundary
    <2>2. /\ y \in Nat
          /\ y < x => y + Batch <= x
          /\ x < y => x + Batch <= y
      BY <2>1, MultipleFacts
    <2>3. Report[l] \in Nat /\ Report[l] <= Batch
      BY <1>1
    <2>4. y <= x
      <3>1. d >= y
        BY <1>1, <2>1, <2>2
      <3> QED BY <1>1, <2>1, <2>2, <2>3, <3>1
    <2>5. x <= y
      <3>1. y <= d /\ d <= y + Batch
        BY <1>1, <2>1, <2>2
      <3> QED BY <1>1, <1>2, <1>3, <2>1, <2>2, <3>1
    <2>6. x = y
      BY <1>1, <2>2, <2>4, <2>5
    <2>7. PICK k \in DOMAIN Report : d = x + Report[k]
      BY <1>1, <1>2, <1>3, <2>1, <2>6
    <2>8. Report[k] \in Nat /\ Report[k] < Report[l]
      BY <1>1, <2>1, <2>3, <2>7
    <2>9. Report[k] <= prev
      BY <1>4, <2>8
    <2> QED BY <1>1, <1>2, <1>3, <2>1, <2>7, <2>8, <2>9
  <1>7. Report[l] \in Nat \ {0} /\ Report[l] <= Batch
    BY <1>1
  <1> QED BY <1>1, <1>2, <1>3, <1>5, <1>6, <1>7

LEMMA CellsCover ==
    ASSUME OneReport, NEW x, Multiple(x), NEW i \in Nat, x < i, i <= x + Batch
    PROVE  \E l \in DOMAIN Report :
              VintageStart(Report, x, l) <= i /\ i <= x + Report[l]
  <1>1. /\ x \in Nat /\ Batch \in Nat /\ IsVintageTotals(Report)
        /\ \A k \in DOMAIN Report : Report[k] \in Nat /\ DOMAIN Report = 1 .. Len(Report)
        /\ Len(Report) \in Nat
    BY MultipleFacts, ReportFacts
  <1>2. i - x \in 1 .. Total(Report)
    BY <1>1 DEF Batch
  <1>3. PICK l \in DOMAIN Report :
            i - x <= Report[l] /\ (IF l = 1 THEN 0 ELSE Report[l - 1]) < i - x
    BY <1>1, <1>2, VintagesCover
  <1> DEFINE prev == IF l = 1 THEN 0 ELSE Report[l - 1]
  <1>4. prev \in Nat /\ prev < i - x
    <2>1. CASE l = 1
      BY <1>3, <2>1
    <2>2. CASE l # 1
      <3>1. l - 1 \in DOMAIN Report
        BY <1>1, <2>2
      <3> QED BY <1>1, <1>3, <2>2, <3>1
    <2> QED BY <2>1, <2>2
  <1>5. VintageStart(Report, x, l) = x + 1 + prev
    BY DEF VintageStart
  <1> HIDE DEF prev
  <1>6. VintageStart(Report, x, l) <= i /\ i <= x + Report[l]
    BY <1>1, <1>3, <1>4, <1>5
  <1> QED BY <1>6

\* Block s is written again, from a version that ended at b, and gives up what
\* lies above cut to a block of its own.
LEMMA BlockRewrite ==
    ASSUME NEW old, Versions(old), Gapless(old), NEW s \in DOMAIN old,
           NEW b \in Nat, NEW cut \in Nat, s <= cut, cut <= b, Version(old, s, b),
           NEW new,
           DOMAIN old \subseteq DOMAIN new,
           \A t \in DOMAIN new : t \in DOMAIN old \/ (cut < b /\ t = cut + 1),
           \A t \in DOMAIN old : t = s \/ (cut < b /\ t = cut + 1) \/ new[t].end = old[t].end,
           cut < b => cut + 1 \in DOMAIN new /\ new[cut + 1].end = b,
           new[s].end = cut \/ new[s].end = old[s].end
    PROVE  Versions(new) /\ Gapless(new) /\ Evolves(old, new)
  <1>1. s \in Nat \ {0} /\ \A t \in DOMAIN old : t \in Nat \ {0} /\ old[t].end \in Nat
    BY DEF Versions
  <1>2. PICK d \in Nat : Boundary(d) /\ b <= d /\ Reached(old, d)
    BY DEF Version
  <1>3. ASSUME NEW i \in Nat, b < i, Reached(old, i)
        PROVE  Covered(new, b, i)
    <2>1. PICK t \in DOMAIN old : b < t /\ t <= i /\ i <= old[t].end
      BY <1>3 DEF Version, Covered
    <2>2. t # s /\ ~(cut < b /\ t = cut + 1)
      BY <1>1, <2>1
    <2>3. new[t].end = old[t].end /\ t \in DOMAIN new
      BY <2>2
    <2> QED BY <2>1, <2>3 DEF Covered
  <1>4. ASSUME NEW i \in Nat, cut < i, Reached(old, i)
        PROVE  Covered(new, cut, i)
    <2>1. CASE i <= b
      <3>1. cut < b /\ cut + 1 <= i /\ cut < cut + 1
        BY <1>4, <2>1
      <3>2. cut + 1 \in DOMAIN new /\ new[cut + 1].end = b
        BY <3>1
      <3> QED BY <2>1, <3>1, <3>2 DEF Covered
    <2>2. CASE b < i
      <3>1. PICK t \in DOMAIN new : b < t /\ t <= i /\ i <= new[t].end
        BY <1>3, <1>4, <2>2 DEF Covered
      <3>2. t \in Nat
        BY <1>1
      <3>3. cut < t
        BY <3>1, <3>2
      <3> QED BY <3>1, <3>3 DEF Covered
    <2> QED BY <2>1, <2>2
  <1>5. ASSUME NEW e \in Nat, NEW i \in Nat, Covered(old, e, i)
        PROVE  Covered(new, e, i)
    <2>1. PICK t \in DOMAIN old : e < t /\ t <= i /\ i <= old[t].end
      BY <1>5 DEF Covered
    <2>2. t \in DOMAIN new /\ t \in Nat /\ Reached(old, i)
      BY <1>1, <2>1 DEF Reached
    <2>3. CASE i <= new[t].end
      BY <2>1, <2>2, <2>3 DEF Covered
    <2>4. CASE ~(i <= new[t].end) /\ cut < b /\ t = cut + 1
      <3>1. b < i /\ e < b
        BY <2>1, <2>4
      <3>2. PICK u \in DOMAIN new : b < u /\ u <= i /\ i <= new[u].end
        BY <1>3, <2>2, <3>1 DEF Covered
      <3>3. u \in Nat
        BY <1>1
      <3>4. e < u
        BY <3>1, <3>2, <3>3
      <3> QED BY <3>2, <3>4 DEF Covered
    <2>5. CASE ~(i <= new[t].end) /\ ~(cut < b /\ t = cut + 1)
      <3>1. t = s /\ new[s].end = cut
        BY <2>1, <2>5
      <3>2. cut < i /\ e < cut
        BY <2>1, <2>2, <2>5, <3>1
      <3>3. PICK u \in DOMAIN new : cut < u /\ u <= i /\ i <= new[u].end
        BY <1>4, <2>2, <3>2 DEF Covered
      <3>4. u \in Nat
        BY <1>1
      <3>5. e < u
        BY <3>2, <3>3, <3>4
      <3> QED BY <3>3, <3>5 DEF Covered
    <2> QED BY <2>3, <2>4, <2>5
  <1>6. \A i \in Nat \ {0} : Reached(old, i) => Reached(new, i)
    <2>1. TAKE i \in Nat \ {0}
    <2>2. Reached(old, i) => Covered(new, 0, i)
      BY <1>5 DEF Gapless
    <2> QED BY <2>2 DEF Covered, Reached
  <1>7. ASSUME NEW i \in Nat, Reached(new, i)
        PROVE  Reached(old, i)
    <2>1. PICK t \in DOMAIN new : i <= new[t].end
      BY <1>7 DEF Reached
    <2>2. CASE t \in DOMAIN old /\ new[t].end = old[t].end
      BY <2>1, <2>2 DEF Reached
    <2>3. CASE ~(t \in DOMAIN old /\ new[t].end = old[t].end)
      <3>1. new[t].end = cut \/ new[t].end = b
        BY <2>3
      <3>2. i <= d
        BY <1>2, <2>1, <3>1
      <3>3. PICK u \in DOMAIN old : d <= old[u].end
        BY <1>2 DEF Reached
      <3>4. i <= old[u].end
        BY <1>1, <3>2, <3>3
      <3> QED BY <3>4 DEF Reached
    <2> QED BY <2>2, <2>3
  <1>8. ASSUME NEW p \in Nat \ {0}, NEW e \in Nat \ {0}, Version(old, p, e)
        PROVE  Version(new, p, e)
    <2>1. PICK f \in Nat : Boundary(f) /\ e <= f /\ Reached(old, f)
      BY <1>8 DEF Version
    <2>2. Reached(new, f)
      BY <1>6, <2>1
    <2>3. \A i \in Nat : e < i /\ Reached(new, i) => Covered(new, e, i)
      BY <1>5, <1>7, <1>8 DEF Version
    <2> QED BY <1>8, <2>1, <2>2, <2>3 DEF Version
  <1>9. Gapless(new)
    BY <1>5, <1>7 DEF Gapless
  <1>10. Reached(new, d) /\ d \in Nat \ {0}
    <2>1. d # 0
      BY <1>1, <1>2
    <2> QED BY <1>2, <1>6, <2>1
  <1>11. cut <= CreditEst /\ b <= CreditEst
    <2>1. PICK u \in DOMAIN old : d <= old[u].end
      BY <1>2 DEF Reached
    <2>2. old[u].end \in Nat /\ old[u].end <= CreditEst
      BY DEF Versions
    <2> QED BY <1>2, <2>1, <2>2, LedgerAssumption
  <1>12. Version(new, s, cut)
    <2>1. Whole(s, cut)
      <3>1. SUFFICES ASSUME NEW f \in Nat, Boundary(f), s <= f PROVE cut <= f
        BY DEF Whole
      <3>2. b <= f
        BY <3>1 DEF Version, Whole
      <3> QED BY <3>2
    <2>2. cut <= d
      BY <1>2
    <2> QED BY <1>2, <1>4, <1>7, <1>10, <2>1, <2>2 DEF Version
  <1>13. cut < b => Version(new, cut + 1, b)
    <2>1. SUFFICES ASSUME cut < b PROVE Version(new, cut + 1, b)
      OBVIOUS
    <2>2. Whole(cut + 1, b)
      <3>1. SUFFICES ASSUME NEW f \in Nat, Boundary(f), cut + 1 <= f PROVE b <= f
        BY DEF Whole
      <3>2. s <= f
        BY <1>1, <3>1
      <3> QED BY <3>1, <3>2 DEF Version, Whole
    <2> QED BY <1>2, <1>3, <1>7, <1>10, <2>2 DEF Version
  <1>14. Versions(new)
    <2>1. SUFFICES ASSUME NEW t \in DOMAIN new
                   PROVE  /\ t \in Nat \ {0} /\ new[t].end \in Nat /\ t <= new[t].end
                          /\ new[t].end <= CreditEst /\ Version(new, t, new[t].end)
      BY DEF Versions
    <2>2. CASE t \in DOMAIN old /\ new[t].end = old[t].end
      <3>1. /\ t \in Nat \ {0} /\ old[t].end \in Nat /\ t <= old[t].end
            /\ old[t].end <= CreditEst /\ Version(old, t, old[t].end)
        BY <2>2 DEF Versions
      <3>2. old[t].end \in Nat \ {0}
        BY <3>1
      <3> QED BY <1>8, <2>2, <3>1, <3>2
    <2>3. CASE t = s /\ new[t].end = cut
      BY <1>1, <1>11, <1>12, <2>3
    <2>4. CASE cut < b /\ t = cut + 1
      BY <1>11, <1>13, <2>4
    <2> QED BY <2>2, <2>3, <2>4
  <1> QED BY <1>6, <1>8, <1>9, <1>14 DEF Evolves

\* An issuance writes the vintages that start after x, for the first time or
\* again.
LEMMA IssueRewrite ==
    ASSUME OneReport, NEW old, Versions(old), Gapless(old),
           NEW x, Multiple(x), x + Batch <= CreditEst, x = 0 \/ Reached(old, x),
           NEW new, new = Insert(old, NewBlocks(Report, x, ProjectOwner))
    PROVE  Versions(new) /\ Gapless(new) /\ Evolves(old, new) /\ Reached(new, x + Batch)
  <1> DEFINE S(l) == VintageStart(Report, x, l)
             E(l) == x + Report[l]
             L == DOMAIN Report
  <1>1. /\ x \in Nat /\ Batch \in Nat \ {0} /\ CreditEst \in Nat /\ IsVintageTotals(Report)
        /\ Len(Report) \in L /\ E(Len(Report)) = x + Batch
    BY MultipleFacts, ReportFacts, LedgerAssumption
  <1>2. \A l \in L : /\ S(l) \in Nat \ {0} /\ E(l) \in Nat \ {0} /\ S(l) <= E(l)
                     /\ x < S(l) /\ E(l) <= x + Batch /\ Boundary(E(l)) /\ Whole(S(l), E(l))
    BY Cell
  <1>3. \A i \in Nat : x < i /\ i <= x + Batch => \E l \in L : S(l) <= i /\ i <= E(l)
    BY CellsCover
  <1>4. /\ DOMAIN new = DOMAIN old \cup {S(l) : l \in L}
        /\ \A l \in L : new[S(l)].end = E(l)
        /\ \A t \in DOMAIN old : t \in {S(l) : l \in L} \/ new[t] = old[t]
    <2> DEFINE rows == NewBlocks(Report, x, ProjectOwner)
    <2>1. /\ DOMAIN rows = {S(l) : l \in L}
          /\ \A l \in L : rows[S(l)] = NewBlock(S(l), E(l), ProjectOwner)
      <3>1. LET w == NewBlocks(Report, x, ProjectOwner) IN
            /\ DOMAIN w = {VintageStart(Report, x, i) : i \in DOMAIN Report}
            /\ \A i \in DOMAIN Report : w[VintageStart(Report, x, i)]
                = NewBlock(VintageStart(Report, x, i), x + Report[i], ProjectOwner)
        <4>1. IsVintageTotals(Report) /\ x \in Nat
          BY <1>1
        <4> QED BY <4>1, NewBlocksAre
      <3> QED BY <3>1
    <2>2. \A l \in L : rows[S(l)].end = E(l)
      <3>1. \A s, e, o : NewBlock(s, e, o).end = e
        BY DEF NewBlock
      <3> HIDE DEF rows, S, E, L
      <3> QED BY <2>1, <3>1
    <2> HIDE DEF rows, S, E, L
    <2>3. new = Insert(old, rows)
      BY DEF rows
    <2> QED BY <2>1, <2>2, <2>3 DEF Insert
  <1> HIDE DEF S, E, L
  <1>5. \A t \in DOMAIN old : /\ t \in Nat \ {0} /\ old[t].end \in Nat /\ t <= old[t].end
                              /\ old[t].end <= CreditEst /\ Version(old, t, old[t].end)
    BY DEF Versions
  <1>6. ASSUME NEW e \in Nat, NEW i \in Nat, Covered(old, e, i)
        PROVE  Covered(new, e, i)
    <2>1. PICK t \in DOMAIN old : e < t /\ t <= i /\ i <= old[t].end
      BY <1>6 DEF Covered
    <2>2. i <= new[t].end
      <3>1. CASE new[t] = old[t]
        BY <2>1, <3>1
      <3>2. ASSUME NEW l \in L, t = S(l) PROVE i <= new[t].end
        <4>1. Whole(t, old[t].end) /\ Boundary(E(l)) /\ E(l) \in Nat /\ t <= E(l)
          BY <1>2, <1>5, <3>2 DEF Version
        <4>2. old[t].end <= E(l) /\ new[t].end = E(l)
          BY <1>4, <3>2, <4>1 DEF Whole
        <4> QED BY <1>5, <2>1, <4>1, <4>2
      <3> QED BY <1>4, <3>1, <3>2
    <2> QED BY <1>4, <2>1, <2>2 DEF Covered
  <1>7. \A i \in Nat \ {0} : Reached(old, i) => Reached(new, i)
    <2>1. TAKE i \in Nat \ {0}
    <2>2. Reached(old, i) => Covered(new, 0, i)
      BY <1>6 DEF Gapless
    <2> QED BY <2>2 DEF Covered, Reached
  <1>8. ASSUME NEW i \in Nat \ {0}, Reached(new, i), ~Reached(old, i)
        PROVE  \E l \in L : S(l) <= i /\ i <= E(l)
    <2>1. PICK t \in DOMAIN new : i <= new[t].end
      BY <1>8 DEF Reached
    <2>2. PICK l \in L : t = S(l)
      BY <1>4, <1>8, <2>1 DEF Reached
    <2>3. i <= x + Batch
      BY <1>1, <1>2, <1>4, <2>1, <2>2
    <2>4. x < i
      <3>1. CASE x = 0
        BY <3>1
      <3>2. CASE Reached(old, x)
        <4>1. PICK u \in DOMAIN old : x <= old[u].end
          BY <3>2 DEF Reached
        <4>2. ~(i <= old[u].end)
          BY <1>8 DEF Reached
        <4> QED BY <1>1, <1>5, <4>1, <4>2
      <3> QED BY <3>1, <3>2
    <2> QED BY <1>3, <2>3, <2>4
  <1>9. ASSUME NEW p \in Nat \ {0}, NEW e \in Nat \ {0}, Version(old, p, e)
        PROVE  Version(new, p, e)
    <2>1. PICK d \in Nat : Boundary(d) /\ e <= d /\ Reached(old, d)
      BY <1>9 DEF Version
    <2>2. Reached(new, d)
      BY <1>7, <2>1
    <2>3. ASSUME NEW i \in Nat, e < i, Reached(new, i)
          PROVE  Covered(new, e, i)
      <3>1. CASE Reached(old, i)
        BY <1>6, <1>9, <2>3, <3>1 DEF Version
      <3>2. CASE ~Reached(old, i)
        <4>1. PICK l \in L : S(l) <= i /\ i <= E(l)
          BY <1>8, <2>3, <3>2
        <4>2. CASE e < S(l)
          BY <1>4, <4>1, <4>2 DEF Covered
        <4>3. CASE S(l) <= e
          <5>1. S(l) <= d
            BY <1>2, <2>1, <4>3
          <5>2. E(l) <= d
            BY <1>2, <2>1, <5>1 DEF Whole
          <5>3. PICK u \in DOMAIN old : d <= old[u].end
            BY <2>1 DEF Reached
          <5>4. i <= old[u].end
            BY <1>2, <1>5, <4>1, <5>2, <5>3
          <5> QED BY <3>2, <5>4 DEF Reached
        <4> QED BY <1>2, <4>2, <4>3
      <3> QED BY <3>1, <3>2
    <2> QED BY <1>9, <2>1, <2>2, <2>3 DEF Version
  <1>10. Gapless(new)
    <2>1. SUFFICES ASSUME NEW i \in Nat \ {0}, Reached(new, i) PROVE Covered(new, 0, i)
      BY DEF Gapless
    <2>2. CASE Reached(old, i)
      BY <1>6, <2>2 DEF Gapless
    <2>3. CASE ~Reached(old, i)
      <3>1. PICK l \in L : S(l) <= i /\ i <= E(l)
        BY <1>8, <2>1, <2>3
      <3>2. S(l) \in DOMAIN new /\ 0 < S(l) /\ new[S(l)].end = E(l)
        BY <1>2, <1>4
      <3> QED BY <3>1, <3>2 DEF Covered
    <2> QED BY <2>2, <2>3
  <1>11. \A t \in DOMAIN new : t \in Nat \ {0} /\ new[t].end \in Nat /\ Whole(t, new[t].end)
    <2>1. TAKE t \in DOMAIN new
    <2>2. CASE t \in DOMAIN old /\ new[t] = old[t]
      BY <1>5, <2>2 DEF Version
    <2>3. ASSUME NEW l \in L, t = S(l)
          PROVE  t \in Nat \ {0} /\ new[t].end \in Nat /\ Whole(t, new[t].end)
      BY <1>2, <1>4, <2>3
    <2> QED BY <1>4, <2>2, <2>3
  <1>12. ASSUME NEW l \in L PROVE Version(new, S(l), E(l))
    <2>1. Reached(new, E(l))
      <3>1. S(l) \in DOMAIN new /\ E(l) <= new[S(l)].end
        BY <1>2, <1>4
      <3> QED BY <3>1 DEF Reached
    <2>2. ASSUME NEW i \in Nat, E(l) < i, Reached(new, i)
          PROVE  Covered(new, E(l), i)
      <3>1. i \in Nat \ {0}
        BY <1>2, <2>2
      <3>2. PICK u \in DOMAIN new : u <= i /\ i <= new[u].end
        BY <1>10, <2>2, <3>1 DEF Gapless, Covered
      <3>3. u <= E(l) => new[u].end <= E(l)
        BY <1>2, <1>11 DEF Whole
      <3>4. E(l) < u
        BY <1>2, <1>11, <2>2, <3>2, <3>3
      <3> QED BY <3>2, <3>4 DEF Covered
    <2>3. E(l) \in Nat /\ E(l) <= E(l) /\ Boundary(E(l)) /\ Whole(S(l), E(l))
      BY <1>2
    <2> QED BY <2>1, <2>2, <2>3 DEF Version
  <1>13. Versions(new)
    <2>1. SUFFICES ASSUME NEW t \in DOMAIN new
                   PROVE  /\ t \in Nat \ {0} /\ new[t].end \in Nat /\ t <= new[t].end
                          /\ new[t].end <= CreditEst /\ Version(new, t, new[t].end)
      BY DEF Versions
    <2>2. CASE t \in DOMAIN old /\ new[t] = old[t]
      <3>1. old[t].end \in Nat \ {0}
        BY <1>5, <2>2
      <3> QED BY <1>5, <1>9, <2>2, <3>1
    <2>3. ASSUME NEW l \in L, t = S(l)
          PROVE  /\ t \in Nat \ {0} /\ new[t].end \in Nat /\ t <= new[t].end
                 /\ new[t].end <= CreditEst /\ Version(new, t, new[t].end)
      <3>1. new[t].end = E(l) /\ E(l) <= CreditEst
        BY <1>1, <1>2, <1>4, <2>3
      <3> QED BY <1>2, <1>12, <2>3, <3>1
    <2> QED BY <1>4, <2>2, <2>3
  <1>14. Reached(new, x + Batch)
    <2> DEFINE last == Len(Report)
    <2>1. S(last) \in DOMAIN new /\ new[S(last)].end = x + Batch
      BY <1>1, <1>4
    <2>2. x + Batch <= x + Batch
      BY <1>1
    <2> QED BY <2>1, <2>2 DEF Reached
  <1> QED BY <1>7, <1>9, <1>10, <1>13, <1>14 DEF Evolves

\* A number of issued credits, as a project row may hold it.
IssuedOK(table, x) == Multiple(x) /\ (x = 0 \/ Reached(table, x))

\* What an operation under way may still write.  The total of an issuance is
\* reached only when it commits; the end of a split follows from the row read.
Sound(table, t) ==
    /\ t.op.kind = "Issue" => Total(t.op.totals) <= CreditEst
    /\ "block" \in DOMAIN t.row => Version(table, t.op.block, t.row["block"].end)
    /\ "project" \in DOMAIN t.row => IssuedOK(table, t.row["project"].totals.issued)
    /\ "block" \in DOMAIN t.latest /\ ~Splits(t.op, t.row["block"]) =>
         Version(table, t.op.block, t.latest["block"].end)
    /\ "project" \in DOMAIN t.latest =>
         /\ t.op.kind # "Issue" => IssuedOK(table, t.latest["project"].totals.issued)
         /\ t.op.kind = "Issue" => t.latest["project"].totals.issued
                                    = t.row["project"].totals.issued + Total(t.op.totals)

NoneLost ==
    /\ Versions(blocks) /\ Gapless(blocks)
    /\ IssuedOK(blocks, project.issued)
    /\ activity = "VerificationUploaded" => Total(report) <= CreditEst
    /\ \A c \in Clients : txn[c] = Idle \/ Sound(blocks, txn[c])

\* A step that writes no block and moves one operation on.
LEMMA SoundMoves ==
    ASSUME InOrder, NoneLost, NEW c \in Clients, NEW t, t = Idle \/ Sound(blocks, t),
           txn' = [txn EXCEPT ![c] = t], UNCHANGED <<blocks, project, activity, report>>
    PROVE  NoneLost'
  <1>1. DOMAIN txn' = Clients /\ txn'[c] = t /\ \A d \in Clients : d # c => txn'[d] = txn[d]
    BY DEF InOrder
  <1>2. \A d \in Clients : txn'[d] = Idle \/ Sound(blocks, txn'[d])
    BY <1>1 DEF NoneLost
  <1>3. \A d \in Clients : txn'[d] = Idle \/ Sound(blocks', txn'[d])
    BY <1>2
  <1> QED BY <1>3 DEF NoneLost

LEMMA BeginSound ==
    ASSUME InOrder, NoneLost, NEW c \in Clients, NEW op, Begin(c, op),
           op.kind = "Issue" => Total(op.totals) <= CreditEst
    PROVE  NoneLost'
  <1> DEFINE t == [pc |-> "read", op |-> op, todo |-> Reads(op),
                   row |-> <<>>, latest |-> <<>>, fresh |-> TRUE]
  <1>1. txn' = [txn EXCEPT ![c] = t] /\ UNCHANGED vars
    BY DEF Begin
  <1>2. t.op = op /\ DOMAIN t.row = {} /\ DOMAIN t.latest = {}
    OBVIOUS
  <1> HIDE DEF t
  <1>3. Sound(blocks, t)
    BY <1>2 DEF Sound
  <1> QED BY <1>1, <1>3, SoundMoves DEF vars

LEMMA BlockBeginSound ==
    ASSUME InOrder, NoneLost, NEW c \in Clients, NEW s \in DOMAIN blocks, BeginOnBlock(c, s)
    PROVE  NoneLost'
  <1>1. PICK n \in 1 .. blocks[s].amount :
              \/ \E to \in Developers : BeginTransfer(c, s, n, to)
              \/ \E sub \in UseTypes : BeginRetireRequest(c, s, n, sub)
              \/ \E purpose \in Purposes : BeginItmoRequest(c, s, n, purpose)
    BY DEF BeginOnBlock
  <1>2. ASSUME NEW to, BeginTransfer(c, s, n, to) PROVE NoneLost'
    <2> DEFINE op == [kind |-> "Transfer", block |-> s, n |-> n,
                      from |-> blocks[s].owner, to |-> to]
    <2>1. Begin(c, op) /\ op.kind # "Issue"
      BY <1>2 DEF BeginTransfer
    <2> HIDE DEF op
    <2> QED BY <2>1, BeginSound
  <1>3. ASSUME NEW type, NEW sub, NEW purpose, BeginRequest(c, s, n, type, sub, purpose)
        PROVE  NoneLost'
    <2> DEFINE op == [kind |-> "Request", block |-> s, n |-> n, from |-> blocks[s].owner,
                      type |-> type, subType |-> sub, purpose |-> purpose, id |-> lastId + 1]
    <2>1. Begin(c, op) /\ op.kind # "Issue"
      BY <1>3 DEF BeginRequest
    <2> HIDE DEF op
    <2> QED BY <2>1, BeginSound
  <1> QED BY <1>1, <1>2, <1>3 DEF BeginRetireRequest, BeginItmoRequest

LEMMA RequestBeginSound ==
    ASSUME InOrder, NoneLost, NEW c \in Clients, NEW r \in DOMAIN requests,
           BeginOnRequest(c, r)
    PROVE  NoneLost'
  <1>1. PICK kind, status :
          kind \in {"Retire", "Authorize", "Decline"} /\ BeginDecision(c, r, kind, status)
    BY DEF BeginOnRequest, BeginRetire, BeginAuthorize, BeginDecline
  <1> DEFINE op == [kind |-> kind, req |-> r, block |-> requests[r].block, status |-> status,
                    account |-> MapSubTypeToAccountType(requests[r].subType)]
  <1>2. Begin(c, op) /\ op.kind # "Issue"
    BY <1>1 DEF BeginDecision
  <1> HIDE DEF op
  <1> QED BY <1>2, BeginSound

LEMMA IssueBeginSound ==
    ASSUME InOrder, NoneLost, NEW c \in Clients, BeginMonitoring(c) \/ BeginIssue(c)
    PROVE  NoneLost'
  <1>1. CASE BeginMonitoring(c)
    <2> DEFINE op == [kind |-> "Monitoring", act |-> current + 1]
    <2>1. Begin(c, op) /\ op.kind # "Issue"
      BY <1>1 DEF BeginMonitoring
    <2> HIDE DEF op
    <2> QED BY <2>1, BeginSound
  <1>2. CASE BeginIssue(c)
    <2> DEFINE op == [kind |-> "Issue", act |-> current, totals |-> report]
    <2>1. Begin(c, op) /\ Total(report) <= CreditEst
      BY <1>2 DEF BeginIssue, NoneLost
    <2>2. Total(op.totals) <= CreditEst
      BY <2>1
    <2> HIDE DEF op
    <2> QED BY <2>1, <2>2, BeginSound
  <1> QED BY <1>1, <1>2

\* The rows read are those of the tables when they are read.
LEMMA AcceptedSound ==
    ASSUME InOrder, NoneLost, NEW c \in Clients, txn[c].pc = "read",
           NEW a, a = Accepted(c)
    PROVE  Sound(blocks, a)
  <1> DEFINE t == txn[c]
             table == Head(t.todo)
             row == Insert(t.row, Only(table, Row(t.op, table)))
  <1>1. /\ Open(t) /\ Reading(t) /\ DOMAIN t.latest = {} /\ OpOK(t.op)
        /\ RowOK(t.op, t.row) /\ Sound(blocks, t)
    BY OpenFields DEF Open, NoneLost, Idle
  <1>2. a.op = t.op /\ a.latest = t.latest /\ a.row = row /\ OpOK(a.op) /\ RowOK(a.op, a.row)
    <2>1. a = [t EXCEPT !.row = row, !.todo = Tail(@)]
      BY DEF Accepted
    <2>2. DOMAIN t = {"pc", "op", "todo", "row", "latest", "fresh"}
      BY <1>1 DEF Open
    <2>3. a.op = t.op /\ a.latest = t.latest /\ a.row = row
      <3> HIDE DEF t, row
      <3> QED BY <2>1, <2>2
    <2>4. OpOK(a.op) /\ RowOK(a.op, a.row)
      BY AcceptedOK
    <2> QED BY <2>3, <2>4
  <1>3. /\ DOMAIN row = DOMAIN t.row \cup {table} /\ row[table] = Row(t.op, table)
        /\ \A x \in DOMAIN t.row : x # table => row[x] = t.row[x]
    BY DEF Insert, Only
  <1> HIDE DEF row
  <1>4. "block" \in DOMAIN row => Version(blocks, t.op.block, row["block"].end)
    <2>1. CASE "block" = table /\ "block" \in DOMAIN row
      <3>1. row["block"] = blocks[t.op.block]
        BY <1>3, <2>1 DEF Row
      <3>2. t.op.block \in DOMAIN blocks
        BY <1>2, <2>1 DEF OpOK, RowOK
      <3> QED BY <3>1, <3>2 DEF NoneLost, Versions
    <2>2. CASE "block" # table
      BY <1>1, <1>3, <2>2 DEF Sound
    <2> QED BY <2>1, <2>2
  <1>5. "project" \in DOMAIN row => IssuedOK(blocks, row["project"].totals.issued)
    <2>1. CASE "project" = table
      <3>1. row["project"].totals = project
        BY <1>3, <2>1 DEF Row
      <3> QED BY <3>1 DEF NoneLost
    <2>2. CASE "project" # table
      BY <1>1, <1>3, <2>2 DEF Sound
    <2> QED BY <2>1, <2>2
  <1>6. t.op.kind = "Issue" => Total(t.op.totals) <= CreditEst
    BY <1>1 DEF Sound
  <1> HIDE DEF t
  <1> QED BY <1>1, <1>2, <1>4, <1>5, <1>6 DEF Sound

LEMMA ReadSound ==
    ASSUME InOrder, NoneLost, NEW c \in Clients, ReadRow(c) \/ Plan(c) \/ Refuse(c)
    PROVE  NoneLost'
  <1> SUFFICES ASSUME NEW a, a = Accepted(c) PROVE NoneLost'
    OBVIOUS
  <1>1. /\ txn[c].pc = "read" /\ UNCHANGED vars
        /\ \/ txn' = [txn EXCEPT ![c] = a]
           \/ txn' = [txn EXCEPT ![c] = [a EXCEPT !.pc = "merge", !.todo = Merges(a.op, a.row)]]
           \/ txn' = [txn EXCEPT ![c] = Idle]
    BY DEF ReadRow, Plan, Refuse
  <1>2. Sound(blocks, a) /\ DOMAIN a = {"pc", "op", "todo", "row", "latest", "fresh"}
    BY <1>1, AcceptedSound, AcceptedOK
  <1>3. UNCHANGED <<blocks, project, activity, report>>
    BY <1>1 DEF vars
  <1> DEFINE t == [a EXCEPT !.pc = "merge", !.todo = Merges(a.op, a.row)]
  <1>4. t.op = a.op /\ t.row = a.row /\ t.latest = a.latest
    BY <1>2
  <1> HIDE DEF t
  <1>5. Sound(blocks, t)
    BY <1>2, <1>4 DEF Sound
  <1> QED BY <1>1, <1>2, <1>3, <1>5, SoundMoves DEF t

LEMMA MergeSound ==
    ASSUME InOrder, NoneLost, NEW c \in Clients, MergeRow(c)
    PROVE  NoneLost'
  <1> SUFFICES ASSUME NEW t, t = txn[c], NEW x, x = Latest(c) PROVE NoneLost'
    OBVIOUS
  <1> DEFINE latest == Insert(t.latest, x)
             new == [t EXCEPT !.todo = Tail(t.todo), !.latest = latest]
             b == t.row["block"]
             p == [totals |-> project, activities |-> activities]
  <1>1. /\ t.pc = "merge" /\ t.todo # <<>> /\ txn' = [txn EXCEPT ![c] = new]
        /\ UNCHANGED vars
    <2>1. t.pc = "merge" /\ t.todo # <<>> /\ UNCHANGED vars
      BY DEF MergeRow
    <2>2. txn' = [txn EXCEPT ![c] = new]
      BY Zenon DEF MergeRow
    <2> QED BY <2>1, <2>2
  <1>2. /\ Open(t) /\ Merging(t) /\ OpOK(t.op) /\ RowOK(t.op, t.row)
        /\ t.op.kind \in Operation /\ LedgerAllows(t.op, t.row)
        /\ t.op.kind \in OnBlock =>
                /\ "block" \in DOMAIN t.row /\ BlockOK(t.op.block, b)
                /\ BlockOK(t.op.block, blocks[t.op.block])
        /\ t.op.kind \in {"Transfer", "Issue", "Monitoring", "Retire"} =>
                "project" \in DOMAIN t.row /\ ProjectRowOK(t.row["project"])
    BY <1>1, MergingFacts
  <1>3. Sound(blocks, t)
    BY <1>1 DEF NoneLost, Idle
  <1>4. /\ "block" \in DOMAIN x => t.op.kind \in OnBlock
        /\ "project" \in DOMAIN x => t.op.kind \in {"Transfer", "Issue", "Monitoring", "Retire"}
        /\ "block" \in DOMAIN x => x["block"] = MergedBlock(t.op, b, blocks[t.op.block])
        /\ "project" \in DOMAIN x => x["project"] = MergedProject(t.op, t.row, p)
    <2> DEFINE m == Merges(t.op, t.row)
    <2>1. /\ "block" \in Named(m) <=> t.op.kind \in OnBlock
          /\ "project" \in Named(m) => t.op.kind \in {"Transfer", "Issue", "Monitoring", "Retire"}
      BY <1>2, TablesMerged
    <2>2. /\ Head(t.todo) \in Named(m) /\ DOMAIN x \subseteq {Head(t.todo)}
          /\ "block" \in DOMAIN x => x["block"] = MergedBlock(t.op, b, blocks[t.op.block])
          /\ "project" \in DOMAIN x => x["project"] = MergedProject(t.op, t.row, p)
      BY <1>1, LatestIs
    <2> HIDE DEF m, p
    <2> QED BY <2>1, <2>2
  <1>5. new.op = t.op /\ new.row = t.row /\ new.latest = latest
    <2> HIDE DEF latest
    <2> QED BY <1>2 DEF Open
  <1>6. /\ DOMAIN latest = DOMAIN t.latest \cup DOMAIN x
        /\ \A y \in DOMAIN latest : latest[y] = IF y \in DOMAIN x THEN x[y] ELSE t.latest[y]
    BY DEF Insert
  <1>7. ProjectRowOK(p) /\ IssuedOK(blocks, p.totals.issued)
    BY DEF InOrder, ProjectRowOK, NoneLost
  <1> HIDE DEF latest, new, b, p
  <1>8. "block" \in DOMAIN x /\ ~Splits(t.op, b) => Version(blocks, t.op.block, x["block"].end)
    <2> SUFFICES ASSUME "block" \in DOMAIN x, ~Splits(t.op, b)
                 PROVE  Version(blocks, t.op.block, x["block"].end)
      OBVIOUS
    <2>1. /\ t.op.kind \in OnBlock /\ t.op.block \in DOMAIN blocks
          /\ x["block"] = MergedBlock(t.op, b, blocks[t.op.block])
      BY <1>2, <1>4 DEF OpOK
    <2>2. x["block"].end \in {b.end, blocks[t.op.block].end}
      BY <1>2, <2>1, MergedOK DEF b
    <2>3. Version(blocks, t.op.block, blocks[t.op.block].end)
      BY <2>1 DEF NoneLost, Versions
    <2>4. Version(blocks, t.op.block, b.end)
      BY <1>2, <1>3, <2>1 DEF Sound, b
    <2> QED BY <2>2, <2>3, <2>4
  <1>9. "project" \in DOMAIN x =>
         /\ t.op.kind # "Issue" => IssuedOK(blocks, x["project"].totals.issued)
         /\ t.op.kind = "Issue" => x["project"].totals.issued
                                    = t.row["project"].totals.issued + Total(t.op.totals)
    <2> SUFFICES ASSUME "project" \in DOMAIN x
                 PROVE  /\ t.op.kind # "Issue" => x["project"].totals.issued = p.totals.issued
                        /\ t.op.kind = "Issue" => x["project"].totals.issued
                                    = t.row["project"].totals.issued + Total(t.op.totals)
      BY <1>7
    <2> QED BY <1>2, <1>4, <1>7, MergedProjectOK
  <1>10. Sound(blocks, new)
    BY <1>3, <1>5, <1>6, <1>8, <1>9 DEF Sound, b
  <1>11. UNCHANGED <<blocks, project, activity, report>>
    BY <1>1 DEF vars
  <1> QED BY <1>1, <1>10, <1>11, SoundMoves

\* Rows that keep their ends.
LEMMA SameEnds ==
    ASSUME NEW old, Versions(old), Gapless(old), NEW new, DOMAIN new = DOMAIN old,
           \A t \in DOMAIN old : new[t].end = old[t].end
    PROVE  Versions(new) /\ Gapless(new) /\ Evolves(old, new)
  <1>1. \A i : Reached(new, i) <=> Reached(old, i)
    BY DEF Reached
  <1>2. \A e, i : Covered(new, e, i) <=> Covered(old, e, i)
    BY DEF Covered
  <1>3. \A s, e : Version(new, s, e) <=> Version(old, s, e)
    BY <1>1, <1>2 DEF Version
  <1> QED BY <1>1, <1>2, <1>3 DEF Versions, Gapless, Evolves

\* What a commit does to the block table.
LEMMA TableCommit ==
    ASSUME OneReport, InOrder, NoneLost, NEW c \in Clients, Commit(c),
           NEW t, t = txn[c]
    PROVE  /\ Versions(blocks') /\ Gapless(blocks') /\ Evolves(blocks, blocks')
           /\ t.op.kind = "Issue" =>
                /\ "project" \in DOMAIN t.row
                /\ t.op.totals = Report
                /\ IssuedOK(blocks', t.row["project"].totals.issued + Batch)
  <1> DEFINE op == t.op
             row == t.row
             latest == t.latest
             b == row["block"]
             new == NewBlockRows(op, row)
             kept == IF "block" \in DOMAIN latest
                     THEN [blocks EXCEPT ![op.block] = latest["block"]] ELSE blocks
  <1>1. t.pc = "merge" /\ blocks' = Insert(kept, new)
    BY DEF Commit
  <1>2. /\ Open(t) /\ OpOK(op) /\ LedgerAllows(op, row) /\ op.kind \in Operation
        /\ "block" \in DOMAIN latest =>
                /\ op.kind \in OnBlock /\ op.block \in DOMAIN blocks
                /\ BlockOK(op.block, latest["block"])
    BY <1>1, CommitFacts
  <1>3. /\ LatestOK(t)
        /\ op.kind \in OnBlock => "block" \in DOMAIN row /\ BlockOK(op.block, b)
        /\ op.kind = "Issue" => "project" \in DOMAIN row /\ ProjectRowOK(row["project"])
    BY <1>1, MergingFacts
  <1>4. Sound(blocks, t) /\ Versions(blocks) /\ Gapless(blocks)
    BY <1>1 DEF NoneLost, Idle
  <1> HIDE DEF op, row, latest, b, new
  <1>5. /\ DOMAIN blocks' = DOMAIN blocks \cup DOMAIN new
        /\ \A x \in DOMAIN blocks' :
              blocks'[x] = IF x \in DOMAIN new THEN new[x]
                           ELSE IF "block" \in DOMAIN latest /\ x = op.block
                           THEN latest["block"] ELSE blocks[x]
    BY <1>1, <1>2 DEF Insert
  <1>6. CASE op.kind = "Issue"
    <2> DEFINE x == row["project"].totals.issued
    <2>1. "block" \notin DOMAIN latest /\ op.totals = Report /\ Total(op.totals) = Batch
      BY <1>2, <1>6, ReportFacts DEF OnBlock, OpOK, Batch
    <2>2. x \in Nat /\ IssuedOK(blocks, x) /\ Total(op.totals) <= CreditEst
      BY <1>3, <1>4, <1>6 DEF Sound, ProjectRowOK, TotalsOK, op, row
    <2>3. x = 0 \/ Total(op.totals) <= CreditEst - x
      BY <1>2, <1>6 DEF LedgerAllows
    <2>4. new = NewBlocks(Report, x, ProjectOwner)
      <3>1. ~Splits(op, row["block"])
        BY <1>6 DEF Splits
      <3> QED BY <1>6, <2>1, <3>1 DEF NewBlockRows, new
    <2>5. blocks' = Insert(blocks, NewBlocks(Report, x, ProjectOwner))
      BY <1>1, <2>1, <2>4
    <2> HIDE DEF x
    <2>6. Multiple(x) /\ Multiple(x + Batch) /\ Batch \in Nat
      BY <2>2, MultipleFacts, ReportFacts DEF IssuedOK
    <2>7. x + Batch <= CreditEst
      BY <2>1, <2>2, <2>3, <2>6, LedgerAssumption
    <2>8. x = 0 \/ Reached(blocks, x)
      BY <2>2 DEF IssuedOK
    <2>9. /\ Versions(blocks') /\ Gapless(blocks') /\ Evolves(blocks, blocks')
          /\ Reached(blocks', x + Batch)
      BY <1>4, <2>5, <2>6, <2>7, <2>8, IssueRewrite
    <2> QED BY <1>3, <1>6, <2>1, <2>6, <2>9 DEF IssuedOK, x, op, row
  <1>7. CASE op.kind \in OnBlock /\ Splits(op, b)
    <2> DEFINE n == Part(op, b)
               cut == b.end - n
    <2>1. n \in Nat \ {0} /\ n <= b.end - op.block
      BY <1>2, <1>3, <1>7, PartOK DEF b
    <2>2. PICK child : new = Only(SecondStart(b, n), child) /\ child.end = b.end
      <3>1. new = ChildOf(op, b)
        BY <1>7 DEF NewBlockRows, OnBlock, new, b
      <3>2. LET y == SecondStart(b, Part(op, b)) IN
            \E child : /\ ChildOf(op, b) = Only(y, child) /\ BlockOK(y, child)
                       /\ child.end = b.end
        BY <1>2, <1>3, <1>7, ChildOK DEF b
      <3> QED BY <3>1, <3>2
    <2>3. op.block \in DOMAIN blocks /\ Version(blocks, op.block, b.end)
      BY <1>2, <1>3, <1>4, <1>7 DEF OpOK, Sound, op, row, b
    <2>4. "block" \in DOMAIN latest => latest["block"].end = cut
      BY <1>3, <1>7 DEF LatestOK, op, row, b, latest
    <2> HIDE DEF n
    <2>5. /\ op.block \in Nat /\ b.end \in Nat /\ cut \in Nat /\ op.block <= cut /\ cut < b.end
          /\ SecondStart(b, n) = cut + 1 /\ cut <= b.end
      BY <1>3, <1>7, <2>1 DEF BlockOK, SecondStart
    <2> HIDE DEF cut
    <2>6. DOMAIN new = {cut + 1} /\ new[cut + 1].end = b.end
      BY <2>2, <2>5 DEF Only
    <2>7. /\ DOMAIN blocks \subseteq DOMAIN blocks'
          /\ \A x \in DOMAIN blocks' : x \in DOMAIN blocks \/ x = cut + 1
          /\ cut + 1 \in DOMAIN blocks' /\ blocks'[cut + 1].end = b.end
          /\ \A x \in DOMAIN blocks :
                x = op.block \/ x = cut + 1 \/ blocks'[x].end = blocks[x].end
          /\ blocks'[op.block].end = cut \/ blocks'[op.block].end = blocks[op.block].end
      <3>1. op.block # cut + 1
        BY <2>5
      <3> QED BY <1>5, <2>3, <2>4, <2>6, <3>1
    <2>8. Versions(blocks') /\ Gapless(blocks') /\ Evolves(blocks, blocks')
      BY <1>4, <2>3, <2>5, <2>7, BlockRewrite
    <2> QED BY <1>7, <2>8 DEF OnBlock, op
  <1>8. CASE op.kind # "Issue" /\ ~(op.kind \in OnBlock /\ Splits(op, b))
    <2>1. new = <<>>
      BY <1>2, <1>8 DEF NewBlockRows, Operation, OnBlock, new, b
    <2>2. DOMAIN new = {}
      BY <2>1
    <2>3. CASE "block" \in DOMAIN latest
      <3> DEFINE e == latest["block"].end
      <3>1. /\ op.kind \in OnBlock /\ op.block \in DOMAIN blocks
            /\ op.block <= e /\ e \in Nat
        BY <1>2, <2>3 DEF BlockOK
      <3>2. Version(blocks, op.block, e)
        BY <1>4, <1>8, <2>3, <3>1 DEF Sound, op, row, b, latest
      <3>3. /\ DOMAIN blocks' = DOMAIN blocks /\ blocks'[op.block].end = e
            /\ \A x \in DOMAIN blocks : x = op.block \/ blocks'[x].end = blocks[x].end
        BY <1>5, <2>2, <2>3, <3>1
      <3> HIDE DEF e
      <3>4. e <= e /\ ~(e < e)
        BY <3>1
      <3>5. Versions(blocks') /\ Gapless(blocks') /\ Evolves(blocks, blocks')
        BY <1>4, <3>1, <3>2, <3>3, <3>4, BlockRewrite
      <3> QED BY <1>8, <3>5 DEF op
    <2>4. CASE "block" \notin DOMAIN latest
      <3>1. DOMAIN blocks' = DOMAIN blocks
            /\ \A x \in DOMAIN blocks : blocks'[x].end = blocks[x].end
        BY <1>5, <2>2, <2>4
      <3>2. Versions(blocks') /\ Gapless(blocks') /\ Evolves(blocks, blocks')
        BY <1>4, <3>1, SameEnds
      <3> QED BY <1>8, <3>2 DEF op
    <2> QED BY <2>3, <2>4
  <1> QED BY <1>6, <1>7, <1>8 DEF OnBlock

LEMMA CommitSound ==
    ASSUME OneReport, InOrder, NoneLost, NEW c \in Clients, Commit(c)
    PROVE  NoneLost'
  <1> SUFFICES ASSUME NEW t, t = txn[c] PROVE NoneLost'
    OBVIOUS
  <1> DEFINE written == "project" \in DOMAIN t.latest
  <1>1. /\ t.pc = "merge"
        /\ written => project' = t.latest["project"].totals
        /\ ~written => project' = project
        /\ ReplicateActivity(t.op, written)
    BY DEF Commit
  <1>2. txn' = [d \in Clients |->
                  IF d = c THEN Idle
                  ELSE IF written /\ Busy(d) /\ "project" \in DOMAIN txn[d].row
                  THEN [txn[d] EXCEPT !.fresh = FALSE] ELSE txn[d]]
    BY DEF Commit
  <1>3. /\ Versions(blocks') /\ Gapless(blocks') /\ Evolves(blocks, blocks')
        /\ t.op.kind = "Issue" =>
             /\ "project" \in DOMAIN t.row /\ t.op.totals = Report
             /\ IssuedOK(blocks', t.row["project"].totals.issued + Batch)
    BY TableCommit
  <1>4. Sound(blocks, t)
    BY <1>1 DEF NoneLost, Idle
  <1> HIDE DEF written
  <1>5. \A x : IssuedOK(blocks, x) => IssuedOK(blocks', x)
    <2>1. SUFFICES ASSUME NEW x, IssuedOK(blocks, x) PROVE IssuedOK(blocks', x)
      OBVIOUS
    <2>2. x \in Nat
      BY <2>1, MultipleFacts DEF IssuedOK
    <2> QED BY <1>3, <2>1, <2>2 DEF IssuedOK, Evolves
  <1>6. IssuedOK(blocks', project'.issued)
    <2>1. CASE ~written
      BY <1>1, <1>5, <2>1 DEF NoneLost
    <2>2. CASE written /\ t.op.kind # "Issue"
      BY <1>1, <1>4, <1>5, <2>2 DEF Sound, written
    <2>3. CASE written /\ t.op.kind = "Issue"
      <3>1. t.latest["project"].totals.issued = t.row["project"].totals.issued + Batch
        BY <1>3, <1>4, <2>3 DEF Sound, written, Batch
      <3> QED BY <1>1, <1>3, <2>3, <3>1
    <2> QED BY <2>1, <2>2, <2>3
  <1>7. activity' = "VerificationUploaded" => Total(report') <= CreditEst
    <2>1. \/ activity' = activity /\ report' = report
          \/ activity' \in {"VerificationVerified", "MonitoringVerified"}
      BY <1>1 DEF ReplicateActivity
    <2> QED BY <2>1 DEF NoneLost
  <1>8. ASSUME NEW d \in Clients PROVE txn'[d] = Idle \/ Sound(blocks', txn'[d])
    <2>1. CASE txn'[d] # Idle
      <3>1. txn[d] # Idle /\ (txn'[d] = txn[d] \/ txn'[d] = [txn[d] EXCEPT !.fresh = FALSE])
        BY <1>2, <2>1 DEF Busy, Idle
      <3>2. Open(txn[d]) /\ Sound(blocks, txn[d])
        BY <3>1 DEF InOrder, NoneLost
      <3> SUFFICES ASSUME NEW u, NEW v, u = txn[d], v = txn'[d]
                   PROVE  Sound(blocks', v)
        OBVIOUS
      <3>3. v.op = u.op /\ v.row = u.row /\ v.latest = u.latest
        BY <3>1, <3>2 DEF Open
      <3>4. /\ "block" \in DOMAIN u.row => BlockOK(u.op.block, u.row["block"])
            /\ "block" \in DOMAIN u.latest => BlockOK(u.op.block, u.latest["block"])
        BY <3>2 DEF Open, RowOK, LatestOK
      <3>5. \A s, e \in Nat \ {0} : Version(blocks, s, e) => Version(blocks', s, e)
        BY <1>3 DEF Evolves
      <3>6. /\ "block" \in DOMAIN u.row =>
                 u.op.block \in Nat \ {0} /\ u.row["block"].end \in Nat \ {0}
            /\ "block" \in DOMAIN u.latest =>
                 u.op.block \in Nat \ {0} /\ u.latest["block"].end \in Nat \ {0}
        BY <3>4 DEF BlockOK
      <3> QED BY <1>5, <3>2, <3>3, <3>5, <3>6 DEF Sound
    <2> QED BY <2>1
  <1> QED BY <1>3, <1>6, <1>7, <1>8 DEF NoneLost

\* A report goes on file only within what is left of the estimate.
LEMMA DirectSound ==
    ASSUME InOrder, NoneLost, NEW c \in Clients, Direct(c)
    PROVE  NoneLost'
  <1>1. UNCHANGED <<blocks, project, txn>>
    BY DEF Direct, UploadVerification, RejectVerification, MarkSubmitted, UpdateApproach
  <1>2. activity' = "VerificationUploaded" => Total(report') <= CreditEst
    <2>1. \/ UNCHANGED <<activity, report>>
          \/ activity' = "VerificationRejected"
          \/ \E t \in VintageTotals : report' = t /\ Total(t) <= CreditEst - project.issued
      BY DEF Direct, UploadVerification, RejectVerification, MarkSubmitted, UpdateApproach
    <2>2. ASSUME NEW t \in VintageTotals, Total(t) <= CreditEst - project.issued
          PROVE  Total(t) <= CreditEst
      <3>1. Total(t) \in Nat
        BY LedgerAssumption DEF IsVintageTotals, Total
      <3>2. project.issued \in Nat
        BY DEF InOrder, TotalsOK
      <3> QED BY <2>2, <3>1, <3>2, LedgerAssumption
    <2> QED BY <2>1, <2>2 DEF NoneLost
  <1>3. \A d \in Clients : txn'[d] = Idle \/ Sound(blocks', txn'[d])
    BY <1>1 DEF NoneLost
  <1> QED BY <1>1, <1>2, <1>3 DEF NoneLost

LEMMA InitNoneLost == OneReport /\ TInit => NoneLost
  <1> SUFFICES ASSUME OneReport, TInit PROVE NoneLost
    OBVIOUS
  <1>1. /\ DOMAIN blocks = {} /\ project.issued = 0 /\ activity = "None"
        /\ \A c \in Clients : txn[c] = Idle
    BY DEF TInit, Init
  <1>2. Versions(blocks) /\ Gapless(blocks)
    BY <1>1 DEF Versions, Gapless, Reached
  <1>3. IssuedOK(blocks, project.issued)
    BY <1>1, MultipleFacts DEF IssuedOK
  <1> QED BY <1>1, <1>2, <1>3 DEF NoneLost

LEMMA StepSound == OneReport /\ InOrder /\ NoneLost /\ [TNext]_tvars => NoneLost'
  <1> SUFFICES ASSUME OneReport, InOrder, NoneLost, [TNext]_tvars PROVE NoneLost'
    OBVIOUS
  <1>1. ASSUME NEW c \in Clients, Direct(c) PROVE NoneLost'
    BY <1>1, DirectSound
  <1>2. ASSUME NEW c \in Clients, NEW s \in DOMAIN blocks, BeginOnBlock(c, s)
        PROVE  NoneLost'
    BY <1>2, BlockBeginSound
  <1>3. ASSUME NEW c \in Clients, NEW r \in DOMAIN requests, BeginOnRequest(c, r)
        PROVE  NoneLost'
    BY <1>3, RequestBeginSound
  <1>4. ASSUME NEW c \in Clients, BeginMonitoring(c) \/ BeginIssue(c) PROVE NoneLost'
    BY <1>4, IssueBeginSound
  <1>5. ASSUME NEW c \in Clients, ReadRow(c) \/ Plan(c) \/ Refuse(c) PROVE NoneLost'
    BY <1>5, ReadSound
  <1>6. ASSUME NEW c \in Clients, MergeRow(c) PROVE NoneLost'
    BY <1>6, MergeSound
  <1>7. ASSUME NEW c \in Clients, Commit(c) PROVE NoneLost'
    BY <1>7, CommitSound
  <1>8. CASE UNCHANGED tvars
    <2>1. UNCHANGED <<blocks, project, activity, report, txn>>
      BY <1>8 DEF tvars, vars
    <2> QED BY <2>1 DEF NoneLost
  <1>9. CASE TNext
    BY <1>1, <1>2, <1>3, <1>4, <1>5, <1>6, <1>7, <1>9 DEF TNext, Transaction
  <1> QED BY <1>8, <1>9

\* However many clients interleave, as long as every report verifies the same
\* vintages: no issued serial number drops out of the block table, and none
\* beyond the estimate is minted, although blocks are written again from stale
\* rows and issuances may repeat.
THEOREM SerialsStay ==
    ASSUME OneReport
    PROVE  TSpec => []SerialsKept
  <1>1. InOrder /\ NoneLost => SerialsKept
    <2> SUFFICES ASSUME InOrder, NoneLost PROVE SerialsKept
      OBVIOUS
    <2>1. NoSerialBeyondEstimate
      BY DEF NoneLost, Versions, NoSerialBeyondEstimate
    <2>2. NoSerialLost
      <3>1. SUFFICES ASSUME NEW i \in 1 .. project.issued
                     PROVE  \E s \in DOMAIN blocks : s <= i /\ i <= blocks[s].end
        BY DEF NoSerialLost
      <3>2. project.issued \in Nat
        BY DEF InOrder, TotalsOK
      <3>3. i \in Nat \ {0} /\ i <= project.issued /\ project.issued # 0
        BY <3>1, <3>2
      <3>4. PICK u \in DOMAIN blocks : project.issued <= blocks[u].end
        BY <3>3 DEF NoneLost, IssuedOK, Reached
      <3>5. blocks[u].end \in Nat
        BY DEF NoneLost, Versions
      <3>6. i <= blocks[u].end
        BY <3>2, <3>3, <3>4, <3>5
      <3>7. Reached(blocks, i)
        BY <3>6 DEF Reached
      <3> QED BY <3>3, <3>7 DEF NoneLost, Gapless, Covered
    <2> QED BY <2>1, <2>2 DEF SerialsKept
  <1>2. TSpec => []NoneLost
    <2>1. TInit => NoneLost
      BY InitNoneLost
    <2>2. InOrder /\ NoneLost /\ [TNext]_tvars => NoneLost'
      BY StepSound
    <2> QED BY <2>1, <2>2, StaysInOrder, PTL DEF TSpec
  <1> QED BY <1>1, <1>2, StaysInOrder, PTL

-----------------------------------------------------------------------------
(* A single client.  Nothing changes between the service's checks and the  *)
(* commit, so every commit is a step of CreditLedger.                      *)

OneClient == \A c, d \in Clients : c = d

\* What the service of a request on a block has made sure of.
RequestGranted(op, b) ==
    /\ op.from = b.owner /\ b.owner \in Developers
    /\ op.n \in 1 .. Unassigned(b) /\ op.n \in 1 .. b.amount
    /\ op.id = Len(requests) + 1 /\ Len(requests) < MaxRequests
    /\ \/ /\ op.type = "Retired" /\ op.subType \in UseTypes /\ op.purpose = "None"
          /\ MayRetireFor(b, op.subType)
       \/ /\ op.type = "ItmoAuthorized" /\ op.subType = "None" /\ op.purpose \in Purposes
          /\ ~IsItmo(b) /\ b.account = "Holding"
          /\ caStatus = "Active" /\ (op.purpose = "NDC" => HasCounterparty)

\* What the service of a decision on request q has made sure of.
DecisionGranted(op, q) ==
    /\ q.status = "Pending" /\ op.block = q.block
    /\ op.account = MapSubTypeToAccountType(q.subType)
    /\ op.kind = "Authorize" => q.type = "ItmoAuthorized" /\ caStatus # "Draft"
    /\ op.kind = "Decline" => op.status \in {"Rejected", "Cancelled"}

\* The checks of the service still hold.
Granted(op) ==
    /\ op.kind = "Transfer" =>
         /\ op.n \in 1 .. blocks[op.block].amount /\ op.to \in Developers
         /\ CanTransfer(blocks[op.block], op.n, op.to)
    /\ op.kind = "Request" => RequestGranted(op, blocks[op.block])
    /\ op.kind \in {"Retire", "Authorize", "Decline"} =>
         op.req \in DOMAIN requests /\ DecisionGranted(op, requests[op.req])
    /\ op.kind = "Monitoring" =>
         activity \in {"None", "VerificationVerified"} /\ op.act = current + 1
    /\ op.kind = "Issue" =>
         activity = "VerificationUploaded" /\ op.act = current /\ op.totals = report

\* The operation has read and merged what the tables hold now.
UpToDate(t) ==
    /\ Granted(t.op) /\ t.fresh
    /\ \A x \in DOMAIN t.row : t.row[x] = Row(t.op, x)
    /\ "block" \in DOMAIN t.latest =>
         t.latest["block"] = MergedBlock(t.op, t.row["block"], blocks[t.op.block])
    /\ "project" \in DOMAIN t.latest =>
         t.latest["project"] = MergedProject(t.op, t.row, Row(t.op, "project"))
    /\ t.pc = "merge" =>
         DOMAIN t.latest \cup Named(t.todo) = Named(Merges(t.op, t.row))

\* A request under way has drawn its id.
Drawn(t) == IF t # Idle /\ t.op.kind = "Request" THEN 1 ELSE 0

Alone ==
    /\ current \in Nat
    /\ \A c \in Clients : /\ txn[c] = Idle \/ UpToDate(txn[c])
                          /\ lastId = Len(requests) + Drawn(txn[c])

LEMMA SameTables ==
    ASSUME UNCHANGED <<vars, activities, current>>, NEW t, UpToDate(t)
    PROVE  UpToDate(t)'
  <1>1. UNCHANGED <<blocks, project, companyCredit, activity, report, requests, caStatus,
                    activities, current>>
    BY DEF vars
  <1>2. Granted(t.op)'
    BY <1>1 DEF UpToDate, Granted, RequestGranted, DecisionGranted, MayRetireFor, PurposeOf
  <1>3. \A x \in DOMAIN t.row : (t.row[x] = Row(t.op, x))'
    BY <1>1 DEF UpToDate, Row
  <1>4. ("project" \in DOMAIN t.latest =>
            t.latest["project"] = MergedProject(t.op, t.row, Row(t.op, "project")))'
    BY <1>1 DEF UpToDate, Row
  <1> QED BY <1>1, <1>2, <1>3, <1>4 DEF UpToDate

\* A step that commits nothing and moves the operation on.
LEMMA AloneMoves ==
    ASSUME OneClient, InOrder, Alone, NEW c \in Clients, NEW t,
           t = Idle \/ UpToDate(t), lastId' = Len(requests) + Drawn(t),
           txn' = [txn EXCEPT ![c] = t], UNCHANGED <<vars, activities, current>>
    PROVE  Alone'
  <1>1. \A d \in Clients : d = c
    BY DEF OneClient
  <1>2. DOMAIN txn = Clients
    BY DEF InOrder
  <1>3. txn'[c] = t
    BY <1>2
  <1>4. t = Idle \/ UpToDate(t)'
    BY SameTables
  <1>5. requests' = requests /\ current' = current
    BY DEF vars
  <1>6. lastId' = Len(requests') + Drawn(t)
    BY <1>5
  <1>7. ASSUME NEW d \in Clients
        PROVE  (txn[d] = Idle \/ UpToDate(txn[d]))' /\ lastId' = Len(requests') + Drawn(txn'[d])
    <2>1. txn'[d] = t
      BY <1>1, <1>3
    <2>2. (txn[d] = Idle \/ UpToDate(txn[d]))'
      BY <1>4, <2>1 DEF UpToDate
    <2> QED BY <1>6, <2>1, <2>2
  <1> QED BY <1>5, <1>7 DEF Alone

LEMMA BeginAlone ==
    ASSUME OneClient, InOrder, Alone, NEW c \in Clients, NEW op, Begin(c, op), Granted(op),
           op.kind = "Request" => lastId' = lastId + 1,
           op.kind # "Request" => lastId' = lastId
    PROVE  Alone'
  <1> DEFINE t == [pc |-> "read", op |-> op, todo |-> Reads(op),
                   row |-> <<>>, latest |-> <<>>, fresh |-> TRUE]
  <1>1. txn' = [txn EXCEPT ![c] = t] /\ UNCHANGED <<vars, activities, current>>
        /\ txn[c].pc = "idle"
    BY DEF Begin, Busy
  <1>2. /\ t.pc = "read" /\ t.op = op /\ t.fresh = TRUE
        /\ DOMAIN t.row = {} /\ DOMAIN t.latest = {} /\ t # Idle
    BY DEF Idle
  <1> HIDE DEF t
  <1>3. UpToDate(t)
    BY <1>2 DEF UpToDate
  <1>4. txn[c] = Idle
    <2>1. txn[c] = Idle \/ Open(txn[c])
      BY DEF InOrder
    <2> QED BY <1>1, <2>1 DEF Open
  <1>5. lastId = Len(requests) + 0 /\ lastId \in Nat
    BY <1>4 DEF Alone, Drawn, InOrder
  <1>6. lastId' = Len(requests) + Drawn(t)
    BY <1>2, <1>5 DEF Drawn
  <1> QED BY <1>1, <1>3, <1>6, AloneMoves

LEMMA IdleCounts ==
    ASSUME InOrder, Alone, NEW c \in Clients, ~Busy(c)
    PROVE  lastId = Len(requests)
  <1>1. txn[c] = Idle \/ Open(txn[c])
    BY DEF InOrder
  <1>2. txn[c] = Idle
    BY <1>1 DEF Busy, Open
  <1>3. lastId = Len(requests) + 0 /\ lastId \in Nat
    BY <1>2 DEF Alone, Drawn, InOrder
  <1>4. Len(requests) \in Int \/ requests \notin Seq(Request)
    OBVIOUS
  <1> QED BY <1>3, <1>4

LEMMA BlockBeginAlone ==
    ASSUME OneClient, IInv, InOrder, Alone, NEW c \in Clients, NEW s \in DOMAIN blocks,
           BeginOnBlock(c, s)
    PROVE  Alone'
  <1>1. PICK n \in 1 .. blocks[s].amount :
              \/ \E to \in Developers : BeginTransfer(c, s, n, to)
              \/ \E sub \in UseTypes : BeginRetireRequest(c, s, n, sub)
              \/ \E purpose \in Purposes : BeginItmoRequest(c, s, n, purpose)
    BY DEF BeginOnBlock
  <1>2. ASSUME NEW to \in Developers, BeginTransfer(c, s, n, to) PROVE Alone'
    <2> DEFINE op == [kind |-> "Transfer", block |-> s, n |-> n,
                      from |-> blocks[s].owner, to |-> to]
    <2>1. Begin(c, op) /\ lastId' = lastId /\ CanTransfer(blocks[s], n, to)
      BY <1>2 DEF BeginTransfer
    <2>2. Granted(op) /\ op.kind = "Transfer"
      BY <1>1, <2>1 DEF Granted
    <2> HIDE DEF op
    <2> QED BY <2>1, <2>2, BeginAlone
  <1>3. ASSUME NEW type, NEW sub, NEW purpose, BeginRequest(c, s, n, type, sub, purpose),
               \/ type = "Retired" /\ sub \in UseTypes /\ purpose = "None"
                    /\ MayRetireFor(blocks[s], sub)
               \/ /\ type = "ItmoAuthorized" /\ sub = "None" /\ purpose \in Purposes
                  /\ ~IsItmo(blocks[s]) /\ blocks[s].account = "Holding"
                  /\ caStatus = "Active" /\ (purpose = "NDC" => HasCounterparty)
        PROVE  Alone'
    <2> DEFINE op == [kind |-> "Request", block |-> s, n |-> n, from |-> blocks[s].owner,
                      type |-> type, subType |-> sub, purpose |-> purpose, id |-> lastId + 1]
    <2>1. /\ Begin(c, op) /\ lastId' = lastId + 1 /\ lastId < MaxRequests
          /\ blocks[s].owner \in Developers /\ n \in 1 .. Unassigned(blocks[s])
      BY <1>3 DEF BeginRequest
    <2>2. lastId = Len(requests)
      BY <2>1, IdleCounts DEF Begin
    <2>3. RequestGranted(op, blocks[s])
      BY <1>1, <1>3, <2>1, <2>2 DEF RequestGranted
    <2>4. Granted(op) /\ op.kind = "Request"
      BY <2>3 DEF Granted
    <2> HIDE DEF op
    <2> QED BY <2>1, <2>4, BeginAlone
  <1> QED BY <1>1, <1>2, <1>3 DEF BeginRetireRequest, BeginItmoRequest

LEMMA RequestBeginAlone ==
    ASSUME OneClient, InOrder, Alone, NEW c \in Clients, NEW r \in DOMAIN requests,
           BeginOnRequest(c, r)
    PROVE  Alone'
  <1>1. PICK kind, status :
            /\ kind \in {"Retire", "Authorize", "Decline"} /\ BeginDecision(c, r, kind, status)
            /\ kind = "Authorize" => requests[r].type = "ItmoAuthorized" /\ caStatus # "Draft"
            /\ kind = "Decline" => status \in {"Rejected", "Cancelled"}
    <2>1. CASE BeginRetire(c, r)
      BY <2>1 DEF BeginRetire
    <2>2. CASE BeginAuthorize(c, r)
      BY <2>2 DEF BeginAuthorize
    <2>3. CASE \E status \in {"Rejected", "Cancelled"} : BeginDecline(c, r, status)
      BY <2>3 DEF BeginDecline
    <2> QED BY <2>1, <2>2, <2>3 DEF BeginOnRequest
  <1> DEFINE op == [kind |-> kind, req |-> r, block |-> requests[r].block, status |-> status,
                    account |-> MapSubTypeToAccountType(requests[r].subType)]
  <1>2. Begin(c, op) /\ lastId' = lastId /\ requests[r].status = "Pending"
    BY <1>1 DEF BeginDecision
  <1>3. Granted(op) /\ op.kind # "Request"
    <2>1. DecisionGranted(op, requests[r])
      BY <1>1, <1>2 DEF DecisionGranted
    <2> QED BY <1>1, <2>1 DEF Granted
  <1> HIDE DEF op
  <1> QED BY <1>2, <1>3, BeginAlone

LEMMA IssueBeginAlone ==
    ASSUME OneClient, InOrder, Alone, NEW c \in Clients, BeginMonitoring(c) \/ BeginIssue(c)
    PROVE  Alone'
  <1>1. CASE BeginMonitoring(c)
    <2> DEFINE op == [kind |-> "Monitoring", act |-> current + 1]
    <2>1. Begin(c, op) /\ Granted(op) /\ op.kind # "Request" /\ lastId' = lastId
      BY <1>1 DEF BeginMonitoring, Granted
    <2> HIDE DEF op
    <2> QED BY <2>1, BeginAlone
  <1>2. CASE BeginIssue(c)
    <2> DEFINE op == [kind |-> "Issue", act |-> current, totals |-> report]
    <2>1. Begin(c, op) /\ Granted(op) /\ op.kind # "Request" /\ lastId' = lastId
      BY <1>2 DEF BeginIssue, Granted
    <2> HIDE DEF op
    <2> QED BY <2>1, BeginAlone
  <1> QED BY <1>1, <1>2

\* The client under way.
LEMMA AloneFacts ==
    ASSUME InOrder, Alone, NEW c \in Clients, NEW t, t = txn[c], t.pc # "idle"
    PROVE  /\ Open(t) /\ OpOK(t.op) /\ UpToDate(t) /\ t # Idle
           /\ DOMAIN t = {"pc", "op", "todo", "row", "latest", "fresh"}
           /\ lastId = Len(requests) + Drawn(t)
  <1>1. Open(t) /\ t # Idle
    BY OpenFields DEF Idle
  <1> QED BY <1>1 DEF Alone, Open

\* What the service has checked the ledger allows again.
LEMMA RequestsAllowed ==
    ASSUME NEW op, op.kind = "Request", Granted(op), NEW row, row["block"] = blocks[op.block],
           blocks[op.block].amount \in Int, blocks[op.block].reserved \in Int
    PROVE  LedgerAllows(op, row)
  <1> DEFINE b == blocks[op.block]
  <1>1. RequestGranted(op, b)
    BY DEF Granted
  <1>2. /\ b.owner = op.from /\ op.n <= Unassigned(b)
        /\ op.type = "ItmoAuthorized" => ~IsItmo(b) /\ b.account = "Holding"
    BY <1>1 DEF RequestGranted, Unassigned
  <1> QED BY <1>2 DEF LedgerAllows

LEMMA ReadAlone ==
    ASSUME OneClient, IInv, InOrder, Alone, NEW c \in Clients,
           ReadRow(c) \/ Plan(c) \/ Refuse(c)
    PROVE  Alone'
  <1> SUFFICES ASSUME NEW t, t = txn[c], NEW a, a = Accepted(c) PROVE Alone'
    OBVIOUS
  <1> DEFINE table == Head(t.todo)
             row == Insert(t.row, Only(table, Row(t.op, table)))
             new == [a EXCEPT !.pc = "merge", !.todo = Merges(a.op, a.row)]
  <1>1. /\ t.pc = "read" /\ UNCHANGED <<vars, activities, current, lastId>>
        /\ \/ txn' = [txn EXCEPT ![c] = a]
           \/ txn' = [txn EXCEPT ![c] = new]
           \/ /\ txn' = [txn EXCEPT ![c] = Idle]
              /\ Len(t.todo) = 1 /\ ~LedgerAllows(a.op, a.row)
    BY DEF ReadRow, Plan, Refuse
  <1>2. /\ Open(t) /\ OpOK(t.op) /\ UpToDate(t) /\ t # Idle
        /\ DOMAIN t = {"pc", "op", "todo", "row", "latest", "fresh"}
        /\ lastId = Len(requests) + Drawn(t)
    BY <1>1, AloneFacts
  <1>3. /\ DOMAIN a = {"pc", "op", "todo", "row", "latest", "fresh"}
        /\ a.pc = "read" /\ DOMAIN a.latest = {} /\ a.op = t.op
        /\ Len(t.todo) = 1 => DOMAIN a.row = Named(Reads(t.op))
    BY <1>1, AcceptedOK
  <1>4. a.row = row /\ a.fresh = t.fresh
    <2>1. a = [t EXCEPT !.row = row, !.todo = Tail(@)]
      BY DEF Accepted
    <2> HIDE DEF row
    <2> QED BY <1>2, <2>1
  <1>5. \A x \in DOMAIN row : row[x] = Row(t.op, x)
    <2>1. /\ DOMAIN row = DOMAIN t.row \cup {table} /\ row[table] = Row(t.op, table)
          /\ \A x \in DOMAIN t.row : x # table => row[x] = t.row[x]
      BY DEF Insert, Only
    <2> HIDE DEF row, table
    <2> QED BY <1>2, <2>1 DEF UpToDate
  <1> HIDE DEF row, table
  <1>6. UpToDate(a) /\ a # Idle
    BY <1>2, <1>3, <1>4, <1>5 DEF UpToDate, Idle
  <1>7. /\ new.op = a.op /\ new.row = a.row /\ new.latest = a.latest /\ new.fresh = a.fresh
        /\ new.pc = "merge" /\ new.todo = Merges(a.op, a.row) /\ new # Idle
    BY <1>3 DEF Idle
  <1> HIDE DEF new
  <1>8. UpToDate(new)
    BY <1>3, <1>6, <1>7 DEF UpToDate
  <1>9. lastId' = Len(requests) + Drawn(a) /\ lastId' = Len(requests) + Drawn(new)
    BY <1>1, <1>2, <1>3, <1>6, <1>7 DEF Drawn
  <1>10. CASE txn' = [txn EXCEPT ![c] = a] \/ txn' = [txn EXCEPT ![c] = new]
    BY <1>1, <1>6, <1>8, <1>9, <1>10, AloneMoves
  <1>11. CASE /\ txn' = [txn EXCEPT ![c] = Idle]
              /\ Len(t.todo) = 1 /\ ~LedgerAllows(a.op, a.row)
    <2>1. t.op.kind # "Request"
      <3>1. SUFFICES ASSUME t.op.kind = "Request" PROVE LedgerAllows(a.op, a.row)
        BY <1>11
      <3>2. "block" \in DOMAIN a.row
        <4>1. t.op.kind \in Operation /\ t.op.kind \in OnBlock
          BY <1>2, <3>1 DEF OpOK, OnBlock
        <4> QED BY <1>3, <1>11, <4>1, TablesRead
      <3>3. a.row["block"] = blocks[t.op.block]
        BY <1>4, <1>5, <3>2 DEF Row
      <3>4. t.op.block \in DOMAIN blocks
        BY <1>2, <3>1 DEF OpOK, OnBlock
      <3>5. blocks[t.op.block].amount \in Int /\ blocks[t.op.block].reserved \in Int
        BY <3>4, BlockFacts
      <3>6. Granted(a.op)
        BY <1>2, <1>3 DEF UpToDate
      <3> QED BY <1>3, <3>1, <3>3, <3>5, <3>6, RequestsAllowed
    <2>2. Drawn(t) = 0 /\ Drawn(Idle) = 0
      BY <2>1 DEF Drawn
    <2>3. lastId' = Len(requests) + Drawn(Idle)
      BY <1>1, <1>2, <2>2
    <2> QED BY <1>1, <1>11, <2>3, AloneMoves
  <1> QED BY <1>1, <1>10, <1>11

LEMMA MergeAlone ==
    ASSUME OneClient, InOrder, Alone, NEW c \in Clients, MergeRow(c)
    PROVE  Alone'
  <1> SUFFICES ASSUME NEW t, t = txn[c], NEW x, x = Latest(c) PROVE Alone'
    OBVIOUS
  <1> DEFINE latest == Insert(t.latest, x)
             new == [t EXCEPT !.todo = Tail(t.todo), !.latest = latest]
             m == Merges(t.op, t.row)
  <1>1. /\ t.pc = "merge" /\ t.todo # <<>> /\ txn' = [txn EXCEPT ![c] = new]
        /\ UNCHANGED <<vars, activities, current, lastId>>
    <2>1. t.pc = "merge" /\ t.todo # <<>> /\ UNCHANGED <<vars, activities, current, lastId>>
      BY DEF MergeRow
    <2>2. txn' = [txn EXCEPT ![c] = new]
      BY Zenon DEF MergeRow
    <2> QED BY <2>1, <2>2
  <1>2. /\ Open(t) /\ OpOK(t.op) /\ UpToDate(t) /\ t # Idle /\ t.op.kind \in Operation
        /\ DOMAIN t = {"pc", "op", "todo", "row", "latest", "fresh"}
        /\ lastId = Len(requests) + Drawn(t)
    BY <1>1, AloneFacts DEF OpOK
  <1>3. Merging(t)
    BY <1>1, MergingFacts
  <1>4. /\ m \in {<<"project">>, <<"block", "project">>, <<"project", "block">>, <<"block">>}
        /\ \/ Len(m) = 2 /\ Head(m) = m[1] /\ Tail(m) = <<m[2]>>
           \/ Len(m) = 1 /\ Tail(m) = <<>>
    BY <1>2, TablesMerged
  <1>5. /\ Head(t.todo) \in Named(m) /\ DOMAIN x \subseteq {Head(t.todo)}
        /\ "block" \in DOMAIN x => x["block"] = MergedBlock(t.op, t.row["block"], blocks[t.op.block])
        /\ "project" \in DOMAIN x =>
                x["project"] = MergedProject(t.op, t.row, [totals |-> project, activities |-> activities])
    BY <1>1, LatestIs
  <1>6. DOMAIN x = {Head(t.todo)}
    <2>1. t.fresh
      BY <1>2 DEF UpToDate
    <2> DEFINE row == Only("block", MergedBlock(t.op, t.row["block"], blocks[t.op.block]))
               p == Only("project", MergedProject(t.op, t.row, Row(t.op, "project")))
    <2>2. x = IF Head(t.todo) = "block" THEN row ELSE p
      BY <2>1 DEF Latest
    <2>3. DOMAIN row = {"block"} /\ DOMAIN p = {"project"}
      BY DEF Only
    <2>4. Head(t.todo) \in {"block", "project"}
      <3> HIDE DEF m
      <3> QED BY <1>4, <1>5 DEF Named
    <2> HIDE DEF row, p
    <2> QED BY <2>2, <2>3, <2>4
  <1>7. /\ new.op = t.op /\ new.row = t.row /\ new.latest = latest /\ new.pc = "merge"
        /\ new.todo = Tail(t.todo) /\ new.fresh = t.fresh /\ new # Idle
    <2> HIDE DEF latest
    <2> QED BY <1>1, <1>2 DEF Idle
  <1>8. /\ DOMAIN latest = DOMAIN t.latest \cup DOMAIN x
        /\ \A y \in DOMAIN latest : latest[y] = IF y \in DOMAIN x THEN x[y] ELSE t.latest[y]
    BY DEF Insert
  <1> HIDE DEF new, latest, m
  <1>9. Row(t.op, "project") = [totals |-> project, activities |-> activities]
    BY DEF Row
  <1>10. /\ "block" \in DOMAIN latest =>
               latest["block"] = MergedBlock(t.op, t.row["block"], blocks[t.op.block])
         /\ "project" \in DOMAIN latest =>
               latest["project"] = MergedProject(t.op, t.row, Row(t.op, "project"))
    BY <1>2, <1>5, <1>8, <1>9 DEF UpToDate
  <1>11. DOMAIN latest \cup Named(new.todo) = Named(m)
    <2>1. DOMAIN t.latest \cup Named(t.todo) = Named(m)
      BY <1>1, <1>2 DEF UpToDate, m
    <2>2. Named(t.todo) = {Head(t.todo)} \cup Named(Tail(t.todo))
      <3>1. \/ t.todo = m
            \/ Len(m) = 2 /\ t.todo = <<m[2]>>
        BY <1>1, <1>3 DEF Merging, m
      <3>2. CASE t.todo = m /\ Len(m) = 1
        BY <1>4, <3>2 DEF Named
      <3>3. CASE t.todo = m /\ Len(m) = 2
        BY <1>4, <3>3 DEF Named
      <3>4. CASE t.todo = <<m[2]>>
        BY <3>4 DEF Named
      <3> QED BY <1>4, <3>1, <3>2, <3>3, <3>4
    <2> QED BY <1>6, <1>7, <1>8, <2>1, <2>2
  <1>12. UpToDate(new)
    BY <1>2, <1>7, <1>10, <1>11 DEF UpToDate, m
  <1>13. lastId' = Len(requests) + Drawn(new)
    BY <1>1, <1>2, <1>7 DEF Drawn
  <1> QED BY <1>1, <1>12, <1>13, AloneMoves

-----------------------------------------------------------------------------
(* A commit of the only client *)

\* A block all of whose changed fields are written is written whole.
LEMMA WrittenWhole ==
    ASSUME NEW op, NEW b, b = [f \in Fields |-> b[f]],
           NEW c, c = NewContent(op, b), c = [f \in Fields |-> c[f]],
           \A f \in Fields : f \in WrittenFields(op, b) \/ c[f] = b[f]
    PROVE  MergedBlock(op, b, b) = c
  <1> DEFINE w == WrittenFields(op, b)
             m == [f \in DOMAIN b |-> IF f \in w THEN NewContent(op, b)[f] ELSE b[f]]
  <1>1. MergedBlock(op, b, b) = m
    BY DEF MergedBlock
  <1> HIDE DEF w
  <1>2. DOMAIN b = Fields
    OBVIOUS
  <1>3. \A f \in Fields : m[f] = c[f]
    BY <1>2 DEF w
  <1>4. m = [f \in Fields |-> m[f]]
    BY <1>2
  <1> HIDE DEF m
  <1> QED BY <1>1, <1>3, <1>4

\* The block an operation computes, where the latest row is the one first read.
LEMMA MergedIsContent ==
    ASSUME NEW op, op.kind \in OnBlock, NEW b, b = [f \in Fields |-> b[f]],
           NEW k, k = RecordIndex(b, op.req)
    PROVE  MergedBlock(op, b, b) = NewContent(op, b)
  <1> DEFINE c == NewContent(op, b)
             w == WrittenFields(op, b)
  <1> SUFFICES /\ c = [f \in Fields |-> c[f]]
               /\ \A f \in Fields : f \in w \/ c[f] = b[f]
    <2>1. ASSUME c = [f \in Fields |-> c[f]], \A f \in Fields : f \in w \/ c[f] = b[f]
          PROVE  MergedBlock(op, b, b) = c
      <3> SUFFICES ASSUME NEW x, x = c PROVE MergedBlock(op, b, b) = x
        OBVIOUS
      <3>1. x = [f \in Fields |-> x[f]] /\ \A f \in Fields : f \in w \/ x[f] = b[f]
        BY <2>1
      <3> HIDE DEF c
      <3>2. x = NewContent(op, b)
        BY DEF c
      <3> QED BY <3>1, <3>2, WrittenWhole
    <2> QED BY <2>1
  <1>1. CASE op.kind = "Transfer"
    <2>1. c = IF TakesWhole(b, op.n) THEN TransferredWhole(b, op.to) ELSE Retained(b, op.n)
      BY <1>1 DEF NewContent
    <2>2. w = Fields
      BY <1>1 DEF WrittenFields
    <2> HIDE DEF c, w
    <2>3. c = [f \in Fields |-> c[f]]
      BY <2>1 DEF TransferredWhole, Retained
    <2> QED BY <2>2, <2>3
  <1>2. CASE op.kind = "Request"
    <2>1. c = WithRequest(b, op.id, op.type, op.n)
      BY <1>2 DEF NewContent
    <2>2. w = {"reserved", "records"}
      BY <1>2 DEF WrittenFields
    <2> HIDE DEF c, w
    <2> QED BY <2>1, <2>2 DEF WithRequest, Fields
  <1>3. ASSUME op.kind \in {"Decline", "Retire", "Authorize"},
               NEW d, NEW status, d = Settled(b, k, status)
        PROVE  /\ d = [f \in Fields |-> d[f]]
               /\ \A f \in Fields : f \in {"reserved", "records"} \/ d[f] = b[f]
    <2> DEFINE rs == [b.records EXCEPT ![k].status = status]
               n == b.reserved - b.records[k].amount
    <2>1. d = [b EXCEPT !.reserved = n, !.records = rs]
      BY <1>3 DEF Settled
    <2> HIDE DEF rs, n
    <2> QED BY <2>1 DEF Fields
  <1>4. CASE op.kind = "Decline"
    <2>1. c = Settled(b, k, op.status)
      BY <1>4 DEF NewContent
    <2>2. w = {"reserved", "records"}
      BY <1>4 DEF WrittenFields
    <2> HIDE DEF c, w
    <2> QED BY <1>3, <1>4, <2>1, <2>2
  <1>5. CASE op.kind = "Retire"
    <2> SUFFICES ASSUME NEW d, d = Settled(b, k, "Completed")
                 PROVE  /\ c = [f \in Fields |-> c[f]]
                        /\ \A f \in Fields : f \in w \/ c[f] = b[f]
      OBVIOUS
    <2>1. /\ d = [f \in Fields |-> d[f]]
          /\ \A f \in Fields : f \in {"reserved", "records"} \/ d[f] = b[f]
      BY <1>3, <1>5
    <2>2. CASE CoversBlock(b, k)
      <3>1. c = [d EXCEPT !.owner = NoCompany, !.isNotTransferred = FALSE, !.account = op.account]
        BY <1>5, <2>2 DEF NewContent, RetiredWhole
      <3>2. w = {"reserved", "records"} \cup {"owner", "isNotTransferred", "account"}
        BY <1>5, <2>2 DEF WrittenFields
      <3> HIDE DEF c, w
      <3> QED BY <2>1, <3>1, <3>2 DEF Fields
    <2>3. CASE ~CoversBlock(b, k)
      <3> DEFINE n == b.records[k].amount
                 e == IF d.itmoEnd = 0 THEN 0 ELSE d.itmoEnd - n
                 p == Retained(d, n)
      <3>1. c = [p EXCEPT !.itmoEnd = IF @ = 0 THEN 0 ELSE @ - n]
        BY <1>5, <2>3 DEF NewContent, RetiredRest
      <3>2. /\ p = [f \in Fields |-> p[f]] /\ p.itmoEnd = d.itmoEnd
            /\ \A f \in Fields : f \in {"end", "amount"} \/ p[f] = d[f]
        <4> HIDE DEF n
        <4> QED BY <2>1 DEF Retained, Fields
      <3>3. c = [p EXCEPT !.itmoEnd = e]
        <4> HIDE DEF p, c, n
        <4> QED BY <3>1, <3>2
      <3>4. d.itmoEnd = b.itmoEnd
        BY <2>1 DEF Fields
      <3>5. w = {"reserved", "records"} \cup {"end", "amount"}
                  \cup (IF b.itmoEnd # 0 THEN {"itmoEnd"} ELSE {})
        BY <1>5, <2>3 DEF WrittenFields
      <3> HIDE DEF c, w, p, n
      <3>6. c = [f \in Fields |-> c[f]]
        BY <3>2, <3>3
      <3>7. /\ \A f \in Fields : f = "itmoEnd" \/ c[f] = p[f]
            /\ b.itmoEnd = 0 => c.itmoEnd = 0
        BY <3>2, <3>3, <3>4 DEF Fields
      <3> QED BY <2>1, <3>2, <3>5, <3>6, <3>7
    <2> QED BY <2>2, <2>3
  <1>6. CASE op.kind = "Authorize"
    <2> SUFFICES ASSUME NEW d, d = Settled(b, k, "Completed")
                 PROVE  /\ c = [f \in Fields |-> c[f]]
                        /\ \A f \in Fields : f \in w \/ c[f] = b[f]
      OBVIOUS
    <2>1. /\ d = [f \in Fields |-> d[f]]
          /\ \A f \in Fields : f \in {"reserved", "records"} \/ d[f] = b[f]
      BY <1>3, <1>6
    <2>2. CASE CoversBlock(b, k)
      <3>1. c = [d EXCEPT !.itmo = b.records[k].id, !.itmoEnd = b.end]
        BY <1>6, <2>2 DEF NewContent, AuthorizedWhole
      <3>2. w = {"reserved", "records"} \cup {"itmo", "itmoEnd"}
        BY <1>6, <2>2 DEF WrittenFields
      <3> HIDE DEF c, w
      <3> QED BY <2>1, <3>1, <3>2 DEF Fields
    <2>3. CASE ~CoversBlock(b, k)
      <3> DEFINE n == b.records[k].amount
      <3>1. c = Retained(d, n)
        BY <1>6, <2>3 DEF NewContent
      <3>2. w = {"reserved", "records"} \cup {"end", "amount"}
        BY <1>6, <2>3 DEF WrittenFields
      <3> HIDE DEF c, w, n
      <3> QED BY <2>1, <3>1, <3>2 DEF Retained, Fields
    <2> QED BY <2>2, <2>3
  <1> QED BY <1>1, <1>2, <1>4, <1>5, <1>6 DEF OnBlock

\* The only client commits what the tables hold, with its changes.
LEMMA CommitTables ==
    ASSUME IInv, InOrder, Alone, NEW c \in Clients, NEW t, t = txn[c],
           t.pc = "merge", t.todo = <<>>, NEW op, op = t.op
    PROVE  /\ OpOK(op) /\ op.kind \in Operation /\ Granted(op) /\ LedgerAllows(op, t.row)
           /\ t # Idle /\ lastId = Len(requests) + Drawn(t)
           /\ op.kind \in OnBlock =>
                /\ op.block \in DOMAIN blocks /\ "block" \in DOMAIN t.latest
                /\ t.row["block"] = blocks[op.block]
                /\ t.latest["block"] = NewContent(op, blocks[op.block])
           /\ op.kind \notin OnBlock => "block" \notin DOMAIN t.latest
           /\ op.kind \in {"Transfer", "Issue", "Monitoring", "Retire"} =>
                t.row["project"] = [totals |-> project, activities |-> activities]
           /\ op.kind = "Issue" => t.row["company"] = companyCredit
           /\ "project" \in DOMAIN t.latest <=>
                \/ op.kind \in {"Issue", "Monitoring"}
                \/ op.kind \in {"Transfer", "Retire"} /\ blocks[op.block].isNotTransferred
           /\ "project" \in DOMAIN t.latest =>
                t.latest["project"]
                    = MergedProject(op, t.row, [totals |-> project, activities |-> activities])
  <1>1. /\ Open(t) /\ OpOK(op) /\ UpToDate(t) /\ t # Idle /\ op.kind \in Operation
        /\ lastId = Len(requests) + Drawn(t)
    BY AloneFacts DEF OpOK
  <1>2. Merging(t) /\ LedgerAllows(op, t.row)
    BY MergingFacts
  <1> DEFINE reads == Named(Reads(op))
             m == Merges(op, t.row)
  <1>3. /\ "block" \in reads <=> op.kind \in OnBlock
        /\ op.kind \in {"Transfer", "Issue", "Monitoring", "Retire"} <=> "project" \in reads
        /\ op.kind = "Issue" <=> "company" \in reads
    BY <1>1, TablesRead
  <1>4. DOMAIN t.row = reads
    BY <1>2 DEF Merging
  <1> HIDE DEF reads, m
  <1>5. \A x \in DOMAIN t.row : t.row[x] = Row(op, x)
    BY <1>1 DEF UpToDate
  <1>6. op.kind \in OnBlock => op.block \in DOMAIN blocks /\ t.row["block"] = blocks[op.block]
    BY <1>1, <1>3, <1>4, <1>5 DEF OpOK, Row
  <1>7. /\ op.kind \in {"Transfer", "Issue", "Monitoring", "Retire"} =>
             t.row["project"] = [totals |-> project, activities |-> activities]
        /\ op.kind = "Issue" => t.row["company"] = companyCredit
    BY <1>3, <1>4, <1>5 DEF Row
  <1>8. DOMAIN t.latest = Named(m)
    <2>1. Named(t.todo) = {}
      BY DEF Named
    <2> QED BY <1>1, <2>1 DEF UpToDate, m
  <1>9. "block" \in Named(m) <=> op.kind \in OnBlock
    BY <1>1, TablesMerged DEF m
  <1>10. "project" \in Named(m) <=>
            \/ op.kind \in {"Issue", "Monitoring"}
            \/ op.kind \in {"Transfer", "Retire"} /\ blocks[op.block].isNotTransferred
    <2>1. CASE op.kind \in {"Issue", "Monitoring"}
      <3>1. m = <<"project">>
        BY <2>1 DEF m, Merges
      <3> QED BY <2>1, <3>1 DEF Named
    <2>2. CASE op.kind \in {"Transfer", "Retire"} /\ blocks[op.block].isNotTransferred
      <3>1. t.row["block"].isNotTransferred
        BY <1>6, <2>2 DEF OnBlock
      <3>2. m = <<"block", "project">> \/ m = <<"project", "block">>
        BY <2>2, <3>1 DEF m, Merges
      <3>3. CASE m = <<"block", "project">>
        BY <2>2, <3>3 DEF Named
      <3>4. CASE m = <<"project", "block">>
        BY <2>2, <3>4 DEF Named
      <3> QED BY <3>2, <3>3, <3>4
    <2>3. CASE op.kind \in {"Transfer", "Retire"} /\ ~blocks[op.block].isNotTransferred
      <3>1. ~t.row["block"].isNotTransferred
        BY <1>6, <2>3 DEF OnBlock
      <3>2. m = <<"block">>
        BY <2>3, <3>1 DEF m, Merges
      <3> QED BY <2>3, <3>2 DEF Named
    <2>4. CASE op.kind \in {"Request", "Authorize", "Decline"}
      <3>1. m = <<"block">>
        BY <2>4 DEF m, Merges
      <3> QED BY <2>4, <3>1 DEF Named
    <2> QED BY <1>1, <2>1, <2>2, <2>3, <2>4 DEF Operation
  <1>11. op.kind \in OnBlock => t.latest["block"] = NewContent(op, blocks[op.block])
    <2> SUFFICES ASSUME op.kind \in OnBlock, NEW b, b = blocks[op.block],
                        NEW k, k = RecordIndex(b, op.req)
                 PROVE  t.latest["block"] = NewContent(op, b)
      OBVIOUS
    <2>1. t.latest["block"] = MergedBlock(op, b, b)
      BY <1>1, <1>6, <1>8, <1>9 DEF UpToDate
    <2>2. b \in CreditBlock
      BY <1>6, BlockFacts
    <2>3. b = [f \in Fields |-> b[f]]
      BY <2>2 DEF CreditBlock, Fields
    <2> QED BY <2>1, <2>3, MergedIsContent
  <1>12. "project" \in DOMAIN t.latest =>
            t.latest["project"]
                = MergedProject(op, t.row, [totals |-> project, activities |-> activities])
    BY <1>1 DEF UpToDate, Row
  <1> QED BY <1>1, <1>2, <1>6, <1>7, <1>8, <1>9, <1>10, <1>11, <1>12 DEF UpToDate

LEMMA InsertNone ==
    ASSUME NEW table, table = [i \in DOMAIN table |-> table[i]]
    PROVE  Insert(table, <<>>) = table
  <1>1. Insert(table, <<>>) = [i \in DOMAIN table |-> table[i]]
    BY DEF Insert
  <1> QED BY <1>1

LEMMA InsertSplits ==
    ASSUME NEW table, NEW s \in DOMAIN table, NEW p, NEW f, NEW child
    PROVE  Insert([table EXCEPT ![s] = p], Only(f, child)) = Split(table, s, p, f, child)
  <1> DEFINE x == Insert([table EXCEPT ![s] = p], Only(f, child))
             y == Split(table, s, p, f, child)
  <1>1. /\ x = [i \in DOMAIN table \cup {f} |-> x[i]]
        /\ \A i \in DOMAIN table \cup {f} :
             x[i] = IF i = f THEN child ELSE [table EXCEPT ![s] = p][i]
    BY DEF Insert, Only
  <1>2. /\ y = [i \in DOMAIN table \cup {f} |-> y[i]]
        /\ \A i \in DOMAIN table \cup {f} :
             y[i] = IF i = f THEN child ELSE IF i = s THEN p ELSE table[i]
    BY DEF Split
  <1> HIDE DEF x, y
  <1>3. \A i \in DOMAIN table \cup {f} : x[i] = y[i]
    BY <1>1, <1>2
  <1>4. x = y
    BY <1>1, <1>2, <1>3
  <1> QED BY <1>4 DEF x, y

\* What a commit on a block writes.
LEMMA CommitOnBlock ==
    ASSUME IInv, InOrder, Alone, NEW c \in Clients, Commit(c), NEW op, op = txn[c].op,
           op.kind \in OnBlock, NEW b, b = blocks[op.block]
    PROVE  /\ op.block \in DOMAIN blocks /\ Granted(op) /\ OpOK(op)
           /\ ~Splits(op, b) => blocks' = [blocks EXCEPT ![op.block] = NewContent(op, b)]
           /\ Splits(op, b) =>
                blocks' = Insert([blocks EXCEPT ![op.block] = NewContent(op, b)], ChildOf(op, b))
           /\ op.kind \in {"Request", "Authorize", "Decline"} => project' = project
           /\ UNCHANGED <<companyCredit, activity, report, caStatus, current>>
  <1> SUFFICES ASSUME NEW t, t = txn[c] PROVE
           /\ op.block \in DOMAIN blocks /\ Granted(op) /\ OpOK(op)
           /\ ~Splits(op, b) => blocks' = [blocks EXCEPT ![op.block] = NewContent(op, b)]
           /\ Splits(op, b) =>
                blocks' = Insert([blocks EXCEPT ![op.block] = NewContent(op, b)], ChildOf(op, b))
           /\ op.kind \in {"Request", "Authorize", "Decline"} => project' = project
           /\ UNCHANGED <<companyCredit, activity, report, caStatus, current>>
    OBVIOUS
  <1>1. t.pc = "merge" /\ t.todo = <<>> /\ op.kind \notin {"Issue", "Monitoring"}
    BY DEF Commit, OnBlock
  <1>2. /\ OpOK(op) /\ Granted(op) /\ op.block \in DOMAIN blocks /\ "block" \in DOMAIN t.latest
        /\ t.row["block"] = b /\ t.latest["block"] = NewContent(op, b)
        /\ op.kind \in {"Request", "Authorize", "Decline"} => "project" \notin DOMAIN t.latest
    BY <1>1, CommitTables
  <1>3. /\ blocks' = Insert([blocks EXCEPT ![op.block] = t.latest["block"]],
                            NewBlockRows(op, t.row))
        /\ "project" \notin DOMAIN t.latest => project' = project
        /\ companyCredit' = companyCredit /\ caStatus' = caStatus
        /\ ReplicateActivity(op, "project" \in DOMAIN t.latest)
    BY <1>1, <1>2 DEF Commit
  <1>4. NewBlockRows(op, t.row) = IF Splits(op, b) THEN ChildOf(op, b) ELSE <<>>
    BY <1>1, <1>2 DEF NewBlockRows
  <1>5. UNCHANGED <<activity, report, current>>
    BY <1>1, <1>3 DEF ReplicateActivity, GuardedByTxTime
  <1>6. ~Splits(op, b) => blocks' = [blocks EXCEPT ![op.block] = NewContent(op, b)]
    <2> DEFINE table == [blocks EXCEPT ![op.block] = NewContent(op, b)]
    <2>1. table = [i \in DOMAIN table |-> table[i]]
      OBVIOUS
    <2>2. ~Splits(op, b) => blocks' = Insert(table, <<>>)
      BY <1>2, <1>3, <1>4
    <2> HIDE DEF table
    <2>3. ~Splits(op, b) => blocks' = table
      BY <2>1, <2>2, InsertNone
    <2> QED BY <2>3 DEF table
  <1> QED BY <1>2, <1>3, <1>4, <1>5, <1>6

LEMMA CommitSplits ==
    ASSUME IInv, InOrder, Alone, NEW c \in Clients, Commit(c), NEW op, op = txn[c].op,
           op.kind \in OnBlock, NEW b, b = blocks[op.block], Splits(op, b),
           NEW p, NewContent(op, b) = p, NEW f, NEW child, ChildOf(op, b) = Only(f, child)
    PROVE  blocks' = Split(blocks, op.block, p, f, child)
  <1>1. op.block \in DOMAIN blocks
    BY CommitOnBlock
  <1>2. blocks' = Insert([blocks EXCEPT ![op.block] = p], Only(f, child))
    BY CommitOnBlock
  <1> QED BY <1>1, <1>2, InsertSplits

\* Project totals are read and written within the commit's own operation.
LEMMA CommitDebit ==
    ASSUME IInv, InOrder, Alone, NEW c \in Clients, Commit(c), NEW op, op = txn[c].op,
           op.kind \in {"Transfer", "Retire"}, NEW b, b = blocks[op.block]
    PROVE  project' = Debit(b, Part(op, b), IF op.kind = "Transfer" THEN "transferred" ELSE "retired")
  <1> SUFFICES ASSUME NEW t, t = txn[c], NEW n, n = Part(op, b),
                      NEW p, p = [totals |-> project, activities |-> activities],
                      NEW m, m = MergedProject(op, t.row, p)
               PROVE  project' = Debit(b, n, IF op.kind = "Transfer" THEN "transferred" ELSE "retired")
    OBVIOUS
  <1>1. t.pc = "merge" /\ t.todo = <<>>
    BY DEF Commit
  <1>2. /\ t.row["project"] = p /\ t.row["block"] = b
        /\ "project" \in DOMAIN t.latest <=> b.isNotTransferred
        /\ "project" \in DOMAIN t.latest => t.latest["project"] = m
    BY <1>1, CommitTables DEF OnBlock
  <1>3. IF "project" \in DOMAIN t.latest THEN project' = t.latest["project"].totals
                                         ELSE project' = project
    BY DEF Commit
  <1>4. project \in ProjectRow /\ p.totals = project
    BY DEF IInv, RowsTyped
  <1>5. CASE ~b.isNotTransferred
    BY <1>2, <1>3, <1>5 DEF Debit
  <1>6. CASE b.isNotTransferred /\ op.kind = "Transfer"
    <2>1. n = op.n
      BY <1>6 DEF Part
    <2>2. m = [p EXCEPT !.totals.balance = p.totals.balance - n,
                        !.totals.transferred = p.totals.transferred + n]
      BY <1>2, <1>6, <2>1 DEF MergedProject
    <2> DEFINE q == [project EXCEPT !.balance = project.balance - n,
                                    !.transferred = project.transferred + n]
    <2>3. m = [p EXCEPT !.totals = q]
      BY <1>4, <2>2
    <2>4. m.totals = q
      <3> HIDE DEF q
      <3> QED BY <2>3
    <2>5. Debit(b, n, "transferred") = q
      BY <1>4, <1>6 DEF Debit, ProjectRow
    <2> HIDE DEF q
    <2> QED BY <1>2, <1>3, <1>6, <2>4, <2>5
  <1>7. CASE b.isNotTransferred /\ op.kind = "Retire"
    <2>1. n = b.records[RecordIndex(b, op.req)].amount
      BY <1>7 DEF Part
    <2>2. m = [p EXCEPT !.totals.balance = p.totals.balance - n,
                        !.totals.retired = p.totals.retired + n]
      BY <1>2, <1>7, <2>1 DEF MergedProject
    <2> DEFINE q == [project EXCEPT !.balance = project.balance - n,
                                    !.retired = project.retired + n]
    <2>3. m = [p EXCEPT !.totals = q]
      BY <1>4, <2>2
    <2>4. m.totals = q
      <3> HIDE DEF q
      <3> QED BY <2>3
    <2>5. Debit(b, n, "retired") = q
      BY <1>4, <1>7 DEF Debit, ProjectRow
    <2> HIDE DEF q
    <2> QED BY <1>2, <1>3, <1>7, <2>4, <2>5
  <1> QED BY <1>5, <1>6, <1>7

\* Transfers.
LEMMA TransferCommit ==
    ASSUME IInv, InOrder, Alone, NEW c \in Clients, Commit(c), NEW op, op = txn[c].op,
           op.kind = "Transfer"
    PROVE  Next /\ lastId' = Len(requests')
  <1> SUFFICES ASSUME NEW b, b = blocks[op.block], NEW s, s = op.block,
                      NEW n, n = op.n, NEW to, to = op.to
               PROVE  Next /\ lastId' = Len(requests')
    OBVIOUS
  <1>1. /\ s \in DOMAIN blocks /\ Granted(op)
        /\ ~Splits(op, b) => blocks' = [blocks EXCEPT ![s] = NewContent(op, b)]
        /\ Splits(op, b) => blocks' = Insert([blocks EXCEPT ![s] = NewContent(op, b)], ChildOf(op, b))
        /\ UNCHANGED <<companyCredit, activity, report, caStatus, current>>
    BY CommitOnBlock DEF OnBlock
  <1>2. project' = Debit(b, n, "transferred")
    BY CommitDebit DEF Part
  <1>3. requests' = requests /\ lastId' = lastId /\ txn[c].pc = "merge" /\ txn[c].todo = <<>>
    BY DEF Commit, Replicate
  <1>4. n \in 1 .. b.amount /\ to \in Developers /\ CanTransfer(b, n, to)
    BY <1>1 DEF Granted
  <1>5. TakesWhole(b, n) \/ CanSplit(s, b, n)
    <2>1. LedgerAllows(op, txn[c].row) /\ txn[c].row["block"] = b
      BY <1>3, CommitTables DEF OnBlock
    <2> QED BY <2>1, AllowedOnBlock DEF OnBlock
  <1>6. Splits(op, b) <=> ~TakesWhole(b, n)
    BY DEF Splits
  <1>7. TransferWhole(s, n, to) \/ TransferPart(s, n, to)
    <2>1. CASE TakesWhole(b, n)
      <3>1. NewContent(op, b) = TransferredWhole(b, to)
        BY <2>1 DEF NewContent
      <3> QED BY <1>1, <1>2, <1>3, <1>4, <1>6, <2>1, <3>1 DEF TransferWhole
    <2>2. CASE ~TakesWhole(b, n)
      <3>1. NewContent(op, b) = Retained(b, n)
        BY <2>2 DEF NewContent
      <3>2. ChildOf(op, b) = Only(SecondStart(b, n), TransferredPart(b, n, to))
        BY DEF ChildOf
      <3>3. blocks' = Split(blocks, s, Retained(b, n), SecondStart(b, n), TransferredPart(b, n, to))
        BY <1>1, <1>6, <2>2, <3>1, <3>2, InsertSplits
      <3> QED BY <1>1, <1>2, <1>3, <1>4, <1>5, <2>2, <3>3 DEF TransferPart
    <2> QED BY <2>1, <2>2
  <1>8. BlockOperation(s)
    BY <1>4, <1>7 DEF BlockOperation
  <1>9. lastId = Len(requests) + Drawn(txn[c]) /\ Drawn(txn[c]) = 0 /\ lastId \in Nat
    BY <1>3, CommitTables DEF Drawn, InOrder
  <1>10. Len(requests) \in Nat
    BY DEF IInv, RowsTyped
  <1> QED BY <1>1, <1>3, <1>8, <1>9, <1>10 DEF Next

LEMMA InsertAppends ==
    ASSUME NEW S, NEW seq \in Seq(S), NEW q \in S
    PROVE  Insert(seq, Only(Len(seq) + 1, q)) = Append(seq, q)
  <1> DEFINE x == Insert(seq, Only(Len(seq) + 1, q))
             y == Append(seq, q)
             n == Len(seq) + 1
  <1>1. Len(seq) \in Nat /\ DOMAIN seq = 1 .. Len(seq)
    OBVIOUS
  <1>2. y \in Seq(S) /\ Len(y) = n /\ y[n] = q /\ \A i \in 1 .. Len(seq) : y[i] = seq[i]
    OBVIOUS
  <1>3. /\ x = [i \in DOMAIN seq \cup {n} |-> x[i]]
        /\ \A i \in DOMAIN seq \cup {n} : x[i] = IF i = n THEN q ELSE seq[i]
    BY DEF Insert, Only
  <1> HIDE DEF x, y
  <1>4. DOMAIN seq \cup {n} = 1 .. n
    BY <1>1
  <1>5. y = [i \in 1 .. n |-> y[i]]
    BY <1>2
  <1>6. \A i \in 1 .. n : x[i] = y[i]
    BY <1>1, <1>2, <1>3, <1>4
  <1>7. x = y
    BY <1>3, <1>4, <1>5, <1>6
  <1> QED BY <1>7 DEF x, y

\* Requests for a retirement or an authorization.
LEMMA RequestCommit ==
    ASSUME IInv, InOrder, Alone, NEW c \in Clients, Commit(c), NEW op, op = txn[c].op,
           op.kind = "Request"
    PROVE  Next /\ lastId' = Len(requests')
  <1> SUFFICES ASSUME NEW b, b = blocks[op.block], NEW s, s = op.block,
                      NEW n, n = op.n, NEW type, type = op.type, NEW id, id = op.id,
                      NEW sub, sub = op.subType, NEW purpose, purpose = op.purpose
               PROVE  Next /\ lastId' = Len(requests')
    OBVIOUS
  <1>1. /\ s \in DOMAIN blocks /\ Granted(op)
        /\ ~Splits(op, b) => blocks' = [blocks EXCEPT ![s] = NewContent(op, b)]
        /\ project' = project
        /\ UNCHANGED <<companyCredit, activity, report, caStatus, current>>
    BY CommitOnBlock DEF OnBlock
  <1>2. ~Splits(op, b)
    BY DEF Splits
  <1>3. RequestGranted(op, b)
    BY <1>1 DEF Granted
  <1>4. /\ n \in 1 .. Unassigned(b) /\ n \in 1 .. b.amount /\ b.owner \in Developers
        /\ id = Len(requests) + 1 /\ Len(requests) < MaxRequests
        /\ \/ /\ type = "Retired" /\ sub \in UseTypes /\ purpose = "None"
              /\ MayRetireFor(b, sub)
           \/ /\ type = "ItmoAuthorized" /\ sub = "None" /\ purpose \in Purposes
              /\ ~IsItmo(b) /\ b.account = "Holding"
              /\ caStatus = "Active" /\ (purpose = "NDC" => HasCounterparty)
    BY <1>3 DEF RequestGranted
  <1>5. NewContent(op, b) = WithRequest(b, id, type, n)
    BY DEF NewContent
  <1>6. blocks' = [blocks EXCEPT ![s] = WithRequest(b, id, type, n)]
    BY <1>1, <1>2, <1>5
  <1> DEFINE q == [type |-> type, subType |-> sub, purpose |-> purpose, amount |-> n,
                   sender |-> b.owner, block |-> s, status |-> "Pending"]
  <1>7. txn[c].pc = "merge" /\ txn[c].todo = <<>> /\ lastId' = lastId
        /\ Replicate(op, txn[c].latest)
    BY DEF Commit
  <1>8. txn[c].latest["block"].owner = b.owner
    <2>1. txn[c].latest["block"] = WithRequest(b, id, type, n)
      BY <1>5, <1>7, CommitTables DEF OnBlock
    <2>2. b \in CreditBlock
      BY <1>1, BlockFacts
    <2> QED BY <2>1, <2>2 DEF WithRequest, CreditBlock
  <1>9. requests' = Insert(requests, Only(id, q))
    BY <1>7, <1>8 DEF Replicate
  <1>10. q \in Request
    <2>1. s \in Nat /\ n \in Nat \ {0}
      BY <1>1, <1>4, BlockFacts
    <2>2. type \in TxKind /\ sub \in SubTypes \cup {"None"}
          /\ purpose \in AuthorizationPurpose \cup {"None"}
      BY <1>4, LedgerAssumption DEF TxKind
    <2> QED BY <1>4, <2>1, <2>2 DEF Request, TxStatus
  <1>11. requests \in Seq(Request)
    BY DEF IInv, RowsTyped
  <1>12. requests' = NewRequest(type, sub, purpose, n, s)
    <2>1. NewRequest(type, sub, purpose, n, s) = Append(requests, q)
      BY DEF NewRequest
    <2> HIDE DEF q
    <2> QED BY <1>4, <1>9, <1>10, <1>11, <2>1, InsertAppends
  <1>13. Len(requests') = Len(requests) + 1
    <2>1. requests' = Append(requests, q)
      BY <1>12 DEF NewRequest
    <2> HIDE DEF q
    <2> QED BY <1>10, <1>11, <2>1
  <1>14. \/ type = "Retired" /\ AddRetireRequest(s, n, sub)
         \/ type = "ItmoAuthorized" /\ AddItmoAuthRequest(s, n, purpose)
    <2>1. CASE type = "Retired"
      BY <1>1, <1>4, <1>6, <1>12, <2>1 DEF AddRetireRequest
    <2>2. CASE type = "ItmoAuthorized"
      BY <1>1, <1>4, <1>6, <1>12, <2>2 DEF AddItmoAuthRequest
    <2> QED BY <1>4, <2>1, <2>2
  <1>15. BlockOperation(s)
    BY <1>4, <1>14 DEF BlockOperation
  <1>16. lastId = Len(requests) + Drawn(txn[c]) /\ Drawn(txn[c]) = 1
    BY <1>7, CommitTables DEF Drawn
  <1> QED BY <1>1, <1>7, <1>13, <1>15, <1>16 DEF Next

\* A decided request is one the ledger holds as pending.
LEMMA DecisionFacts ==
    ASSUME IInv, InOrder, Alone, NEW c \in Clients, Commit(c), NEW op, op = txn[c].op,
           op.kind \in {"Retire", "Authorize", "Decline"},
           NEW b, b = blocks[op.block], NEW k, k = RecordIndex(b, op.req)
    PROVE  /\ op.req \in DOMAIN requests /\ op.block = requests[op.req].block
           /\ DecisionGranted(op, requests[op.req]) /\ Undecided(op.req, k)
           /\ k \in DOMAIN b.records
           /\ op.kind # "Decline" => CoversBlock(b, k) \/ CanSplit(op.block, b, b.records[k].amount)
           /\ lastId' = Len(requests) /\ requests \in Seq(Request) /\ lastId' \in Nat
  <1>1. txn[c].pc = "merge" /\ txn[c].todo = <<>> /\ lastId' = lastId
    BY DEF Commit
  <1>2. /\ Granted(op) /\ LedgerAllows(op, txn[c].row) /\ op.block \in DOMAIN blocks
        /\ txn[c].row["block"] = b /\ lastId = Len(requests) + Drawn(txn[c])
    BY <1>1, CommitTables DEF OnBlock
  <1>3. /\ PendingIn(b, op.req)
        /\ op.kind \in {"Retire", "Authorize"} => Decidable(op.block, b, op.req)
    BY <1>2, AllowedOnBlock DEF OnBlock
  <1>4. op.req \in DOMAIN requests /\ DecisionGranted(op, requests[op.req])
    BY <1>2 DEF Granted
  <1>5. op.block = requests[op.req].block /\ requests[op.req].status = "Pending"
    BY <1>4 DEF DecisionGranted
  <1>6. k \in DOMAIN b.records /\ b.records[k].id = op.req /\ b.records[k].status = "Pending"
    BY <1>3 DEF PendingIn, RecordIndex
  <1>7. Undecided(op.req, k)
    BY <1>2, <1>5, <1>6 DEF Undecided
  <1>8. op.kind # "Decline" => CoversBlock(b, k) \/ CanSplit(op.block, b, b.records[k].amount)
    BY <1>3 DEF Decidable
  <1>9. requests \in Seq(Request)
    BY DEF IInv, RowsTyped
  <1>10. lastId' = Len(requests) /\ lastId' \in Nat
    <2>1. Drawn(txn[c]) = 0
      BY DEF Drawn
    <2> QED BY <1>1, <1>2, <1>9, <2>1
  <1> QED BY <1>4, <1>5, <1>6, <1>7, <1>8, <1>9, <1>10

LEMMA SameLength ==
    ASSUME NEW S, NEW old \in Seq(S), NEW i \in DOMAIN old, NEW q
    PROVE  Len([old EXCEPT ![i] = q]) = Len(old)
  <1> DEFINE new == [old EXCEPT ![i] = q]
  <1>1. new \in Seq(S \cup {q}) /\ DOMAIN new = 1 .. Len(old)
    OBVIOUS
  <1>2. Len(new) \in Nat /\ DOMAIN new = 1 .. Len(new) /\ Len(old) \in Nat
    BY <1>1
  <1> HIDE DEF new
  <1>3. Len(new) = Len(old)
    BY <1>1, <1>2
  <1> QED BY <1>3 DEF new

\* The row of an accepted request follows the block that carries it.
LEMMA AcceptedRow ==
    ASSUME IInv, InOrder, Alone, NEW c \in Clients, Commit(c), NEW op, op = txn[c].op,
           op.kind \in {"Retire", "Authorize"},
           NEW b, b = blocks[op.block], NEW k, k = RecordIndex(b, op.req),
           NEW f, f = SecondStart(b, b.records[k].amount)
    PROVE  /\ CoversBlock(b, k) => ~Splits(op, b) /\ Complete(op.req, op.block)
           /\ ~CoversBlock(b, k) => Splits(op, b) /\ Complete(op.req, f)
           /\ lastId' = Len(requests')
  <1>1. txn[c].pc = "merge" /\ txn[c].todo = <<>> /\ ReplicateAccepted(op, txn[c].row)
    BY DEF Commit
  <1>2. txn[c].row["block"] = b
    BY <1>1, CommitTables DEF OnBlock
  <1>3. Splits(op, b) <=> ~CoversBlock(b, k)
    BY DEF Splits
  <1> DEFINE child == NewBlockRows(op, txn[c].row)
             s == IF child = <<>> THEN op.block ELSE CHOOSE x \in DOMAIN child : TRUE
  <1>4. requests' = [requests EXCEPT ![op.req].status = "Completed", ![op.req].block = s]
    BY <1>1 DEF ReplicateAccepted
  <1>5. CoversBlock(b, k) => s = op.block
    BY <1>2, <1>3 DEF NewBlockRows
  <1>6. ~CoversBlock(b, k) => s = f
    <2>1. SUFFICES ASSUME ~CoversBlock(b, k) PROVE s = f
      OBVIOUS
    <2>2. child = ChildOf(op, b)
      BY <1>2, <1>3, <2>1 DEF NewBlockRows
    <2>3. \E y : ChildOf(op, b) = Only(f, y)
      BY DEF ChildOf
    <2>4. DOMAIN child = {f}
      BY <2>2, <2>3 DEF Only
    <2> HIDE DEF child
    <2>5. child # <<>>
      <3>1. f \in DOMAIN child
        BY <2>4
      <3>2. ASSUME NEW x, x = <<>> PROVE f \notin DOMAIN x
        BY <3>2
      <3> QED BY <3>1, <3>2
    <2>6. s = CHOOSE x \in {f} : TRUE
      BY <2>4, <2>5
    <2> QED BY <2>6
  <1> HIDE DEF s
  <1>7. /\ CoversBlock(b, k) => Complete(op.req, op.block)
        /\ ~CoversBlock(b, k) => Complete(op.req, f)
    BY <1>4, <1>5, <1>6 DEF Complete
  <1>8. /\ op.req \in DOMAIN requests /\ requests \in Seq(Request) /\ lastId' = Len(requests)
    BY DecisionFacts
  <1>9. Len(requests') = Len(requests)
    <2> DEFINE q == [[requests[op.req] EXCEPT !.status = "Completed"] EXCEPT !.block = s]
    <2>1. requests' = [requests EXCEPT ![op.req] = q]
      BY <1>4
    <2> HIDE DEF q
    <2> QED BY <1>8, <2>1, SameLength
  <1> QED BY <1>3, <1>7, <1>8, <1>9

LEMMA RetireCommit ==
    ASSUME IInv, InOrder, Alone, NEW c \in Clients, Commit(c), NEW op, op = txn[c].op,
           op.kind = "Retire"
    PROVE  Next /\ lastId' = Len(requests')
  <1> SUFFICES ASSUME NEW b, b = blocks[op.block], NEW s, s = op.block, NEW r, r = op.req,
                      NEW k, k = RecordIndex(b, r), NEW n, n = b.records[k].amount
               PROVE  Next /\ lastId' = Len(requests')
    OBVIOUS
  <1>1. /\ s \in DOMAIN blocks
        /\ ~Splits(op, b) => blocks' = [blocks EXCEPT ![s] = NewContent(op, b)]
        /\ Splits(op, b) => blocks' = Insert([blocks EXCEPT ![s] = NewContent(op, b)], ChildOf(op, b))
        /\ UNCHANGED <<companyCredit, activity, report, caStatus, current>>
    BY CommitOnBlock DEF OnBlock
  <1>2. project' = Debit(b, n, "retired")
    BY CommitDebit DEF Part
  <1>3. /\ r \in DOMAIN requests /\ s = requests[r].block /\ Undecided(r, k)
        /\ k \in DOMAIN b.records /\ DecisionGranted(op, requests[r])
        /\ CoversBlock(b, k) \/ CanSplit(s, b, n)
    BY DecisionFacts
  <1>4. /\ CoversBlock(b, k) => ~Splits(op, b) /\ Complete(r, s)
        /\ ~CoversBlock(b, k) => Splits(op, b) /\ Complete(r, SecondStart(b, n))
        /\ lastId' = Len(requests')
    BY AcceptedRow
  <1>5. op.account = MapSubTypeToAccountType(requests[r].subType)
    BY <1>3 DEF DecisionGranted
  <1>6. AcceptRetireWhole(r, k) \/ AcceptRetirePart(r, k)
    <2>1. CASE CoversBlock(b, k)
      <3>1. NewContent(op, b) = RetiredWhole(b, k, op.account)
        BY <2>1 DEF NewContent
      <3> QED BY <1>1, <1>2, <1>3, <1>4, <1>5, <2>1, <3>1 DEF AcceptRetireWhole
    <2>2. CASE ~CoversBlock(b, k)
      <3>1. NewContent(op, b) = RetiredRest(b, k)
        BY <2>2 DEF NewContent
      <3>2. ChildOf(op, b) = Only(SecondStart(b, n), RetiredPart(b, k, op.account))
        BY DEF ChildOf
      <3>3. blocks' = Split(blocks, s, RetiredRest(b, k), SecondStart(b, n),
                            RetiredPart(b, k, op.account))
        <4>1. Splits(op, b)
          BY <1>4, <2>2
        <4>2. op.kind \in OnBlock
          BY DEF OnBlock
        <4> DEFINE p == RetiredRest(b, k)
                   child == RetiredPart(b, k, op.account)
                   f == SecondStart(b, n)
        <4>3. NewContent(op, b) = p /\ ChildOf(op, b) = Only(f, child)
          BY <3>1, <3>2
        <4> HIDE DEF p, child, f
        <4>4. blocks' = Split(blocks, op.block, p, f, child)
          BY <4>1, <4>2, <4>3, CommitSplits
        <4> QED BY <4>4 DEF p, child, f
      <3> QED BY <1>1, <1>2, <1>3, <1>4, <1>5, <2>2, <3>3 DEF AcceptRetirePart
    <2> QED BY <2>1, <2>2
  <1>7. k \in DOMAIN blocks[requests[r].block].records /\ Decision(r, k)
    BY <1>3, <1>6 DEF Decision
  <1> QED BY <1>3, <1>4, <1>7 DEF Next

LEMMA AuthorizeCommit ==
    ASSUME IInv, InOrder, Alone, NEW c \in Clients, Commit(c), NEW op, op = txn[c].op,
           op.kind = "Authorize"
    PROVE  Next /\ lastId' = Len(requests')
  <1> SUFFICES ASSUME NEW b, b = blocks[op.block], NEW s, s = op.block, NEW r, r = op.req,
                      NEW k, k = RecordIndex(b, r), NEW n, n = b.records[k].amount
               PROVE  Next /\ lastId' = Len(requests')
    OBVIOUS
  <1>1. /\ s \in DOMAIN blocks /\ project' = project
        /\ ~Splits(op, b) => blocks' = [blocks EXCEPT ![s] = NewContent(op, b)]
        /\ Splits(op, b) => blocks' = Insert([blocks EXCEPT ![s] = NewContent(op, b)], ChildOf(op, b))
        /\ UNCHANGED <<companyCredit, activity, report, caStatus, current>>
    BY CommitOnBlock DEF OnBlock
  <1>2. /\ r \in DOMAIN requests /\ s = requests[r].block /\ Undecided(r, k)
        /\ k \in DOMAIN b.records /\ DecisionGranted(op, requests[r])
        /\ CoversBlock(b, k) \/ CanSplit(s, b, n)
    BY DecisionFacts
  <1>3. /\ CoversBlock(b, k) => ~Splits(op, b) /\ Complete(r, s)
        /\ ~CoversBlock(b, k) => Splits(op, b) /\ Complete(r, SecondStart(b, n))
        /\ lastId' = Len(requests')
    BY AcceptedRow
  <1>4. CanAuthorize(r, k)
    BY <1>2 DEF DecisionGranted, CanAuthorize
  <1>5. AcceptItmoWhole(r, k) \/ AcceptItmoPart(r, k)
    <2>1. CASE CoversBlock(b, k)
      <3>1. NewContent(op, b) = AuthorizedWhole(b, k)
        BY <2>1 DEF NewContent
      <3> QED BY <1>1, <1>2, <1>3, <1>4, <2>1, <3>1 DEF AcceptItmoWhole
    <2>2. CASE ~CoversBlock(b, k)
      <3>1. NewContent(op, b) = Retained(Settled(b, k, "Completed"), n)
        BY <2>2 DEF NewContent
      <3>2. ChildOf(op, b) = Only(SecondStart(b, n), AuthorizedPart(b, k))
        BY DEF ChildOf
      <3>3. blocks' = Split(blocks, s, Retained(Settled(b, k, "Completed"), n),
                            SecondStart(b, n), AuthorizedPart(b, k))
        <4>1. Splits(op, b)
          BY <1>3, <2>2
        <4>2. op.kind \in OnBlock
          BY DEF OnBlock
        <4> DEFINE p == Retained(Settled(b, k, "Completed"), n)
                   child == AuthorizedPart(b, k)
                   f == SecondStart(b, n)
        <4>3. NewContent(op, b) = p /\ ChildOf(op, b) = Only(f, child)
          BY <3>1, <3>2
        <4> HIDE DEF p, child, f
        <4>4. blocks' = Split(blocks, op.block, p, f, child)
          BY <4>1, <4>2, <4>3, CommitSplits
        <4> QED BY <4>4 DEF p, child, f
      <3> QED BY <1>1, <1>2, <1>3, <1>4, <2>2, <3>3 DEF AcceptItmoPart
    <2> QED BY <2>1, <2>2
  <1>6. k \in DOMAIN blocks[requests[r].block].records /\ Decision(r, k)
    BY <1>2, <1>5 DEF Decision
  <1> QED BY <1>2, <1>3, <1>6 DEF Next

LEMMA DeclineCommit ==
    ASSUME IInv, InOrder, Alone, NEW c \in Clients, Commit(c), NEW op, op = txn[c].op,
           op.kind = "Decline"
    PROVE  Next /\ lastId' = Len(requests')
  <1> SUFFICES ASSUME NEW b, b = blocks[op.block], NEW s, s = op.block, NEW r, r = op.req,
                      NEW k, k = RecordIndex(b, r), NEW status, status = op.status
               PROVE  Next /\ lastId' = Len(requests')
    OBVIOUS
  <1>1. /\ s \in DOMAIN blocks /\ project' = project
        /\ ~Splits(op, b) => blocks' = [blocks EXCEPT ![s] = NewContent(op, b)]
        /\ UNCHANGED <<companyCredit, activity, report, caStatus, current>>
    BY CommitOnBlock DEF OnBlock
  <1>2. ~Splits(op, b)
    BY DEF Splits
  <1>3. /\ r \in DOMAIN requests /\ s = requests[r].block /\ Undecided(r, k)
        /\ k \in DOMAIN b.records /\ DecisionGranted(op, requests[r])
        /\ lastId' = Len(requests) /\ requests \in Seq(Request)
    BY DecisionFacts
  <1>4. requests' = [requests EXCEPT ![r].status = status]
    BY DEF Commit, Replicate
  <1>5. NewContent(op, b) = Settled(b, k, status)
    BY DEF NewContent
  <1>6. status \in {"Rejected", "Cancelled"}
    BY <1>3 DEF DecisionGranted
  <1>7. Decline(r, k, status)
    <2>1. blocks' = [blocks EXCEPT ![s] = Settled(blocks[s], k, status)]
      BY <1>1, <1>2, <1>5
    <2> QED BY <1>1, <1>3, <1>4, <2>1 DEF Decline
  <1>8. k \in DOMAIN blocks[requests[r].block].records /\ Decision(r, k)
    BY <1>3, <1>6, <1>7 DEF Decision
  <1>9. Len(requests') = Len(requests)
    <2> DEFINE q == [requests[r] EXCEPT !.status = status]
    <2>1. requests' = [requests EXCEPT ![r] = q]
      BY <1>4
    <2> HIDE DEF q
    <2> QED BY <1>3, <2>1
  <1> QED BY <1>3, <1>8, <1>9 DEF Next

\* Approvals of a report.
LEMMA ApprovalCommit ==
    ASSUME IInv, InOrder, Alone, NEW c \in Clients, Commit(c), NEW op, op = txn[c].op,
           op.kind \in {"Issue", "Monitoring"}
    PROVE  Next /\ lastId' = Len(requests') /\ current' \in Nat
  <1> SUFFICES ASSUME NEW t, t = txn[c],
                      NEW p, p = [totals |-> project, activities |-> activities],
                      NEW m, m = MergedProject(op, t.row, p)
               PROVE  Next /\ lastId' = Len(requests') /\ current' \in Nat
    OBVIOUS
  <1>1. t.pc = "merge" /\ t.todo = <<>> /\ caStatus' = caStatus /\ lastId' = lastId
    BY DEF Commit
  <1>2. requests' = requests
    BY DEF Commit, Replicate
  <1>3. /\ Granted(op) /\ LedgerAllows(op, t.row) /\ t.row["project"] = p
        /\ op.kind = "Issue" => t.row["company"] = companyCredit
        /\ "project" \in DOMAIN t.latest /\ "block" \notin DOMAIN t.latest
        /\ t.latest["project"] = m
        /\ lastId = Len(requests) + Drawn(t) /\ Drawn(t) = 0
    BY <1>1, CommitTables DEF OnBlock, Drawn
  <1>4. lastId' = Len(requests')
    <2>1. Len(requests) \in Nat
      BY DEF IInv, RowsTyped
    <2> QED BY <1>1, <1>2, <1>3, <2>1
  <1>5. /\ blocks' = Insert(blocks, NewBlockRows(op, t.row)) /\ project' = m.totals
        /\ companyCredit' = IF op.kind = "Issue" THEN companyCredit + Total(op.totals)
                                                 ELSE companyCredit
        /\ ReplicateActivity(op, TRUE)
    BY <1>3 DEF Commit
  <1>6. current \in Nat /\ op.act \in Nat /\ op.act >= current
    BY <1>3 DEF Granted, Alone
  <1>7. /\ activity' = IF op.kind = "Issue" THEN "VerificationVerified" ELSE "MonitoringVerified"
        /\ current' = op.act
        /\ report' = IF op.kind = "Issue" THEN <<>> ELSE report
    BY <1>5, <1>6 DEF ReplicateActivity, GuardedByTxTime
  <1>8. project \in ProjectRow /\ p.totals = project
    BY DEF IInv, RowsTyped
  <1>9. CASE op.kind = "Monitoring"
    <2>1. NewBlockRows(op, t.row) = <<>>
      BY <1>9 DEF NewBlockRows
    <2>2. blocks' = blocks
      BY <1>5, <2>1, InsertNone DEF IInv, SoundTable
    <2>3. project' = project
      <3>1. m.totals = p.totals
        BY <1>9 DEF MergedProject
      <3> QED BY <1>5, <1>8, <3>1
    <2>4. VerifyMonitoring
      BY <1>1, <1>2, <1>3, <1>5, <1>7, <1>9, <2>2, <2>3 DEF VerifyMonitoring, Granted
    <2> QED BY <1>4, <1>6, <1>7, <2>4 DEF Next, Issuance
  <1>10. CASE op.kind = "Issue"
    <2>1. activity = "VerificationUploaded" /\ op.totals = report
      BY <1>3, <1>10 DEF Granted
    <2>2. blocks' = Insert(blocks, NewBlocks(report, project.issued, ProjectOwner))
      <3>1. t.row["project"].totals.issued = project.issued
        BY <1>3, <1>8
      <3>2. NewBlockRows(op, t.row)
                = NewBlocks(op.totals, t.row["project"].totals.issued, ProjectOwner)
        <4>1. ~Splits(op, t.row["block"])
          BY <1>10 DEF Splits
        <4> QED BY <1>10, <4>1 DEF NewBlockRows
      <3> QED BY <1>5, <2>1, <3>1, <3>2
    <2>3. WithinEstimate(Total(report))
      BY <1>3, <1>8, <1>10, <2>1 DEF LedgerAllows, WithinEstimate
    <2>4. project' = [project EXCEPT !.issued = project.issued + Total(report),
                                     !.balance = project.balance + Total(report)]
      <3>1. m.totals = [p.totals EXCEPT !.issued = p.totals.issued + Total(op.totals),
                                        !.balance = p.totals.balance + Total(op.totals)]
        BY <1>3, <1>10 DEF MergedProject
      <3> QED BY <1>5, <1>8, <2>1, <3>1
    <2>5. project' = [project EXCEPT !.issued = @ + Total(report), !.balance = @ + Total(report)]
      BY <1>8, <2>4 DEF ProjectRow
    <2>6. IssueCredits
      BY <1>1, <1>2, <1>5, <1>7, <1>10, <2>1, <2>2, <2>3, <2>5 DEF IssueCredits
    <2> QED BY <1>4, <1>6, <1>7, <2>6 DEF Next, Issuance
  <1> QED BY <1>9, <1>10

LEMMA CommitSimulates ==
    ASSUME IInv, InOrder, Alone, NEW c \in Clients, Commit(c)
    PROVE  Next /\ lastId' = Len(requests') /\ current' \in Nat
  <1> SUFFICES ASSUME NEW op, op = txn[c].op
               PROVE  Next /\ lastId' = Len(requests') /\ current' \in Nat
    OBVIOUS
  <1>1. op.kind \in Operation
    <2>1. txn[c].pc = "merge" /\ txn[c].todo = <<>>
      BY DEF Commit
    <2> QED BY <2>1, CommitTables
  <1>2. CASE op.kind \in OnBlock
    <2>1. current' = current /\ current \in Nat
      BY <1>2, CommitOnBlock DEF Alone
    <2>2. Next /\ lastId' = Len(requests')
      BY <1>2, TransferCommit, RequestCommit, RetireCommit, AuthorizeCommit, DeclineCommit
         DEF OnBlock
    <2> QED BY <2>1, <2>2
  <1>3. CASE op.kind \in {"Issue", "Monitoring"}
    BY <1>3, ApprovalCommit
  <1> QED BY <1>1, <1>2, <1>3 DEF Operation, OnBlock

LEMMA CommitAlone ==
    ASSUME OneClient, IInv, InOrder, Alone, NEW c \in Clients, Commit(c)
    PROVE  Alone'
  <1>1. lastId' = Len(requests') /\ current' \in Nat /\ lastId' = lastId /\ lastId \in Nat
    BY CommitSimulates DEF Commit, InOrder
  <1>2. \A d \in Clients : d = c
    BY DEF OneClient
  <1>3. txn' = [d \in Clients |->
                  IF d = c THEN Idle
                  ELSE IF "project" \in DOMAIN txn[c].latest /\ Busy(d) /\ "project" \in DOMAIN txn[d].row
                  THEN [txn[d] EXCEPT !.fresh = FALSE] ELSE txn[d]]
    BY DEF Commit
  <1>4. \A d \in Clients : txn'[d] = Idle
    BY <1>2, <1>3
  <1>5. Drawn(Idle) = 0
    BY DEF Drawn
  <1>6. lastId' = Len(requests') + Drawn(Idle)
    BY <1>1, <1>5
  <1>7. ASSUME NEW d \in Clients
        PROVE  (txn[d] = Idle \/ UpToDate(txn[d]))' /\ lastId' = Len(requests') + Drawn(txn'[d])
    BY <1>4, <1>6
  <1> QED BY <1>1, <1>7 DEF Alone

LEMMA DirectAlone ==
    ASSUME OneClient, InOrder, Alone, NEW c \in Clients, Direct(c)
    PROVE  Alone' /\ Next
  <1>1. UNCHANGED <<requests, current, txn, lastId>>
    BY DEF Direct, UploadVerification, RejectVerification, MarkSubmitted, UpdateApproach
  <1>2. Next
    BY DEF Direct, Next, Issuance
  <1>3. txn[c] = Idle
    <2>1. txn[c] = Idle \/ Open(txn[c])
      BY DEF InOrder
    <2> QED BY <2>1 DEF Direct, Busy, Open
  <1>4. ASSUME NEW d \in Clients
        PROVE  (txn[d] = Idle \/ UpToDate(txn[d]))' /\ lastId' = Len(requests') + Drawn(txn'[d])
    <2>1. d = c
      BY DEF OneClient
    <2>2. txn'[d] = Idle
      BY <1>1, <1>3, <2>1
    <2>3. lastId' = Len(requests') + Drawn(txn[d])
      BY <1>1 DEF Alone
    <2> QED BY <1>1, <2>2, <2>3
  <1> QED BY <1>1, <1>2, <1>4 DEF Alone

LEMMA StutterAlone ==
    ASSUME Alone, UNCHANGED tvars
    PROVE  Alone'
  <1>1. UNCHANGED <<vars, activities, current>> /\ UNCHANGED <<requests, current, txn, lastId>>
    BY DEF tvars, vars
  <1>2. ASSUME NEW d \in Clients
        PROVE  (txn[d] = Idle \/ UpToDate(txn[d]))' /\ lastId' = Len(requests') + Drawn(txn'[d])
    <2> SUFFICES ASSUME NEW t, t = txn[d]
                 PROVE  (txn[d] = Idle \/ UpToDate(txn[d]))'
                        /\ lastId' = Len(requests') + Drawn(txn'[d])
      OBVIOUS
    <2>1. txn'[d] = t /\ (t = Idle \/ UpToDate(t)) /\ lastId' = Len(requests') + Drawn(t)
      BY <1>1 DEF Alone
    <2>2. t = Idle \/ UpToDate(t)'
      BY <1>1, <2>1, SameTables
    <2>3. (txn[d] = Idle \/ UpToDate(txn[d]))'
      BY <2>1, <2>2 DEF UpToDate
    <2> QED BY <2>1, <2>3
  <1> QED BY <1>1, <1>2 DEF Alone

\* Every step of the only client is a step of CreditLedger or leaves its
\* variables alone.
LEMMA StepAlone ==
    OneClient /\ IInv /\ InOrder /\ Alone /\ [TNext]_tvars => [Next]_vars /\ Alone'
  <1> SUFFICES ASSUME OneClient, IInv, InOrder, Alone, [TNext]_tvars
               PROVE  [Next]_vars /\ Alone'
    OBVIOUS
  <1>1. ASSUME NEW c \in Clients, Direct(c) PROVE [Next]_vars /\ Alone'
    BY <1>1, DirectAlone
  <1>2. ASSUME NEW c \in Clients, Commit(c) PROVE [Next]_vars /\ Alone'
    BY <1>2, CommitSimulates, CommitAlone
  <1>3. ASSUME NEW c \in Clients, NEW s \in DOMAIN blocks, BeginOnBlock(c, s)
        PROVE  [Next]_vars /\ Alone'
    <2>1. UNCHANGED vars
      BY <1>3 DEF BeginOnBlock, BeginTransfer, BeginRetireRequest, BeginItmoRequest,
                  BeginRequest, Begin
    <2> QED BY <1>3, <2>1, BlockBeginAlone
  <1>4. ASSUME NEW c \in Clients, NEW r \in DOMAIN requests, BeginOnRequest(c, r)
        PROVE  [Next]_vars /\ Alone'
    <2>1. UNCHANGED vars
      BY <1>4 DEF BeginOnRequest, BeginRetire, BeginAuthorize, BeginDecline, BeginDecision, Begin
    <2> QED BY <1>4, <2>1, RequestBeginAlone
  <1>5. ASSUME NEW c \in Clients, BeginMonitoring(c) \/ BeginIssue(c)
        PROVE  [Next]_vars /\ Alone'
    <2>1. UNCHANGED vars
      BY <1>5 DEF BeginMonitoring, BeginIssue, Begin
    <2> QED BY <1>5, <2>1, IssueBeginAlone
  <1>6. ASSUME NEW c \in Clients, ReadRow(c) \/ Plan(c) \/ Refuse(c)
        PROVE  [Next]_vars /\ Alone'
    <2>1. UNCHANGED vars
      BY <1>6 DEF ReadRow, Plan, Refuse
    <2> QED BY <1>6, <2>1, ReadAlone
  <1>7. ASSUME NEW c \in Clients, MergeRow(c) PROVE [Next]_vars /\ Alone'
    <2>1. UNCHANGED vars
      BY <1>7 DEF MergeRow
    <2> QED BY <1>7, <2>1, MergeAlone
  <1>8. CASE UNCHANGED tvars
    BY <1>8, StutterAlone DEF tvars
  <1>9. CASE TNext
    BY <1>1, <1>2, <1>3, <1>4, <1>5, <1>6, <1>7, <1>9 DEF TNext, Transaction
  <1> QED BY <1>8, <1>9

LEMMA InitAlone == TInit => Alone
  <1> SUFFICES ASSUME TInit PROVE Alone
    OBVIOUS
  <1>1. current = 0 /\ lastId = 0 /\ Len(requests) = 0
    BY DEF TInit, Init
  <1>2. \A c \in Clients : txn[c] = Idle
    BY DEF TInit
  <1>3. Drawn(Idle) = 0
    BY DEF Drawn
  <1> QED BY <1>1, <1>2, <1>3 DEF Alone

\* With a single client the reads, merges and inserts of getAndUpdateTx add up to
\* the operations the API promises: whatever the ledger transaction does between
\* the service's checks and its commit, the registry moves by one step of
\* CreditLedger or not at all, and every property of that module carries over.
THEOREM ActsAtomically ==
    ASSUME OneClient
    PROVE  TSpec => Spec
  <1>1. TInit => Init /\ IInv /\ Alone
    BY InitSound, InitAlone DEF TInit
  <1>2. IInv /\ InOrder /\ Alone /\ [TNext]_tvars => [Next]_vars /\ IInv' /\ Alone'
    BY StepAlone, NextSound
  <1> QED BY <1>1, <1>2, StaysInOrder, PTL DEF TSpec, Spec

=============================================================================
