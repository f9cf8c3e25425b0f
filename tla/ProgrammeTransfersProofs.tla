---------------------- MODULE ProgrammeTransfersProofs ----------------------
(***************************************************************************)
(* For any number of clients, owners and requests: the rows of the         *)
(* programme keep their types (no owner holds less than nothing), a        *)
(* request that was refused stays refused, and the rows add up as long as  *)
(* no issuance overlaps another request.  As long as no two requests       *)
(* overlap, the credits of a suspended owner are frozen if none fails      *)
(* (FInv), and the accounts add up even if some do (AInv).                 *)
(***************************************************************************)
EXTENDS ProgrammeTransfers, FiniteSetTheorems, WellFoundedInduction, TLAPS

-----------------------------------------------------------------------------
(* Types of what a client holds *)

Pcs == {"idle", "found", "history", "programme", "accounts", "merge", "commit",
        "settle", "issued", "cancel"}

OpKinds == {"None", "Pay", "Issue", "Freeze", "Unfreeze", "FreezeIssued"}

\* T are the numbers of the requests stored.
GoodOp(op, T) ==
    /\ op.kind \in OpKinds
    /\ op.kind = "Pay" => op.t \in T
    /\ op.kind \in {"Issue", "FreezeIssued"} => op.units \in Nat
    /\ op.kind \in {"Freeze", "Unfreeze"} => op.co \in Companies

Fields == {"pc", "op", "processed", "row", "balances", "fresh", "latest"}

\* What is known of a client, by the step it is at.
GoodTxn(x, T) ==
    /\ DOMAIN x = Fields
    /\ x.pc \in Pcs
    /\ GoodOp(x.op, T)
    /\ x.pc # "idle" => x.op.kind # "None"
    /\ x.pc \in {"found", "history", "settle"} => x.op.kind = "Pay"
    /\ x.pc = "accounts" => x.op.kind \in {"Pay", "Issue"}
    /\ x.pc = "issued" => x.op.kind = "Issue"
    /\ x.pc \in {"accounts", "merge"} => x.row \in Programme
    /\ x.pc \in {"merge", "commit"} /\ x.op.kind \in {"Pay", "Issue"} =>
         x.balances \in [Accounts -> Int]
    /\ x.pc = "commit" /\ x.latest # <<>> => x.latest \in Programme

Numbered(T) == \E n \in Nat : T = 1 .. n

GoodSweep(w, T) == "doomed" \in DOMAIN w /\ w.doomed \subseteq T

ClientsTyped ==
    /\ DOMAIN txn = Clients
    /\ \A c \in Clients : GoodTxn(txn[c], DOMAIN transfers)

TInv ==
    /\ PTypeOK
    /\ Numbered(DOMAIN transfers)
    /\ ClientsTyped
    /\ \A w \in sweeps : GoodSweep(w, DOMAIN transfers)

\* More requests stored leave what a client holds good.
LEMMA GoodGrows ==
    ASSUME NEW x, NEW T, NEW U, T \subseteq U, GoodTxn(x, T)
    PROVE  GoodTxn(x, U)
BY DEF GoodTxn, GoodOp

LEMMA IdleGood == ASSUME NEW T PROVE GoodTxn(Idle, T)
BY DEF GoodTxn, GoodOp, Idle, Fields, Pcs, OpKinds

\* One client moves, requests are only added.
LEMMA OneClientMoves ==
    ASSUME ClientsTyped, NEW c \in Clients, NEW x,
           txn' = [txn EXCEPT ![c] = x],
           DOMAIN transfers \subseteq DOMAIN transfers',
           GoodTxn(x, DOMAIN transfers')
    PROVE  ClientsTyped'
<1>1. DOMAIN txn' = Clients BY DEF ClientsTyped
<1>2. ASSUME NEW d \in Clients PROVE GoodTxn(txn[d], DOMAIN transfers)'
  <2>1. CASE d = c
    <3>1. txn'[d] = x BY <2>1 DEF ClientsTyped
    <3> QED BY <3>1 DEF GoodTxn, GoodOp
  <2>2. CASE d # c
    <3>1. txn'[d] = txn[d] BY <2>2 DEF ClientsTyped
    <3>2. GoodTxn(txn[d], DOMAIN transfers') BY GoodGrows DEF ClientsTyped
    <3> QED BY <3>1, <3>2 DEF GoodTxn, GoodOp
  <2> QED BY <2>1, <2>2
<1> QED BY <1>1, <1>2 DEF ClientsTyped

-----------------------------------------------------------------------------
(* The operators of a ledger operation *)

\* What an operation writes to the programme is a programme again; a payment
\* leaves no owner with less than nothing, because the same row was checked.
LEMMA UpdatedTyped ==
    ASSUME ProgrammeAssumption, PTypeOK,
           NEW op, GoodOp(op, DOMAIN transfers), op.kind # "None",
           NEW row \in Programme, NEW latest \in Programme,
           NEW processed, LedgerAllows(op, processed, row)
    PROVE  Updated(op, row, latest) \in Programme
<1>1. CASE op.kind = "Pay"
  <2> DEFINE t == transfers[op.t]
             left == [row.holding EXCEPT ![t.from] = @ - t.amount]
  <2>1. t.from \in Owners /\ t.amount \in Nat
    BY <1>1 DEF GoodOp, PTypeOK, Transfer
  <2>2. row.holding[t.from] - row.frozen[t.from] >= t.amount
    BY <1>1 DEF LedgerAllows, Available
  <2>3. /\ row.holding \in [Owners -> Nat] /\ row.frozen \in [Owners -> Nat]
        /\ row.transferred \in [Owners -> Nat] /\ row.retired \in [Owners -> Nat]
    BY DEF Programme
  <2>4. left \in [Owners -> Nat]
    <3>1. row.holding[t.from] - t.amount \in Nat BY <2>1, <2>2, <2>3
    <3> QED BY <2>1, <2>3, <3>1
  <2>5. [row.transferred EXCEPT ![t.from] = @ + t.amount] \in [Owners -> Nat]
    BY <2>1, <2>3
  <2>6. [row.retired EXCEPT ![t.from] = @ + t.amount] \in [Owners -> Nat]
    BY <2>1, <2>3
  <2>7. Paid(t, row, latest) \in Programme
    BY <2>4, <2>5, <2>6 DEF Paid, Programme
  <2> QED BY <1>1, <2>7 DEF Updated
<1>2. CASE op.kind = "Issue"
  <2>1. [o \in Owners |-> row.holding[o] + op.units * Weight[o]] \in [Owners -> Nat]
    BY <1>2 DEF GoodOp, Programme, ProgrammeAssumption
  <2>2. row.issued + op.units \in Nat
    BY <1>2 DEF GoodOp, Programme
  <2> QED BY <1>2, <2>1, <2>2 DEF Updated, Programme
<1>3. CASE op.kind = "Freeze"
  <2>1. [row.frozen EXCEPT ![op.co] = row.holding[op.co]] \in [Owners -> Nat]
    BY <1>3 DEF Programme
  <2> QED BY <1>3, <2>1 DEF Updated, Programme
<1>4. CASE op.kind = "Unfreeze"
  <2>1. [row.frozen EXCEPT ![op.co] = 0] \in [Owners -> Nat]
    BY DEF Programme
  <2> QED BY <1>4, <2>1 DEF Updated, Programme
<1>5. CASE op.kind = "FreezeIssued"
  <2>1. [o \in Owners |-> row.frozen[o] + (IF o \in op.cos THEN op.units * Weight[o] ELSE 0)]
            \in [Owners -> Nat]
    BY <1>5 DEF GoodOp, Programme, ProgrammeAssumption
  <2> QED BY <1>5, <2>1 DEF Updated, Programme
<1> QED BY <1>1, <1>2, <1>3, <1>4, <1>5 DEF GoodOp, OpKinds

LEMMA ReceivedInt ==
    ASSUME ProgrammeAssumption, NEW t \in Transfer, NEW a \in Accounts
    PROVE  Received(t, a) \in Int
<1>1. t.amount \in Nat /\ OmgePercentage \in Int BY DEF Transfer, ProgrammeAssumption
<1>2. OmgeCredits(t) \in Int
  <2>1. t.amount * OmgePercentage \in Int BY <1>1
  <2> QED BY <2>1 DEF OmgeCredits
<1> QED BY <1>1, <1>2 DEF Received

\* Balances are numbers.
LEMMA BalancesTyped ==
    ASSUME ProgrammeAssumption, PTypeOK,
           NEW op, GoodOp(op, DOMAIN transfers), NEW balances,
           op.kind \in {"Pay", "Issue"} => balances \in [Accounts -> Int]
    PROVE  Balances(op, balances) \in [Accounts -> Int]
<1>0. accounts \in [Accounts -> Int] BY DEF PTypeOK
<1>1. CASE op.kind = "Pay"
  <2> DEFINE t == transfers[op.t]
  <2>1. t \in Transfer BY <1>1 DEF GoodOp, PTypeOK
  <2>2. t.amount \in Int BY <2>1 DEF Transfer
  <2>3. \A a \in Accounts : Received(t, a) \in Int BY <2>1, ReceivedInt
  <2>4. ASSUME NEW a \in Accounts
        PROVE  (IF a \in Involved(t)
                THEN balances[a] + Received(t, a) - (IF a = t.from THEN t.amount ELSE 0)
                ELSE accounts[a]) \in Int
    <3>1. balances[a] \in Int /\ accounts[a] \in Int BY <1>0, <1>1
    <3> QED BY <2>2, <2>3, <3>1
  <2> HIDE DEF t
  <2>5. Balances(op, balances) =
          [a \in Accounts |->
             IF a \in Involved(t)
             THEN balances[a] + Received(t, a) - (IF a = t.from THEN t.amount ELSE 0)
             ELSE accounts[a]]
    BY <1>1 DEF Balances, t
  <2> QED BY <2>4, <2>5
<1>2. CASE op.kind = "Issue"
  <2>1. ASSUME NEW a \in Accounts
        PROVE  (IF a \in Owners THEN balances[a] + op.units * Weight[a] ELSE accounts[a]) \in Int
    <3>1. balances[a] \in Int /\ accounts[a] \in Int BY <1>0, <1>2
    <3>2. a \in Owners => op.units * Weight[a] \in Int
      BY <1>2 DEF GoodOp, ProgrammeAssumption
    <3> QED BY <3>1, <3>2
  <2> QED BY <1>2, <2>1 DEF Balances
<1> QED BY <1>0, <1>1, <1>2 DEF Balances

\* A request that is stored gets the next number.
LEMMA NextNumber ==
    ASSUME NEW f, Numbered(DOMAIN f), NEW v, NEW id, id = Cardinality(DOMAIN f) + 1
    PROVE  /\ id \notin DOMAIN f
           /\ DOMAIN Append1(f, v) = DOMAIN f \cup {id}
           /\ Numbered(DOMAIN f \cup {id})
           /\ Append1(f, v)[id] = v
           /\ \A i \in DOMAIN f : Append1(f, v)[i] = f[i]
<1>1. PICK n \in Nat : DOMAIN f = 1 .. n BY DEF Numbered
<1>2. Cardinality(DOMAIN f) = n BY <1>1, FS_Interval
<1>3. 1 .. n + 1 = (1 .. n) \cup {n + 1} OBVIOUS
<1> QED BY <1>1, <1>2, <1>3 DEF Append1, Numbered

-----------------------------------------------------------------------------
(* Types are kept *)

\* What a step must do that leaves the clients to another lemma.
RestTyped ==
    /\ PTypeOK
    /\ Numbered(DOMAIN transfers)
    /\ \A w \in sweeps : GoodSweep(w, DOMAIN transfers)

Rows == <<programme, accounts, paid, transfers, suspended, sweeps, begun, failures>>

LEMMA RowsKept ==
    ASSUME TInv, UNCHANGED Rows
    PROVE  RestTyped' /\ DOMAIN transfers \subseteq DOMAIN transfers'
BY DEF TInv, RestTyped, Rows, PTypeOK, Numbered

LEMMA BeginsTyped ==
    ASSUME TInv, ProgrammeAssumption, NEW c \in Clients, NEW op, NEW pc,
           Begins(c, op, pc),
           DOMAIN transfers \subseteq DOMAIN transfers',
           GoodOp(op, DOMAIN transfers'), op.kind # "None",
           \/ pc = "programme"
           \/ pc \in {"history", "found"} /\ op.kind = "Pay"
    PROVE  ClientsTyped' /\ begun' \in 0 .. MaxBegun
<1> DEFINE x == [Idle EXCEPT !.pc = pc, !.op = op]
<1>1. GoodTxn(x, DOMAIN transfers') BY DEF GoodTxn, Idle, Fields, Pcs
<1>2. txn' = [txn EXCEPT ![c] = x] BY DEF Begins
<1>3. ClientsTyped'
  <2> HIDE DEF x
  <2> QED BY <1>1, <1>2, OneClientMoves DEF TInv
<1>4. begun' \in 0 .. MaxBegun BY DEF Begins, TInv, PTypeOK, ProgrammeAssumption
<1> QED BY <1>3, <1>4

LEMMA EndsTyped ==
    ASSUME TInv, NEW c \in Clients, Ends(c),
           DOMAIN transfers \subseteq DOMAIN transfers'
    PROVE  ClientsTyped'
BY IdleGood, OneClientMoves DEF TInv, Ends

\* A step that only changes the status of requests.
LEMMA StatusTyped ==
    ASSUME TInv, DOMAIN transfers' = DOMAIN transfers,
           \A t \in DOMAIN transfers : transfers'[t] \in Transfer,
           UNCHANGED <<programme, accounts, paid, suspended, begun, failures>>
    PROVE  PTypeOK' /\ Numbered(DOMAIN transfers)' /\ DOMAIN transfers \subseteq DOMAIN transfers'
BY DEF TInv, PTypeOK, Numbered

LEMMA OneStatusTyped ==
    ASSUME PTypeOK, NEW t \in DOMAIN transfers, NEW status \in Statuses
    PROVE  /\ DOMAIN Status(t, status) = DOMAIN transfers
           /\ \A u \in DOMAIN transfers : Status(t, status)[u] \in Transfer
BY DEF PTypeOK, Status, Transfer

LEMMA CancelTyped ==
    ASSUME PTypeOK, NEW co
    PROVE  /\ DOMAIN CancelPending(co) = DOMAIN transfers
           /\ \A u \in DOMAIN transfers : CancelPending(co)[u] \in Transfer
BY DEF PTypeOK, CancelPending, Transfer, Statuses

\* A stored request is the next one, and unpaid; the others are as they were.
LEMMA StoredNext ==
    ASSUME TInv, NEW c, NEW t, NEW auto, Store(c, t, auto)
    PROVE  LET id == Cardinality(DOMAIN transfers) + 1 IN
           /\ id \notin DOMAIN transfers
           /\ DOMAIN transfers' = DOMAIN transfers \cup {id}
           /\ DOMAIN paid' = DOMAIN transfers \cup {id}
           /\ Numbered(DOMAIN transfers')
           /\ transfers'[id] = t /\ paid'[id] = 0
           /\ \A i \in DOMAIN transfers : transfers'[i] = transfers[i] /\ paid'[i] = paid[i]
<1> DEFINE id == Cardinality(DOMAIN transfers) + 1
<1>1. Numbered(DOMAIN transfers) /\ DOMAIN paid = DOMAIN transfers
  BY DEF TInv, PTypeOK
<1>2. transfers' = Append1(transfers, t) /\ paid' = Append1(paid, 0) BY DEF Store
<1>0. id = Cardinality(DOMAIN transfers) + 1 /\ id = Cardinality(DOMAIN paid) + 1 BY <1>1
<1> HIDE DEF id
<1>3. /\ id \notin DOMAIN transfers
      /\ DOMAIN Append1(transfers, t) = DOMAIN transfers \cup {id}
      /\ Numbered(DOMAIN transfers \cup {id})
      /\ Append1(transfers, t)[id] = t
      /\ \A i \in DOMAIN transfers : Append1(transfers, t)[i] = transfers[i]
  BY <1>0, <1>1, NextNumber
<1>4. Numbered(DOMAIN paid) BY <1>1
<1>5. /\ DOMAIN Append1(paid, 0) = DOMAIN paid \cup {id}
      /\ Append1(paid, 0)[id] = 0
      /\ \A i \in DOMAIN paid : Append1(paid, 0)[i] = paid[i]
  BY <1>0, <1>4, NextNumber
<1>6. /\ id \notin DOMAIN transfers
      /\ DOMAIN transfers' = DOMAIN transfers \cup {id}
      /\ DOMAIN paid' = DOMAIN transfers \cup {id}
      /\ Numbered(DOMAIN transfers')
      /\ transfers'[id] = t /\ paid'[id] = 0
      /\ \A i \in DOMAIN transfers : transfers'[i] = transfers[i] /\ paid'[i] = paid[i]
  BY <1>1, <1>2, <1>3, <1>5
<1> QED BY <1>6 DEF id

LEMMA StoreTyped ==
    ASSUME TInv, ProgrammeAssumption, NEW c \in Clients, NEW t \in Transfer,
           NEW auto \in BOOLEAN, Store(c, t, auto)
    PROVE  TInv'
<1> DEFINE id == Cardinality(DOMAIN transfers) + 1
<1>1. /\ DOMAIN transfers' = DOMAIN transfers \cup {id}
      /\ Numbered(DOMAIN transfers')
      /\ transfers'[id] = t
      /\ \A i \in DOMAIN transfers : transfers'[i] = transfers[i]
  BY StoredNext
<1>2. DOMAIN paid = DOMAIN transfers BY DEF TInv, PTypeOK
<1>3. /\ DOMAIN paid' = DOMAIN paid \cup {id}
      /\ paid'[id] = 0
      /\ \A i \in DOMAIN paid : paid'[i] = paid[i]
  BY <1>2, StoredNext
<1>4. \A i \in DOMAIN transfers' : transfers'[i] \in Transfer /\ paid'[i] \in Nat
  BY <1>1, <1>2, <1>3 DEF TInv, PTypeOK
<1>5. ClientsTyped' /\ begun' \in 0 .. MaxBegun
  <2>1. CASE auto
    <3>1. Begins(c, [kind |-> "Pay", t |-> id], "history") BY <2>1 DEF Store
    <3>2. GoodOp([kind |-> "Pay", t |-> id], DOMAIN transfers')
      BY <1>1 DEF GoodOp, OpKinds
    <3> HIDE DEF id
    <3> QED BY <1>1, <3>1, <3>2, BeginsTyped
  <2>2. CASE ~auto
    <3>1. UNCHANGED txn /\ begun' = begun BY <2>2 DEF Store, Continues
    <3>2. \A d \in Clients : GoodTxn(txn[d], DOMAIN transfers')
      BY <1>1, GoodGrows DEF TInv, ClientsTyped
    <3>3. ClientsTyped'
      BY <3>1, <3>2 DEF TInv, ClientsTyped, GoodTxn, GoodOp
    <3> QED BY <3>1, <3>3 DEF TInv, PTypeOK
  <2> QED BY <2>1, <2>2
<1>6. PTypeOK'
  BY <1>1, <1>2, <1>3, <1>4, <1>5 DEF TInv, PTypeOK, Store
<1>7. \A w \in sweeps' : GoodSweep(w, DOMAIN transfers')
  BY <1>1 DEF TInv, Store, GoodSweep
<1> QED BY <1>1, <1>5, <1>6, <1>7 DEF TInv

\* A client goes on and leaves the rows alone.
LEMMA GoesOn ==
    ASSUME TInv, NEW c \in Clients, NEW x, GoodTxn(x, DOMAIN transfers),
           txn' = [txn EXCEPT ![c] = x], UNCHANGED Rows
    PROVE  TInv'
<1>1. RestTyped' /\ DOMAIN transfers \subseteq DOMAIN transfers' BY RowsKept
<1>2. GoodTxn(x, DOMAIN transfers') BY <1>1, GoodGrows
<1>3. ClientsTyped' BY <1>1, <1>2, OneClientMoves DEF TInv
<1> QED BY <1>1, <1>3 DEF TInv, RestTyped

LEMMA RequestsTyped ==
    ASSUME TInv, ProgrammeAssumption, NEW c \in Clients, Requests(c)
    PROVE  TInv'
<1>1. ASSUME NEW from \in Owners, NEW to \in Companies, NEW n \in Amounts,
             NEW auto \in BOOLEAN, TransferRequest(c, from, to, n, auto)
      PROVE  TInv'
  <2>1. NewTransfer("Transfer", from, to, n, auto) \in Transfer
    BY DEF NewTransfer, Transfer, Kinds, Statuses, ProgrammeAssumption
  <2> QED BY <1>1, <2>1, StoreTyped DEF TransferRequest
<1>2. ASSUME NEW kind \in {"CrossBorder", "Local"}, NEW from \in Owners, NEW n \in Amounts,
             NEW auto \in BOOLEAN, RetireProgramme(c, kind, from, n, auto)
      PROVE  TInv'
  <2>1. NewTransfer(kind, from, Government, n, auto) \in Transfer
    BY DEF NewTransfer, Transfer, Kinds, Statuses, ProgrammeAssumption
  <2> QED BY <1>2, <2>1, StoreTyped DEF RetireProgramme
<1>3. ASSUME NEW t \in DOMAIN transfers, Approve(c, t)
      PROVE  TInv'
  <2> DEFINE op == [kind |-> "Pay", t |-> t, found |-> transfers[t].status]
  <2>1. Begins(c, op, "found") BY <1>3 DEF Approve
  <2>2. GoodOp(op, DOMAIN transfers') /\ op.kind = "Pay"
    BY <1>3 DEF Approve, GoodOp, OpKinds
  <2>3. DOMAIN transfers \subseteq DOMAIN transfers' BY <1>3 DEF Approve
  <2>4. ClientsTyped' /\ begun' \in 0 .. MaxBegun
    <3> HIDE DEF op
    <3> QED BY <2>1, <2>2, <2>3, BeginsTyped
  <2> QED BY <1>3, <2>4 DEF TInv, PTypeOK, Approve, Numbered
<1>4. ASSUME NEW co \in Companies, Suspend(c, co)
      PROVE  TInv'
  <2> DEFINE op == [kind |-> "Freeze", co |-> co]
  <2>1. Begins(c, op, "programme") BY <1>4 DEF Suspend
  <2>2. GoodOp(op, DOMAIN transfers') /\ op.kind # "None" BY DEF GoodOp, OpKinds
  <2>3. DOMAIN transfers \subseteq DOMAIN transfers' BY <1>4 DEF Suspend
  <2>4. ClientsTyped' /\ begun' \in 0 .. MaxBegun
    <3> HIDE DEF op
    <3> QED BY <2>1, <2>2, <2>3, BeginsTyped
  <2> QED BY <1>4, <2>4 DEF TInv, PTypeOK, Suspend, Numbered
<1>5. ASSUME NEW co \in Companies, Activate(c, co)
      PROVE  TInv'
  <2> DEFINE op == [kind |-> "Unfreeze", co |-> co]
  <2>1. Begins(c, op, "programme") BY <1>5 DEF Activate
  <2>2. GoodOp(op, DOMAIN transfers') /\ op.kind # "None" BY DEF GoodOp, OpKinds
  <2>3. DOMAIN transfers \subseteq DOMAIN transfers' BY <1>5 DEF Activate
  <2>4. ClientsTyped' /\ begun' \in 0 .. MaxBegun
    <3> HIDE DEF op
    <3> QED BY <2>1, <2>2, <2>3, BeginsTyped
  <2> QED BY <1>5, <2>4 DEF TInv, PTypeOK, Activate, Numbered
<1>6. ASSUME NEW n \in 1 .. Estimate, IssueUnits(c, n)
      PROVE  TInv'
  <2> DEFINE op == [kind |-> "Issue", units |-> n]
  <2>1. Begins(c, op, "programme") BY <1>6 DEF IssueUnits
  <2>2. GoodOp(op, DOMAIN transfers') /\ op.kind # "None"
    BY DEF GoodOp, OpKinds, ProgrammeAssumption
  <2>3. DOMAIN transfers \subseteq DOMAIN transfers' BY <1>6 DEF IssueUnits
  <2>4. ClientsTyped' /\ begun' \in 0 .. MaxBegun
    <3> HIDE DEF op
    <3> QED BY <2>1, <2>2, <2>3, BeginsTyped
  <2> QED BY <1>6, <2>4 DEF TInv, PTypeOK, IssueUnits, Numbered
<1> QED BY <1>1, <1>2, <1>3, <1>4, <1>5, <1>6 DEF Requests

LEMMA ApprovalTyped ==
    ASSUME TInv, NEW c \in Clients, Approval(c)
    PROVE  TInv'
<1>1. txn[c].pc = "found" => txn[c].op.t \in DOMAIN transfers
  BY DEF TInv, ClientsTyped, GoodTxn, GoodOp
<1>2. CASE TurnDown(c)
  <2>1. PTypeOK' /\ Numbered(DOMAIN transfers)' /\ DOMAIN transfers \subseteq DOMAIN transfers'
    BY <1>2, CancelTyped, StatusTyped DEF TurnDown, TInv, Continues
  <2>2. ClientsTyped' BY <1>2, <2>1, EndsTyped DEF TurnDown
  <2> QED BY <1>2, <2>1, <2>2 DEF TInv, TurnDown, GoodSweep
<1>3. CASE TakeUp(c)
  <2> DEFINE t == txn[c].op.t
             x == [txn[c] EXCEPT !.pc = "history", !.op = [kind |-> "Pay", t |-> t]]
  <2>1. t \in DOMAIN transfers BY <1>1, <1>3 DEF TakeUp
  <2>2. transfers' = Status(t, "Processing") BY <1>3 DEF TakeUp
  <2>3. PTypeOK' /\ Numbered(DOMAIN transfers)' /\ DOMAIN transfers \subseteq DOMAIN transfers'
    <3>1. DOMAIN transfers' = DOMAIN transfers /\ \A u \in DOMAIN transfers : transfers'[u] \in Transfer
      BY <2>1, <2>2, OneStatusTyped DEF TInv, Statuses
    <3> QED BY <1>3, <3>1, StatusTyped DEF TakeUp, Continues
  <2>4. GoodTxn(x, DOMAIN transfers')
    BY <1>3, <2>1, <2>3 DEF TInv, ClientsTyped, GoodTxn, GoodOp, Fields, Pcs, OpKinds
  <2>5. txn' = [txn EXCEPT ![c] = x] BY <1>3 DEF TakeUp
  <2>6. ClientsTyped'
    <3> HIDE DEF x
    <3> QED BY <2>3, <2>4, <2>5, OneClientMoves DEF TInv
  <2> QED BY <1>3, <2>3, <2>6 DEF TInv, TakeUp, GoodSweep
<1>4. CASE NotPending(c)
  BY <1>4, IdleGood, GoesOn DEF NotPending, Ends, Continues, Rows
<1>5. CASE Resume(c)
  <2> DEFINE x == [txn[c] EXCEPT !.pc = "history", !.op = [kind |-> "Pay", t |-> txn[c].op.t]]
  <2>1. GoodTxn(x, DOMAIN transfers)
    BY <1>1, <1>5 DEF Resume, TInv, ClientsTyped, GoodTxn, GoodOp, Fields, Pcs, OpKinds
  <2>2. txn' = [txn EXCEPT ![c] = x] BY <1>5 DEF Resume
  <2> HIDE DEF x
  <2> QED BY <1>5, <2>1, <2>2, GoesOn DEF Resume, Continues, Rows
<1> QED BY <1>2, <1>3, <1>4, <1>5 DEF Approval

LEMMA LedgerTyped ==
    ASSUME TInv, ProgrammeAssumption, NEW c \in Clients, Ledger(c)
    PROVE  TInv'
<1>0. GoodTxn(txn[c], DOMAIN transfers) BY DEF TInv, ClientsTyped
<1>1. CASE ReadHistory(c)
  <2> PICK b : txn' = [txn EXCEPT ![c] = [txn[c] EXCEPT !.pc = "programme", !.processed = b]]
    BY <1>1 DEF ReadHistory
  <2> DEFINE x == [txn[c] EXCEPT !.pc = "programme", !.processed = b]
  <2>1. GoodTxn(x, DOMAIN transfers)
    BY <1>0, <1>1 DEF ReadHistory, GoodTxn, GoodOp, Fields, Pcs
  <2>2. txn' = [txn EXCEPT ![c] = x] OBVIOUS
  <2> HIDE DEF x
  <2> QED BY <1>1, <2>1, <2>2, GoesOn DEF ReadHistory, Continues, Rows
<1>2. CASE ReadProgramme(c)
  <2> DEFINE x == [txn[c] EXCEPT
                     !.pc = IF txn[c].op.kind \in {"Pay", "Issue"} THEN "accounts" ELSE "merge",
                     !.row = programme, !.fresh = TRUE]
  <2>1. GoodTxn(x, DOMAIN transfers)
    BY <1>0, <1>2 DEF ReadProgramme, TInv, PTypeOK, GoodTxn, GoodOp, Fields, Pcs
  <2>2. txn' = [txn EXCEPT ![c] = x] BY <1>2 DEF ReadProgramme
  <2> HIDE DEF x
  <2> QED BY <1>2, <2>1, <2>2, GoesOn DEF ReadProgramme, Continues, Rows
<1>3. CASE ReadAccounts(c)
  <2> DEFINE x == [txn[c] EXCEPT !.pc = "merge", !.balances = accounts]
  <2>1. GoodTxn(x, DOMAIN transfers)
    BY <1>0, <1>3 DEF ReadAccounts, TInv, PTypeOK, GoodTxn, GoodOp, Fields, Pcs
  <2>2. txn' = [txn EXCEPT ![c] = x] BY <1>3 DEF ReadAccounts
  <2> HIDE DEF x
  <2> QED BY <1>3, <2>1, <2>2, GoesOn DEF ReadAccounts, Continues, Rows
<1>4. CASE Refuse(c)
  BY <1>4, IdleGood, GoesOn DEF Refuse, Ends, Continues, Rows
<1>5. CASE Merge(c)
  <2> DEFINE y == IF Nothing(txn[c].op, txn[c].row) \/ (NamesTxTime(txn[c].op) /\ ~txn[c].fresh)
                  THEN <<>> ELSE Updated(txn[c].op, txn[c].row, programme)
             x == [txn[c] EXCEPT !.pc = "commit", !.latest = y]
  <2>1. y # <<>> => y \in Programme
    BY <1>0, <1>5, UpdatedTyped DEF Merge, TInv, PTypeOK, GoodTxn
  <2>2. txn' = [txn EXCEPT ![c] = x] BY <1>5 DEF Merge
  <2>3. GoodTxn(x, DOMAIN transfers)
    <3> HIDE DEF y
    <3> QED BY <1>0, <1>5, <2>1 DEF Merge, GoodTxn, GoodOp, Fields, Pcs
  <2> HIDE DEF x
  <2> QED BY <1>5, <2>2, <2>3, GoesOn DEF Merge, Continues, Rows
<1>6. CASE Commit(c)
  <2> DEFINE x == txn[c]
             written == x.latest # <<>>
  <2>1. programme' \in Programme
    BY <1>0, <1>6 DEF Commit, TInv, PTypeOK, GoodTxn
  <2>2. accounts' \in [Accounts -> Int]
    BY <1>0, <1>6, BalancesTyped DEF Commit, TInv, GoodTxn
  <2>3. DOMAIN paid' = DOMAIN transfers /\ \A t \in DOMAIN transfers : paid'[t] \in Nat
    <3>1. DOMAIN paid = DOMAIN transfers /\ \A t \in DOMAIN transfers : paid[t] \in Nat
      BY DEF TInv, PTypeOK
    <3>2. paid' = paid \/ paid' = [paid EXCEPT ![txn[c].op.t] = @ + 1]
      BY <1>6 DEF Commit
    <3> QED BY <3>1, <3>2
  <2>4. PTypeOK' /\ Numbered(DOMAIN transfers)'
        /\ \A w \in sweeps' : GoodSweep(w, DOMAIN transfers')
    BY <1>6, <2>1, <2>2, <2>3 DEF Commit, Continues, TInv, PTypeOK, Numbered
  <2>5. ClientsTyped'
    <3>1. DOMAIN txn' = Clients BY <1>6 DEF Commit
    <3>2. ASSUME NEW d \in Clients PROVE GoodTxn(txn[d], DOMAIN transfers)'
      <4>0. UNCHANGED transfers BY <1>6 DEF Commit
      <4>1. CASE d # c
        <5>1. txn'[d] = txn[d] \/ txn'[d] = [txn[d] EXCEPT !.fresh = FALSE]
          BY <1>6, <4>1 DEF Commit
        <5>2. GoodTxn(txn[d], DOMAIN transfers) BY DEF TInv, ClientsTyped
        <5> QED BY <4>0, <5>1, <5>2 DEF GoodTxn, GoodOp, Fields
      <4>2. CASE d = c /\ Next2(x.op) = "idle"
        <5>1. txn'[d] = Idle BY <1>6, <4>2 DEF Commit
        <5> QED BY <4>0, <5>1, IdleGood DEF GoodTxn, GoodOp
      <4>3. CASE d = c /\ Next2(x.op) # "idle"
        <5>1. PICK row : txn'[d] = [Idle EXCEPT !.pc = Next2(x.op), !.op = x.op, !.row = row]
          BY <1>6, <4>3 DEF Commit
        <5>2. GoodOp(x.op, DOMAIN transfers) /\ x.op.kind # "None"
          BY <1>0, <1>6 DEF Commit, GoodTxn
        <5>3. \/ x.op.kind = "Pay" /\ Next2(x.op) = "settle"
              \/ x.op.kind = "Issue" /\ Next2(x.op) = "issued"
              \/ x.op.kind = "Freeze" /\ Next2(x.op) = "cancel"
          BY <4>3 DEF Next2
        <5> HIDE DEF x
        <5> QED BY <4>0, <5>1, <5>2, <5>3 DEF GoodTxn, GoodOp, Idle, Fields, Pcs
      <4> QED BY <4>1, <4>2, <4>3
    <3> QED BY <3>1, <3>2 DEF ClientsTyped
  <2> QED BY <2>4, <2>5 DEF TInv
<1> QED BY <1>1, <1>2, <1>3, <1>4, <1>5, <1>6 DEF Ledger

LEMMA AfterwardsTyped ==
    ASSUME TInv, NEW c \in Clients, Afterwards(c)
    PROVE  TInv'
<1>0. GoodTxn(txn[c], DOMAIN transfers) BY DEF TInv, ClientsTyped
<1>1. CASE Settle(c)
  <2>1. txn[c].op.t \in DOMAIN transfers BY <1>0, <1>1 DEF Settle, GoodTxn, GoodOp
  <2>2. PTypeOK' /\ Numbered(DOMAIN transfers)' /\ DOMAIN transfers \subseteq DOMAIN transfers'
    <3>1. DOMAIN transfers' = DOMAIN transfers /\ \A u \in DOMAIN transfers : transfers'[u] \in Transfer
      BY <1>1, <2>1, OneStatusTyped DEF TInv, Statuses, Settle
    <3> QED BY <1>1, <3>1, StatusTyped DEF Settle, Continues
  <2>3. ClientsTyped' BY <1>1, <2>2, EndsTyped DEF Settle
  <2>4. \A w \in sweeps' : GoodSweep(w, DOMAIN transfers')
    BY <1>1, <2>2 DEF Settle, TInv, GoodSweep
  <2> QED BY <2>2, <2>3, <2>4 DEF TInv
<1>2. CASE CancelRequests(c)
  <2>1. PTypeOK' /\ Numbered(DOMAIN transfers)' /\ DOMAIN transfers \subseteq DOMAIN transfers'
    BY <1>2, CancelTyped, StatusTyped DEF CancelRequests, TInv, Continues
  <2>2. ClientsTyped' BY <1>2, <2>1, EndsTyped DEF CancelRequests
  <2> QED BY <1>2, <2>1, <2>2 DEF TInv, CancelRequests, GoodSweep
<1>3. CASE AfterIssue(c)
  <2>1. CASE suspended \cap Owners = {}
    BY <1>3, <2>1, IdleGood, GoesOn DEF AfterIssue, Ends, Continues, Rows
  <2>2. CASE suspended \cap Owners # {}
    <3> DEFINE x == [Idle EXCEPT !.pc = "programme",
                       !.op = [kind |-> "FreezeIssued", units |-> txn[c].op.units,
                               cos |-> suspended \cap Owners]]
    <3>1. GoodTxn(x, DOMAIN transfers)
      BY <1>0, <1>3 DEF AfterIssue, GoodTxn, GoodOp, Idle, Fields, Pcs, OpKinds
    <3>2. txn' = [txn EXCEPT ![c] = x] BY <1>3, <2>2 DEF AfterIssue
    <3> HIDE DEF x
    <3> QED BY <1>3, <3>1, <3>2, GoesOn DEF AfterIssue, Continues, Rows
  <2> QED BY <2>1, <2>2
<1> QED BY <1>1, <1>2, <1>3 DEF Afterwards

LEMMA OthersTyped ==
    ASSUME TInv, ProgrammeAssumption,
           \/ \E c \in Clients : Fail(c)
           \/ \E t \in DOMAIN transfers : TransferCancel(t) \/ TransferReject(t)
           \/ \E w \in sweeps : Sweep(w)
           \/ \E w \in sweeps : \E t \in w.doomed : SweepCancel(w, t)
    PROVE  TInv'
<1>1. ASSUME NEW c \in Clients, Fail(c)
      PROVE  TInv'
  <2>1. PTypeOK' /\ Numbered(DOMAIN transfers)' /\ DOMAIN transfers \subseteq DOMAIN transfers'
    <3>1. failures' \in 0 .. MaxFailures
      BY <1>1 DEF Fail, TInv, PTypeOK, ProgrammeAssumption
    <3> QED BY <1>1, <3>1 DEF Fail, Continues, TInv, PTypeOK, Numbered
  <2>2. ClientsTyped' BY <1>1, <2>1, EndsTyped DEF Fail
  <2> QED BY <1>1, <2>1, <2>2 DEF Fail, TInv
<1>2. ASSUME NEW t \in DOMAIN transfers, NEW status \in Statuses,
             transfers' = Status(t, status),
             UNCHANGED <<programme, accounts, paid, suspended, begun, failures, txn>>,
             \A w \in sweeps' : GoodSweep(w, DOMAIN transfers)
      PROVE  TInv'
  <2>1. DOMAIN transfers' = DOMAIN transfers /\ \A u \in DOMAIN transfers : transfers'[u] \in Transfer
    BY <1>2, OneStatusTyped DEF TInv
  <2>2. PTypeOK' /\ Numbered(DOMAIN transfers)'
    BY <1>2, <2>1, StatusTyped
  <2>3. ClientsTyped' BY <1>2, <2>1 DEF TInv, ClientsTyped, GoodTxn, GoodOp
  <2> QED BY <1>2, <2>1, <2>2, <2>3 DEF TInv
<1>3. ASSUME NEW t \in DOMAIN transfers, TransferCancel(t) \/ TransferReject(t)
      PROVE  TInv'
  BY <1>2, <1>3 DEF TransferCancel, TransferReject, Withdraw, Continues, Statuses, TInv
<1>4. ASSUME NEW w \in sweeps, Sweep(w)
      PROVE  TInv'
  <2>1. \A v \in sweeps' : GoodSweep(v, DOMAIN transfers)
    <3>1. ASSUME NEW v \in sweeps', v \notin sweeps PROVE GoodSweep(v, DOMAIN transfers)
      <4>1. v = [pc |-> "cancel", doomed |-> Doomed(w), holding |-> None]
        BY <1>4, <3>1 DEF Sweep
      <4>2. Doomed(w) \subseteq DOMAIN transfers BY DEF Doomed
      <4> QED BY <4>1, <4>2 DEF GoodSweep
    <3> QED BY <3>1 DEF TInv
  <2>2. ClientsTyped' BY <1>4 DEF Sweep, TInv, ClientsTyped, GoodTxn, GoodOp
  <2> QED BY <1>4, <2>1, <2>2 DEF Sweep, Continues, TInv, PTypeOK, Numbered
<1>5. ASSUME NEW w \in sweeps, NEW t \in w.doomed, SweepCancel(w, t)
      PROVE  TInv'
  <2>1. GoodSweep(w, DOMAIN transfers) BY DEF TInv
  <2>0. t \in DOMAIN transfers BY <2>1 DEF GoodSweep
  <2>2. \A v \in sweeps' : GoodSweep(v, DOMAIN transfers)
    <3>1. ASSUME NEW v \in sweeps', v \notin sweeps PROVE GoodSweep(v, DOMAIN transfers)
      <4>1. v = [w EXCEPT !.doomed = @ \ {t}] BY <1>5, <3>1 DEF SweepCancel
      <4> QED BY <2>1, <4>1 DEF GoodSweep
    <3> QED BY <3>1 DEF TInv
  <2> QED BY <1>2, <1>5, <2>0, <2>2 DEF SweepCancel, Continues, Statuses
<1> QED BY <1>1, <1>3, <1>4, <1>5

\* At the start.
LEMMA InitTyped == ASSUME ProgrammeAssumption, PInit PROVE TInv
<1>1. programme \in Programme
  BY DEF PInit, Programme, Shares, None, ProgrammeAssumption
<1>2. accounts \in [Accounts -> Int]
  <2>1. \A a \in Owners : Authorised * Weight[a] \in Int BY DEF ProgrammeAssumption
  <2> QED BY <2>1 DEF PInit
<1>3. DOMAIN transfers = {} /\ DOMAIN paid = {} BY DEF PInit
<1>4. Numbered(DOMAIN transfers)
  <2>1. 1 .. 0 = {} OBVIOUS
  <2> QED BY <1>3, <2>1 DEF Numbered
<1>5. ClientsTyped
  <2>1. \A c \in Clients : txn[c] = Idle BY DEF PInit
  <2>2. DOMAIN txn = Clients BY DEF PInit
  <2> QED BY <2>1, <2>2, IdleGood DEF ClientsTyped
<1> QED BY <1>1, <1>2, <1>3, <1>4, <1>5 DEF TInv, PTypeOK, PInit, ProgrammeAssumption

LEMMA TypesKept == ASSUME ProgrammeAssumption, TInv, [PNext]_pvars PROVE TInv'
<1>1. CASE UNCHANGED pvars
  BY <1>1 DEF pvars, TInv, PTypeOK, Numbered, ClientsTyped, GoodTxn, GoodOp
<1>2. CASE PNext
  BY <1>2, RequestsTyped, ApprovalTyped, LedgerTyped, AfterwardsTyped, OthersTyped DEF PNext
<1> QED BY <1>1, <1>2

\* Every reachable state is well typed: an owner never holds less than nothing,
\* although what a payment takes was counted in a row that was read earlier, and
\* every number the ledger writes is one.
THEOREM TransfersTypeCorrect == PSpec => []PTypeOK
<1>1. PInit => TInv BY InitTyped, ProgrammeAssumption
<1>2. TInv /\ [PNext]_pvars => TInv' BY TypesKept, ProgrammeAssumption
<1>3. TInv => PTypeOK BY DEF TInv
<1> QED BY <1>1, <1>2, <1>3, PTL DEF PSpec

-----------------------------------------------------------------------------
(* Refusals *)

Open == {"Pending", "Cancelled", "Rejected"}

\* Nobody pays the request, or is about to.
NobodyPays(t) ==
    /\ paid[t] = 0
    /\ \A c \in Clients : txn[c].pc # "idle" /\ txn[c].op.kind = "Pay" /\ txn[c].op.t = t =>
         txn[c].pc = "found" /\ txn[c].op.found # "Processing"

RInv == \A t \in DOMAIN transfers : transfers[t].status \in Open => NobodyPays(t)

\* What has been refused can only be overwritten by the check of the pending ones.
Stands(t) ==
    transfers[t].status \in {"Cancelled", "Rejected"} =>
        /\ transfers'[t].status \in {transfers[t].status, "LowCredit"}
        /\ paid'[t] = 0

\* No request returns to the open ones, and a refusal is only overwritten so.
StatusesMoveOn ==
    \A t \in DOMAIN transfers :
        /\ transfers'[t].status \in Open => transfers[t].status \in Open
        /\ transfers[t].status \in {"Cancelled", "Rejected"} =>
              transfers'[t].status \in {transfers[t].status, "LowCredit"}

LEMMA SameMovesOn == ASSUME UNCHANGED transfers PROVE StatusesMoveOn
BY DEF StatusesMoveOn

LEMMA UnpaidStands ==
    ASSUME RInv, StatusesMoveOn,
           \A t \in DOMAIN transfers : transfers[t].status \in Open => paid'[t] = paid[t]
    PROVE  \A t \in DOMAIN transfers : Stands(t)
BY DEF RInv, NobodyPays, StatusesMoveOn, Stands, Open

\* A client that stops paying, or pays a request that is not open, and statuses
\* that move on.
LEMMA OpenKept ==
    ASSUME RInv, NEW c \in Clients, NEW x, txn' = [txn EXCEPT ![c] = x], DOMAIN txn = Clients,
           DOMAIN transfers' = DOMAIN transfers,
           paid' = paid, StatusesMoveOn,
           \A t \in DOMAIN transfers :
              /\ transfers'[t].status \in Open
              /\ x.pc # "idle" /\ x.op.kind = "Pay" /\ x.op.t = t
              => x.pc = "found" /\ x.op.found # "Processing"
    PROVE  RInv' /\ \A t \in DOMAIN transfers : Stands(t)
<1>0. \A t \in DOMAIN transfers : Stands(t) BY UnpaidStands
<1> SUFFICES ASSUME NEW t \in DOMAIN transfers, transfers'[t].status \in Open
             PROVE  NobodyPays(t)'
  BY <1>0 DEF RInv
<1>1. NobodyPays(t) BY DEF RInv, StatusesMoveOn
<1>2. ASSUME NEW d \in Clients, txn'[d].pc # "idle", txn'[d].op.kind = "Pay", txn'[d].op.t = t
      PROVE  txn'[d].pc = "found" /\ txn'[d].op.found # "Processing"
  <2>1. CASE d = c
    <3>1. txn'[d] = x BY <2>1
    <3> QED BY <1>2, <3>1
  <2>2. CASE d # c BY <1>1, <1>2, <2>2 DEF NobodyPays
  <2> QED BY <2>1, <2>2
<1> QED BY <1>1, <1>2 DEF NobodyPays

\* No client moves.
LEMMA OpenKeptByStatus ==
    ASSUME RInv, UNCHANGED <<paid, txn>>, DOMAIN transfers' = DOMAIN transfers, StatusesMoveOn
    PROVE  RInv' /\ \A t \in DOMAIN transfers : Stands(t)
<1>1. \A t \in DOMAIN transfers : Stands(t) BY UnpaidStands
<1> QED BY <1>1 DEF RInv, NobodyPays, StatusesMoveOn

LEMMA StoreOpen ==
    ASSUME TInv, RInv, NEW c \in Clients, NEW auto \in BOOLEAN,
           NEW kind, NEW from, NEW to, NEW n,
           Store(c, NewTransfer(kind, from, to, n, auto), auto)
    PROVE  RInv' /\ \A t \in DOMAIN transfers : Stands(t)
<1> DEFINE id == Cardinality(DOMAIN transfers) + 1
           v == NewTransfer(kind, from, to, n, auto)
<1>1. /\ id \notin DOMAIN transfers
      /\ DOMAIN transfers' = DOMAIN transfers \cup {id}
      /\ transfers'[id] = v
      /\ \A i \in DOMAIN transfers : transfers'[i] = transfers[i]
  <2> HIDE DEF v
  <2> QED BY StoredNext DEF v
<1>2. paid'[id] = 0 /\ \A i \in DOMAIN transfers : paid'[i] = paid[i]
  BY StoredNext
<1>3. ASSUME NEW d \in Clients
      PROVE  \/ txn'[d] = txn[d]
             \/ auto /\ txn'[d].op.t = id
  <2>1. CASE auto
    <3>1. txn' = [txn EXCEPT ![c] = [Idle EXCEPT !.pc = "history", !.op = [kind |-> "Pay", t |-> id]]]
      BY <2>1 DEF Store, Begins
    <3>2. [Idle EXCEPT !.pc = "history", !.op = [kind |-> "Pay", t |-> id]].op.t = id
      BY DEF Idle
    <3> QED BY <2>1, <3>1, <3>2 DEF TInv, ClientsTyped
  <2>2. CASE ~auto BY <2>2 DEF Store
  <2> QED BY <2>1, <2>2
<1>4. \A d \in Clients : txn[d].pc # "idle" /\ txn[d].op.kind = "Pay" => txn[d].op.t \in DOMAIN transfers
  BY DEF TInv, ClientsTyped, GoodTxn, GoodOp
<1>5. auto => v.status \notin Open BY DEF NewTransfer, Open
<1>8. \A t \in DOMAIN transfers : Stands(t)
  BY <1>1, <1>2, UnpaidStands DEF StatusesMoveOn
<1> SUFFICES ASSUME NEW t \in DOMAIN transfers', transfers'[t].status \in Open
             PROVE  NobodyPays(t)'
  BY <1>8 DEF RInv
<1>6. CASE t = id
  <2> HIDE DEF id, v
  <2> QED BY <1>1, <1>2, <1>3, <1>4, <1>5, <1>6 DEF NobodyPays
<1>7. CASE t # id
  <2> HIDE DEF id, v
  <2>1. t \in DOMAIN transfers /\ NobodyPays(t) BY <1>1, <1>7 DEF RInv
  <2> QED BY <1>1, <1>2, <1>3, <1>7, <2>1 DEF NobodyPays
<1> QED BY <1>6, <1>7

LEMMA CancelMovesOn ==
    ASSUME PTypeOK, NEW co, transfers' = CancelPending(co)
    PROVE  DOMAIN transfers' = DOMAIN transfers /\ StatusesMoveOn
<1>1. DOMAIN transfers' = DOMAIN transfers BY DEF CancelPending
<1>2. \A t \in DOMAIN transfers :
         \/ transfers'[t].status = transfers[t].status
         \/ transfers[t].status = "Pending" /\ transfers'[t].status = "Cancelled"
  BY DEF CancelPending, PTypeOK, Transfer
<1> QED BY <1>1, <1>2 DEF StatusesMoveOn, Open

LEMMA StatusMovesOn ==
    ASSUME PTypeOK, NEW t \in DOMAIN transfers, NEW status, transfers' = Status(t, status),
           status \in Open => transfers[t].status \in Open,
           transfers[t].status \in {"Cancelled", "Rejected"} =>
              status \in {transfers[t].status, "LowCredit"}
    PROVE  DOMAIN transfers' = DOMAIN transfers /\ StatusesMoveOn
<1>1. DOMAIN transfers' = DOMAIN transfers BY DEF Status
<1>2. \A u \in DOMAIN transfers :
         transfers'[u].status = IF u = t THEN status ELSE transfers[u].status
  BY DEF Status, PTypeOK, Transfer
<1> QED BY <1>1, <1>2 DEF StatusesMoveOn

LEMMA RequestsRefused ==
    ASSUME ProgrammeAssumption, TInv, RInv, NEW c \in Clients, Requests(c)
    PROVE  RInv' /\ \A t \in DOMAIN transfers : Stands(t)
<1>0. DOMAIN txn = Clients BY DEF TInv, ClientsTyped
<1>1. ASSUME NEW op, NEW pc, Begins(c, op, pc), UNCHANGED <<transfers, paid>>,
             \A t \in DOMAIN transfers :
                transfers[t].status \in Open /\ op.kind = "Pay" /\ op.t = t =>
                   pc = "found" /\ op.found # "Processing"
      PROVE  RInv' /\ \A t \in DOMAIN transfers : Stands(t)
  <2> DEFINE x == [Idle EXCEPT !.pc = pc, !.op = op]
  <2>1. x.pc = pc /\ x.op = op BY DEF Idle
  <2>2. txn' = [txn EXCEPT ![c] = x] BY <1>1 DEF Begins
  <2>3. StatusesMoveOn BY <1>1, SameMovesOn
  <2> HIDE DEF x
  <2> QED BY <1>0, <1>1, <2>1, <2>2, <2>3, OpenKept
<1>2. CASE \E from \in Owners, to \in Companies, n \in Amounts, auto \in BOOLEAN :
             TransferRequest(c, from, to, n, auto)
  BY <1>2, StoreOpen DEF TransferRequest
<1>3. CASE \E kind \in {"CrossBorder", "Local"}, from \in Owners, n \in Amounts, auto \in BOOLEAN :
             RetireProgramme(c, kind, from, n, auto)
  BY <1>3, StoreOpen DEF RetireProgramme
<1>4. ASSUME NEW t \in DOMAIN transfers, Approve(c, t)
      PROVE  RInv' /\ \A u \in DOMAIN transfers : Stands(u)
  BY <1>1, <1>4 DEF Approve, Open
<1>5. ASSUME NEW co \in Companies, Suspend(c, co) \/ Activate(c, co)
      PROVE  RInv' /\ \A t \in DOMAIN transfers : Stands(t)
  BY <1>1, <1>5 DEF Suspend, Activate
<1>6. ASSUME NEW n \in 1 .. Estimate, IssueUnits(c, n)
      PROVE  RInv' /\ \A t \in DOMAIN transfers : Stands(t)
  BY <1>1, <1>6 DEF IssueUnits
<1> QED BY <1>2, <1>3, <1>4, <1>5, <1>6 DEF Requests

LEMMA ApprovalRefused ==
    ASSUME ProgrammeAssumption, TInv, RInv, NEW c \in Clients, Approval(c)
    PROVE  RInv' /\ \A t \in DOMAIN transfers : Stands(t)
<1>0. DOMAIN txn = Clients /\ PTypeOK BY DEF TInv, ClientsTyped
<1>1. Idle.pc = "idle" BY DEF Idle
<1>2. CASE TurnDown(c)
  <2>1. DOMAIN transfers' = DOMAIN transfers /\ StatusesMoveOn
    BY <1>0, <1>2, CancelMovesOn DEF TurnDown
  <2> QED BY <1>0, <1>1, <1>2, <2>1, OpenKept DEF TurnDown, Ends
<1>3. CASE TakeUp(c)
  <2> DEFINE t == txn[c].op.t
             x == [txn[c] EXCEPT !.pc = "history", !.op = [kind |-> "Pay", t |-> t]]
  <2>1. t \in DOMAIN transfers
    BY <1>3 DEF TakeUp, TInv, ClientsTyped, GoodTxn, GoodOp
  <2>2. transfers' = Status(t, "Processing") /\ transfers[t].status = "Pending"
    BY <1>3 DEF TakeUp
  <2>3. DOMAIN transfers' = DOMAIN transfers /\ StatusesMoveOn
    BY <1>0, <2>1, <2>2, StatusMovesOn DEF Open
  <2>4. transfers'[t].status \notin Open
    BY <1>0, <2>1, <2>2 DEF PTypeOK, Transfer, Status, Open
  <2>5. txn' = [txn EXCEPT ![c] = x] BY <1>3 DEF TakeUp
  <2>6. x.op.t = t BY DEF TInv, ClientsTyped, GoodTxn, Fields
  <2> HIDE DEF t, x
  <2> QED BY <1>0, <1>3, <2>3, <2>4, <2>5, <2>6, OpenKept DEF TakeUp
<1>4. CASE NotPending(c)
  <2>1. StatusesMoveOn BY <1>4, SameMovesOn DEF NotPending
  <2> QED BY <1>0, <1>1, <1>4, <2>1, OpenKept DEF NotPending, Ends
<1>5. CASE Resume(c)
  <2> DEFINE t == txn[c].op.t
             x == [txn[c] EXCEPT !.pc = "history", !.op = [kind |-> "Pay", t |-> t]]
  <2>1. t \in DOMAIN transfers /\ txn[c].op.kind = "Pay"
    BY <1>5 DEF Resume, TInv, ClientsTyped, GoodTxn, GoodOp
  <2>2. transfers[t].status \notin Open
    BY <1>5, <2>1 DEF Resume, RInv, NobodyPays
  <2>3. StatusesMoveOn BY <1>5, SameMovesOn DEF Resume
  <2>5. txn' = [txn EXCEPT ![c] = x] BY <1>5 DEF Resume
  <2>6. x.op.t = t BY DEF TInv, ClientsTyped, GoodTxn, Fields
  <2> HIDE DEF t, x
  <2> QED BY <1>0, <1>5, <2>2, <2>3, <2>5, <2>6, OpenKept DEF Resume
<1> QED BY <1>2, <1>3, <1>4, <1>5 DEF Approval

\* A client that is paying a request pays none that is open.
LEMMA PayingClosed ==
    ASSUME TInv, RInv, NEW c \in Clients, txn[c].pc \notin {"idle", "found"},
           txn[c].op.kind = "Pay"
    PROVE  txn[c].op.t \in DOMAIN transfers /\ transfers[txn[c].op.t].status \notin Open
BY DEF TInv, ClientsTyped, GoodTxn, GoodOp, RInv, NobodyPays

\* A step of a ledger operation before its commit leaves its operation alone.
LEMMA SameOperation ==
    ASSUME TInv, NEW c \in Clients,
           \/ ReadHistory(c) \/ ReadProgramme(c) \/ ReadAccounts(c) \/ Refuse(c) \/ Merge(c)
    PROVE  \E x : txn' = [txn EXCEPT ![c] = x] /\ (x.pc = "idle" \/ x.op = txn[c].op)
<1>0. DOMAIN txn[c] = Fields BY DEF TInv, ClientsTyped, GoodTxn
<1>1. CASE ReadHistory(c)
  <2> DEFINE y == [txn[c] EXCEPT !.pc = "programme", !.processed = txn[c].op.t \in named]
  <2>1. y.op = txn[c].op BY <1>0 DEF Fields
  <2> QED BY <1>1, <2>1 DEF ReadHistory
<1>2. CASE ReadProgramme(c)
  <2> DEFINE y == [txn[c] EXCEPT
                     !.pc = IF txn[c].op.kind \in {"Pay", "Issue"} THEN "accounts" ELSE "merge",
                     !.row = programme, !.fresh = TRUE]
  <2>1. y.op = txn[c].op BY <1>0 DEF Fields
  <2> QED BY <1>2, <2>1 DEF ReadProgramme
<1>3. CASE ReadAccounts(c)
  <2> DEFINE y == [txn[c] EXCEPT !.pc = "merge", !.balances = accounts]
  <2>1. y.op = txn[c].op BY <1>0 DEF Fields
  <2> QED BY <1>3, <2>1 DEF ReadAccounts
<1>4. CASE Refuse(c)
  <2>1. Idle.pc = "idle" BY DEF Idle
  <2>2. txn' = [txn EXCEPT ![c] = Idle] BY <1>4 DEF Refuse, Ends
  <2> QED BY <2>1, <2>2
<1>5. CASE Merge(c)
  <2> PICK latest : txn' = [txn EXCEPT ![c] = [txn[c] EXCEPT !.pc = "commit", !.latest = latest]]
    BY <1>5 DEF Merge
  <2> DEFINE y == [txn[c] EXCEPT !.pc = "commit", !.latest = latest]
  <2>1. y.op = txn[c].op BY <1>0 DEF Fields
  <2> QED BY <2>1
<1> QED BY <1>1, <1>2, <1>3, <1>4, <1>5

LEMMA LedgerRefused ==
    ASSUME ProgrammeAssumption, TInv, RInv, NEW c \in Clients, Ledger(c)
    PROVE  RInv' /\ \A t \in DOMAIN transfers : Stands(t)
<1>0. DOMAIN txn = Clients /\ PTypeOK BY DEF TInv, ClientsTyped
<1>1. CASE \/ ReadHistory(c) \/ ReadProgramme(c) \/ ReadAccounts(c) \/ Refuse(c) \/ Merge(c)
  <2>1. UNCHANGED <<transfers, paid>>
    BY <1>1 DEF ReadHistory, ReadProgramme, ReadAccounts, Refuse, Merge
  <2>2. StatusesMoveOn BY <2>1, SameMovesOn
  <2>3. PICK x : txn' = [txn EXCEPT ![c] = x] /\ (x.pc = "idle" \/ x.op = txn[c].op)
    BY <1>1, SameOperation
  <2>4. txn[c].pc \notin {"idle", "found"}
    BY <1>1 DEF ReadHistory, ReadProgramme, ReadAccounts, Refuse, Merge
  <2>5. txn[c].op.kind = "Pay" =>
          txn[c].op.t \in DOMAIN transfers /\ transfers[txn[c].op.t].status \notin Open
    BY <2>4, PayingClosed
  <2>6. \A t \in DOMAIN transfers :
           ~(transfers'[t].status \in Open /\ x.pc # "idle" /\ x.op.kind = "Pay" /\ x.op.t = t)
    BY <2>1, <2>3, <2>5
  <2>7. DOMAIN transfers' = DOMAIN transfers /\ paid' = paid BY <2>1
  <2> QED BY <1>0, <2>2, <2>3, <2>6, <2>7, OpenKept
<1>2. CASE Commit(c)
  <2>1. UNCHANGED transfers /\ StatusesMoveOn BY <1>2, SameMovesOn DEF Commit
  <2>2. txn[c].op.kind = "Pay" =>
          txn[c].op.t \in DOMAIN transfers /\ transfers[txn[c].op.t].status \notin Open
    BY <1>2, PayingClosed DEF Commit
  <2>3. \A t \in DOMAIN transfers : transfers[t].status \in Open => paid'[t] = paid[t]
    BY <1>0, <1>2, <2>2 DEF Commit, PTypeOK
  <2>4. \A t \in DOMAIN transfers : Stands(t) BY <2>1, <2>3, UnpaidStands
  <2>5. ASSUME NEW d \in Clients
        PROVE  \/ txn'[d].pc = "idle"
               \/ txn'[d].op = txn[d].op /\ (d # c => txn'[d].pc = txn[d].pc)
    <3>0. DOMAIN txn[d] = Fields BY DEF TInv, ClientsTyped, GoodTxn
    <3>1. CASE d = c BY <1>2, <3>1 DEF Commit, Idle
    <3>2. CASE d # c BY <1>2, <3>0, <3>2 DEF Commit, Fields
    <3> QED BY <3>1, <3>2
  <2>6. ASSUME NEW t \in DOMAIN transfers, transfers[t].status \in Open
        PROVE  NobodyPays(t)'
    <3>1. NobodyPays(t) BY <2>6 DEF RInv
    <3>2. ASSUME NEW d \in Clients, txn'[d].pc # "idle", txn'[d].op.kind = "Pay", txn'[d].op.t = t
          PROVE  txn'[d].pc = "found" /\ txn'[d].op.found # "Processing"
      <4>1. CASE d = c BY <2>2, <2>5, <2>6, <3>2, <4>1
      <4>2. CASE d # c BY <2>5, <3>1, <3>2, <4>2 DEF NobodyPays
      <4> QED BY <4>1, <4>2
    <3> QED BY <2>3, <2>6, <3>1, <3>2 DEF NobodyPays
  <2> QED BY <2>1, <2>4, <2>6 DEF RInv
<1> QED BY <1>1, <1>2 DEF Ledger

LEMMA OthersRefused ==
    ASSUME ProgrammeAssumption, TInv, RInv,
           \/ \E c \in Clients : Afterwards(c) \/ Fail(c)
           \/ \E t \in DOMAIN transfers : TransferCancel(t) \/ TransferReject(t)
           \/ \E w \in sweeps : Sweep(w)
           \/ \E w \in sweeps : \E t \in w.doomed : SweepCancel(w, t)
    PROVE  RInv' /\ \A t \in DOMAIN transfers : Stands(t)
<1>0. DOMAIN txn = Clients /\ PTypeOK BY DEF TInv, ClientsTyped
<1>1. Idle.pc = "idle" BY DEF Idle
<1>2. ASSUME NEW c \in Clients, Settle(c)
      PROVE  RInv' /\ \A t \in DOMAIN transfers : Stands(t)
  <2>1. txn[c].op.t \in DOMAIN transfers /\ transfers[txn[c].op.t].status \notin Open
    BY <1>2, PayingClosed DEF Settle, TInv, ClientsTyped, GoodTxn
  <2>2. transfers' = Status(txn[c].op.t, "Approved") BY <1>2 DEF Settle
  <2>3. DOMAIN transfers' = DOMAIN transfers /\ StatusesMoveOn
    BY <1>0, <2>1, <2>2, StatusMovesOn DEF Open
  <2> QED BY <1>0, <1>1, <1>2, <2>3, OpenKept DEF Settle, Ends
<1>3. ASSUME NEW c \in Clients, CancelRequests(c)
      PROVE  RInv' /\ \A t \in DOMAIN transfers : Stands(t)
  <2>1. DOMAIN transfers' = DOMAIN transfers /\ StatusesMoveOn
    BY <1>0, <1>3, CancelMovesOn DEF CancelRequests
  <2> QED BY <1>0, <1>1, <1>3, <2>1, OpenKept DEF CancelRequests, Ends
<1>4. ASSUME NEW c \in Clients, AfterIssue(c)
      PROVE  RInv' /\ \A t \in DOMAIN transfers : Stands(t)
  <2>1. UNCHANGED <<transfers, paid>> /\ StatusesMoveOn
    BY <1>4, SameMovesOn DEF AfterIssue
  <2>2. PICK x : txn' = [txn EXCEPT ![c] = x] /\ (x.pc = "idle" \/ x.op.kind = "FreezeIssued")
    <3> DEFINE y == [Idle EXCEPT !.pc = "programme",
                       !.op = [kind |-> "FreezeIssued", units |-> txn[c].op.units,
                               cos |-> suspended \cap Owners]]
    <3>1. y.op.kind = "FreezeIssued" BY DEF Idle
    <3>2. txn' = [txn EXCEPT ![c] = Idle] \/ txn' = [txn EXCEPT ![c] = y]
      BY <1>4 DEF AfterIssue, Ends
    <3> HIDE DEF y
    <3> QED BY <1>1, <3>1, <3>2
  <2> QED BY <1>0, <2>1, <2>2, OpenKept
<1>5. ASSUME NEW c \in Clients, Fail(c)
      PROVE  RInv' /\ \A t \in DOMAIN transfers : Stands(t)
  <2>1. StatusesMoveOn BY <1>5, SameMovesOn DEF Fail
  <2> QED BY <1>0, <1>1, <1>5, <2>1, OpenKept DEF Fail, Ends
<1>6. ASSUME NEW t \in DOMAIN transfers, TransferCancel(t) \/ TransferReject(t)
      PROVE  RInv' /\ \A u \in DOMAIN transfers : Stands(u)
  <2>1. DOMAIN transfers' = DOMAIN transfers /\ StatusesMoveOn
    BY <1>0, <1>6, StatusMovesOn DEF TransferCancel, TransferReject, Withdraw, Open
  <2> QED BY <1>6, <2>1, OpenKeptByStatus DEF TransferCancel, TransferReject, Withdraw
<1>7. ASSUME NEW w \in sweeps, Sweep(w)
      PROVE  RInv' /\ \A t \in DOMAIN transfers : Stands(t)
  <2>1. StatusesMoveOn BY <1>7, SameMovesOn DEF Sweep
  <2> QED BY <1>7, <2>1, OpenKeptByStatus DEF Sweep
<1>8. ASSUME NEW w \in sweeps, NEW t \in w.doomed, SweepCancel(w, t)
      PROVE  RInv' /\ \A u \in DOMAIN transfers : Stands(u)
  <2>1. t \in DOMAIN transfers BY DEF TInv, GoodSweep
  <2>2. DOMAIN transfers' = DOMAIN transfers /\ StatusesMoveOn
    BY <1>0, <1>8, <2>1, StatusMovesOn DEF SweepCancel, Open
  <2> QED BY <1>8, <2>2, OpenKeptByStatus DEF SweepCancel
<1> QED BY <1>2, <1>3, <1>4, <1>5, <1>6, <1>7, <1>8 DEF Afterwards

LEMMA RefusedStep ==
    ASSUME ProgrammeAssumption, TInv, RInv, [PNext]_pvars
    PROVE  RInv' /\ \A t \in DOMAIN transfers : Stands(t)
<1>1. CASE UNCHANGED pvars
  <2>1. UNCHANGED <<paid, txn, transfers>> /\ StatusesMoveOn
    BY <1>1, SameMovesOn DEF pvars
  <2> QED BY <2>1, OpenKeptByStatus
<1>2. CASE PNext
  BY <1>2, RequestsRefused, ApprovalRefused, LedgerRefused, OthersRefused DEF PNext
<1> QED BY <1>1, <1>2

\* Whatever overlaps: a request that its initiator cancelled, that was rejected
\* or that fell with a suspended company is never approved or paid afterwards.
\* The argument: while a request is open nobody pays it or is about to, because
\* whoever pays has first taken it out of the open statuses by one conditional
\* update.
THEOREM RefusedStays == PSpec => RefusalStands
<1> DEFINE Refusal == \A t \in DOMAIN transfers : Stands(t)
<1>1. PInit => TInv /\ RInv
  <2>1. PInit => DOMAIN transfers = {} BY DEF PInit
  <2> QED BY <2>1, InitTyped, ProgrammeAssumption DEF RInv
<1>2. TInv /\ RInv /\ [PNext]_pvars => TInv' /\ RInv'
  BY TypesKept, RefusedStep, ProgrammeAssumption
<1>3. TInv /\ RInv /\ [PNext]_pvars => Refusal
  BY RefusedStep, ProgrammeAssumption
<1>4. PSpec => [][Refusal]_pvars BY <1>1, <1>2, <1>3, PTL DEF PSpec
<1> QED BY <1>4 DEF RefusalStands, Stands

-----------------------------------------------------------------------------
(* What each owner has adds up *)

LEMMA Distributes ==
    ASSUME NEW i \in Nat, NEW n \in Nat, NEW w \in Nat
    PROVE  (i + n) * w = i * w + n * w
OBVIOUS

\* What an operation computes from a row that adds up, adds up when the row is
\* still the latest.
LEMMA UpdatedAddsUp ==
    ASSUME ProgrammeAssumption, PTypeOK, AddsUp(programme),
           NEW op, GoodOp(op, DOMAIN transfers), op.kind # "None"
    PROVE  AddsUp(Updated(op, programme, programme))
<1>0. /\ programme.holding \in [Owners -> Nat] /\ programme.frozen \in [Owners -> Nat]
      /\ programme.transferred \in [Owners -> Nat] /\ programme.retired \in [Owners -> Nat]
      /\ programme.issued \in Nat
      /\ DOMAIN programme = {"issued", "holding", "frozen", "transferred", "retired"}
  BY DEF PTypeOK, Programme
<1>00. \A o \in Owners : programme.holding[o] + programme.transferred[o] + programme.retired[o]
                           = programme.issued * Weight[o]
  BY DEF AddsUp
<1>w. \A o \in Owners : programme.issued * Weight[o] \in Nat
  BY <1>0 DEF ProgrammeAssumption
<1>1. CASE op.kind = "Pay"
  <2> DEFINE t == transfers[op.t]
             left == [programme.holding EXCEPT ![t.from] = @ - t.amount]
             given == [programme.transferred EXCEPT ![t.from] = @ + t.amount]
             gone == [programme.retired EXCEPT ![t.from] = @ + t.amount]
  <2>1. t.from \in Owners /\ t.amount \in Nat
    BY <1>1 DEF GoodOp, PTypeOK, Transfer
  <2>2. \A o \in Owners :
           /\ left[o] + given[o] + programme.retired[o] = programme.issued * Weight[o]
           /\ left[o] + programme.transferred[o] + gone[o] = programme.issued * Weight[o]
    BY <1>0, <1>00, <1>w, <2>1
  <2>3. CASE t.kind = "Transfer"
    <3>1. Updated(op, programme, programme)
            = [programme EXCEPT !.holding = left, !.transferred = given]
      BY <1>1, <2>3 DEF Updated, Paid
    <3> HIDE DEF t, left, given
    <3> QED BY <1>0, <2>2, <3>1 DEF AddsUp
  <2>4. CASE t.kind # "Transfer"
    <3>1. Updated(op, programme, programme)
            = [programme EXCEPT !.holding = left, !.retired = gone]
      BY <1>1, <2>4 DEF Updated, Paid
    <3> HIDE DEF t, left, gone
    <3> QED BY <1>0, <2>2, <3>1 DEF AddsUp
  <2> QED BY <2>3, <2>4
<1>2. CASE op.kind = "Issue"
  <2> DEFINE n == op.units
             more == [o \in Owners |-> programme.holding[o] + n * Weight[o]]
  <2>1. n \in Nat BY <1>2 DEF GoodOp
  <2>2. ASSUME NEW o \in Owners
        PROVE  more[o] + programme.transferred[o] + programme.retired[o]
                 = (programme.issued + n) * Weight[o]
    <3>1. Weight[o] \in Nat /\ n * Weight[o] \in Nat BY <2>1 DEF ProgrammeAssumption
    <3>2. (programme.issued + n) * Weight[o] = programme.issued * Weight[o] + n * Weight[o]
      BY <1>0, <2>1, <3>1, Distributes
    <3> HIDE DEF n
    <3> QED BY <1>0, <1>00, <1>w, <3>1, <3>2
  <2>3. Updated(op, programme, programme)
          = [programme EXCEPT !.issued = programme.issued + n, !.holding = more]
    BY <1>2 DEF Updated
  <2> HIDE DEF n, more
  <2> QED BY <1>0, <2>2, <2>3 DEF AddsUp
<1>3. CASE op.kind \in {"Freeze", "Unfreeze", "FreezeIssued"}
  <2> PICK f : Updated(op, programme, programme) = [programme EXCEPT !.frozen = f]
    BY <1>3 DEF Updated
  <2> QED BY <1>0, <1>00 DEF AddsUp
<1> QED BY <1>1, <1>2, <1>3 DEF GoodOp, OpKinds

\* What a client read is still so, if it says so or issues credits; what it is
\* about to write adds up.
Reads(x, p) ==
    /\ x.pc \in {"accounts", "merge"} /\ (x.fresh \/ Issuing(x.op)) => x.row = p
    /\ x.pc = "commit" /\ x.latest # <<>> => AddsUp(x.latest)

Sound ==
    /\ AddsUp(programme)
    /\ \A c \in Clients : Reads(txn[c], programme)
    /\ \A c \in Clients : Busy(c) /\ Issuing(txn[c].op) => \A d \in Clients \ {c} : ~Busy(d)

SInv == ~issueOverlapped => Sound

\* One client moves, and starts nothing.
LEMMA SoundMove ==
    ASSUME SInv, DOMAIN txn = Clients, NEW c \in Clients, NEW x, txn' = [txn EXCEPT ![c] = x],
           UNCHANGED <<programme, issueOverlapped>>,
           ~issueOverlapped => Reads(x, programme),
           x.pc = "idle" \/ Busy(c),
           x.pc = "idle" \/ (Issuing(x.op) => Issuing(txn[c].op))
    PROVE  SInv'
<1> SUFFICES ASSUME ~issueOverlapped PROVE Sound'
  BY DEF SInv
<1>1. Sound BY DEF SInv
<1>2. txn'[c] = x /\ \A d \in Clients \ {c} : txn'[d] = txn[d] OBVIOUS
<1>3. \A d \in Clients : Reads(txn[d], programme)'
  BY <1>1, <1>2 DEF Sound, Reads, AddsUp, Issuing
<1>4. ASSUME NEW b \in Clients, NEW d \in Clients \ {b}, Busy(b)', Issuing(txn[b].op)'
      PROVE  ~Busy(d)'
  <2>1. Busy(b) /\ Issuing(txn[b].op) BY <1>2, <1>4 DEF Busy, Issuing
  <2>2. ~Busy(d) BY <1>1, <2>1 DEF Sound
  <2> QED BY <1>2, <2>2 DEF Busy
<1> QED BY <1>1, <1>3, <1>4 DEF Sound, AddsUp

LEMMA SoundStill ==
    ASSUME SInv, UNCHANGED <<programme, issueOverlapped, txn>>
    PROVE  SInv'
BY DEF SInv, Sound, AddsUp, Reads, Busy, Issuing

\* A request begins: issueOverlapped takes down whether it is an issuance beside
\* another request.
LEMMA SoundBegins ==
    ASSUME SInv, DOMAIN txn = Clients, NEW c \in Clients, NEW op, NEW pc,
           pc \notin {"accounts", "merge", "commit"}, Begins(c, op, pc), UNCHANGED programme
    PROVE  SInv'
<1> SUFFICES ASSUME ~issueOverlapped' PROVE Sound'
  BY DEF SInv
<1>1. ~issueOverlapped /\ \A d \in Clients : Busy(d) => ~Issuing(op) /\ ~Issuing(txn[d].op)
  BY DEF Begins
<1>2. Sound BY <1>1 DEF SInv
<1> DEFINE x == [Idle EXCEPT !.pc = pc, !.op = op]
<1>3. x.pc = pc /\ x.op = op BY DEF Idle
<1>4. txn'[c] = x /\ \A d \in Clients \ {c} : txn'[d] = txn[d] BY DEF Begins
<1> HIDE DEF x
<1>5. \A d \in Clients : Reads(txn[d], programme)'
  BY <1>2, <1>3, <1>4 DEF Sound, Reads, AddsUp, Issuing
<1>6. ASSUME NEW b \in Clients, NEW d \in Clients \ {b}, Busy(b)', Issuing(txn[b].op)'
      PROVE  ~Busy(d)'
  <2>1. CASE b = c BY <1>1, <1>3, <1>4, <1>6, <2>1 DEF Busy, Issuing
  <2>2. CASE b # c
    <3>1. Busy(b) /\ Issuing(txn[b].op) BY <1>4, <1>6, <2>2 DEF Busy, Issuing
    <3> QED BY <1>1, <3>1
  <2> QED BY <2>1, <2>2
<1> QED BY <1>2, <1>5, <1>6 DEF Sound, AddsUp

LEMMA RequestsSound ==
    ASSUME TInv, SInv, NEW c \in Clients, Requests(c)
    PROVE  SInv'
<1>0. DOMAIN txn = Clients BY DEF TInv, ClientsTyped
<1>1. ASSUME NEW t, NEW auto \in BOOLEAN, Store(c, t, auto)
      PROVE  SInv'
  <2>1. CASE auto BY <1>0, <1>1, <2>1, SoundBegins DEF Store
  <2>2. CASE ~auto BY <1>1, <2>2, SoundStill DEF Store, Continues
  <2> QED BY <2>1, <2>2
<1>2. CASE \E from \in Owners, to \in Companies, n \in Amounts, auto \in BOOLEAN :
             TransferRequest(c, from, to, n, auto)
  BY <1>1, <1>2 DEF TransferRequest
<1>3. CASE \E kind \in {"CrossBorder", "Local"}, from \in Owners, n \in Amounts, auto \in BOOLEAN :
             RetireProgramme(c, kind, from, n, auto)
  BY <1>1, <1>3 DEF RetireProgramme
<1>4. ASSUME NEW t \in DOMAIN transfers, Approve(c, t)
      PROVE  SInv'
  BY <1>0, <1>4, SoundBegins DEF Approve
<1>5. ASSUME NEW co \in Companies, Suspend(c, co) \/ Activate(c, co)
      PROVE  SInv'
  BY <1>0, <1>5, SoundBegins DEF Suspend, Activate
<1>6. ASSUME NEW n \in 1 .. Estimate, IssueUnits(c, n)
      PROVE  SInv'
  BY <1>0, <1>6, SoundBegins DEF IssueUnits
<1> QED BY <1>2, <1>3, <1>4, <1>5, <1>6 DEF Requests

\* Steps that end a request.
LEMMA EndsSound ==
    ASSUME TInv, SInv, NEW c \in Clients, Ends(c), UNCHANGED <<programme, issueOverlapped>>
    PROVE  SInv'
<1>1. Idle.pc = "idle" BY DEF Idle
<1>2. Reads(Idle, programme) BY <1>1 DEF Reads
<1> QED BY <1>1, <1>2, SoundMove DEF Ends, TInv, ClientsTyped

LEMMA ApprovalSound ==
    ASSUME TInv, SInv, NEW c \in Clients, Approval(c)
    PROVE  SInv'
<1>1. CASE TurnDown(c) \/ NotPending(c)
  BY <1>1, EndsSound DEF TurnDown, NotPending, Continues
<1>2. CASE TakeUp(c) \/ Resume(c)
  <2> DEFINE x == [txn[c] EXCEPT !.pc = "history", !.op = [kind |-> "Pay", t |-> txn[c].op.t]]
  <2>1. x.pc = "history" /\ ~Issuing(x.op)
    BY DEF TInv, ClientsTyped, GoodTxn, Fields, Issuing
  <2>2. txn' = [txn EXCEPT ![c] = x] /\ UNCHANGED <<programme, issueOverlapped>> /\ Busy(c)
    BY <1>2 DEF TakeUp, Resume, Continues, Busy
  <2>3. Reads(x, programme) BY <2>1 DEF Reads
  <2> HIDE DEF x
  <2> QED BY <2>1, <2>2, <2>3, SoundMove DEF TInv, ClientsTyped
<1> QED BY <1>1, <1>2 DEF Approval

LEMMA LedgerSound ==
    ASSUME ProgrammeAssumption, TInv, SInv, NEW c \in Clients, Ledger(c)
    PROVE  SInv'
<1>0. /\ DOMAIN txn = Clients
      /\ GoodTxn(txn[c], DOMAIN transfers)
      /\ DOMAIN txn[c] = Fields
  BY DEF TInv, ClientsTyped, GoodTxn
<1>1. CASE ReadHistory(c)
  <2> DEFINE x == [txn[c] EXCEPT !.pc = "programme", !.processed = txn[c].op.t \in named]
  <2>1. x.pc = "programme" /\ x.op = txn[c].op BY <1>0 DEF Fields
  <2>2. txn' = [txn EXCEPT ![c] = x] /\ UNCHANGED <<programme, issueOverlapped>> /\ Busy(c)
    BY <1>1 DEF ReadHistory, Continues, Busy
  <2> HIDE DEF x
  <2> QED BY <1>0, <2>1, <2>2, SoundMove DEF Reads
<1>2. CASE ReadProgramme(c)
  <2> DEFINE x == [txn[c] EXCEPT
                     !.pc = IF txn[c].op.kind \in {"Pay", "Issue"} THEN "accounts" ELSE "merge",
                     !.row = programme, !.fresh = TRUE]
  <2>1. x.pc # "commit" /\ x.op = txn[c].op /\ x.row = programme BY <1>0 DEF Fields
  <2>2. txn' = [txn EXCEPT ![c] = x] /\ UNCHANGED <<programme, issueOverlapped>> /\ Busy(c)
    BY <1>2 DEF ReadProgramme, Continues, Busy
  <2> HIDE DEF x
  <2> QED BY <1>0, <2>1, <2>2, SoundMove DEF Reads
<1>3. CASE ReadAccounts(c)
  <2> DEFINE x == [txn[c] EXCEPT !.pc = "merge", !.balances = accounts]
  <2>1. x.pc # "commit" /\ x.op = txn[c].op /\ x.row = txn[c].row /\ x.fresh = txn[c].fresh
    BY <1>0 DEF Fields
  <2>2. txn' = [txn EXCEPT ![c] = x] /\ UNCHANGED <<programme, issueOverlapped>> /\ Busy(c)
    BY <1>3 DEF ReadAccounts, Continues, Busy
  <2>3. ~issueOverlapped => Reads(x, programme)
    <3> HIDE DEF x
    <3> QED BY <1>3, <2>1 DEF SInv, Sound, Reads, ReadAccounts
  <2> HIDE DEF x
  <2> QED BY <1>0, <2>1, <2>2, <2>3, SoundMove
<1>4. CASE Refuse(c) BY <1>4, EndsSound DEF Refuse, Continues
<1>5. CASE Merge(c)
  <2> DEFINE y == IF Nothing(txn[c].op, txn[c].row) \/ (NamesTxTime(txn[c].op) /\ ~txn[c].fresh)
                  THEN <<>> ELSE Updated(txn[c].op, txn[c].row, programme)
             x == [txn[c] EXCEPT !.pc = "commit", !.latest = y]
  <2>1. x.pc = "commit" /\ x.op = txn[c].op /\ x.latest = y
    <3> HIDE DEF y
    <3> QED BY <1>0 DEF Fields
  <2>2. txn' = [txn EXCEPT ![c] = x] /\ UNCHANGED <<programme, issueOverlapped>> /\ Busy(c)
    BY <1>5 DEF Merge, Continues, Busy
  <2>3. ASSUME ~issueOverlapped, y # <<>> PROVE AddsUp(y)
    <3>1. txn[c].fresh \/ Issuing(txn[c].op) BY <2>3 DEF NamesTxTime
    <3>2. txn[c].row = programme /\ AddsUp(programme)
      BY <1>5, <2>3, <3>1 DEF SInv, Sound, Reads, Merge
    <3>3. txn[c].op.kind # "None" BY <1>0, <1>5 DEF Merge, GoodTxn
    <3>4. AddsUp(Updated(txn[c].op, programme, programme))
      BY <1>0, <3>2, <3>3, UpdatedAddsUp DEF TInv, GoodTxn
    <3>5. y = Updated(txn[c].op, programme, programme) BY <2>3, <3>2
    <3> HIDE DEF y
    <3> QED BY <3>4, <3>5
  <2> HIDE DEF x, y
  <2>4. ~issueOverlapped => Reads(x, programme) BY <2>1, <2>3 DEF Reads
  <2> QED BY <1>0, <2>1, <2>2, <2>4, SoundMove
<1>6. CASE Commit(c)
  <2> SUFFICES ASSUME ~issueOverlapped PROVE Sound'
    BY <1>6 DEF SInv, Commit, Continues
  <2>1. Sound BY DEF SInv
  <2>2. Busy(c) /\ txn[c].pc = "commit" BY <1>6 DEF Commit, Busy
  <2>3. AddsUp(programme)'
    BY <1>6, <2>1, <2>2 DEF Sound, Reads, Commit, AddsUp
  <2>4. /\ txn'[c].pc \in {"idle", "settle", "issued", "cancel"}
        /\ txn'[c].pc = "idle" \/ txn'[c].op = txn[c].op
    BY <1>6 DEF Commit, Idle, Next2
  <2>5. ASSUME NEW d \in Clients \ {c}
        PROVE  /\ txn'[d].pc = txn[d].pc /\ txn'[d].op = txn[d].op
               /\ txn'[d].row = txn[d].row /\ txn'[d].latest = txn[d].latest
               /\ IF txn[c].latest # <<>> THEN txn'[d].fresh = FALSE ELSE txn'[d].fresh = txn[d].fresh
    <3>1. DOMAIN txn[d] = Fields BY DEF TInv, ClientsTyped, GoodTxn
    <3> QED BY <1>6, <3>1 DEF Commit, Fields
  <2>6. ASSUME NEW d \in Clients PROVE Reads(txn[d], programme)'
    <3>1. CASE d = c BY <2>4, <3>1 DEF Reads
    <3>2. CASE d # c
      <4>1. Reads(txn[d], programme) BY <2>1 DEF Sound
      <4>2. ~Busy(d) \/ ~Issuing(txn[d].op) BY <2>1, <2>2, <3>2 DEF Sound
      <4>3. txn[c].latest = <<>> => programme' = programme BY <1>6 DEF Commit
      <4> QED BY <2>5, <3>2, <4>1, <4>2, <4>3 DEF Reads, Busy, Issuing, AddsUp
    <3> QED BY <3>1, <3>2
  <2>7. ASSUME NEW b \in Clients, NEW d \in Clients \ {b}, Busy(b)', Issuing(txn[b].op)'
        PROVE  ~Busy(d)'
    <3>1. Busy(b) /\ Issuing(txn[b].op)
      BY <2>2, <2>4, <2>5, <2>7 DEF Busy, Issuing
    <3>2. ~Busy(d) BY <2>1, <3>1 DEF Sound
    <3>3. d # c BY <2>2, <3>2
    <3> QED BY <2>5, <3>2, <3>3 DEF Busy
  <2> QED BY <2>3, <2>6, <2>7 DEF Sound
<1> QED BY <1>1, <1>2, <1>3, <1>4, <1>5, <1>6 DEF Ledger

LEMMA OthersSound ==
    ASSUME TInv, SInv,
           \/ \E c \in Clients : Afterwards(c) \/ Fail(c)
           \/ \E t \in DOMAIN transfers : TransferCancel(t) \/ TransferReject(t)
           \/ \E w \in sweeps : Sweep(w)
           \/ \E w \in sweeps : \E t \in w.doomed : SweepCancel(w, t)
    PROVE  SInv'
<1>1. ASSUME NEW c \in Clients, Settle(c) \/ CancelRequests(c) \/ Fail(c)
      PROVE  SInv'
  BY <1>1, EndsSound DEF Settle, CancelRequests, Fail, Continues
<1>2. ASSUME NEW c \in Clients, AfterIssue(c)
      PROVE  SInv'
  <2>1. CASE suspended \cap Owners = {}
    BY <1>2, <2>1, EndsSound DEF AfterIssue, Continues
  <2>2. CASE suspended \cap Owners # {}
    <3> DEFINE x == [Idle EXCEPT !.pc = "programme",
                       !.op = [kind |-> "FreezeIssued", units |-> txn[c].op.units,
                               cos |-> suspended \cap Owners]]
    <3>1. x.pc = "programme" BY DEF Idle
    <3>2. txn' = [txn EXCEPT ![c] = x] /\ UNCHANGED <<programme, issueOverlapped>>
      BY <1>2, <2>2 DEF AfterIssue, Continues
    <3>3. Busy(c) /\ Issuing(txn[c].op)
      BY <1>2 DEF AfterIssue, Busy, Issuing, TInv, ClientsTyped, GoodTxn
    <3> HIDE DEF x
    <3> QED BY <3>1, <3>2, <3>3, SoundMove DEF Reads, TInv, ClientsTyped
  <2> QED BY <2>1, <2>2
<1>3. ASSUME NEW t \in DOMAIN transfers, TransferCancel(t) \/ TransferReject(t)
      PROVE  SInv'
  BY <1>3, SoundStill DEF TransferCancel, TransferReject, Withdraw, Continues
<1>4. ASSUME NEW w \in sweeps, Sweep(w)
      PROVE  SInv'
  BY <1>4, SoundStill DEF Sweep, Continues
<1>5. ASSUME NEW w \in sweeps, NEW t \in w.doomed, SweepCancel(w, t)
      PROVE  SInv'
  BY <1>5, SoundStill DEF SweepCancel, Continues
<1> QED BY <1>1, <1>2, <1>3, <1>4, <1>5 DEF Afterwards

LEMMA InitSound == ASSUME ProgrammeAssumption, PInit PROVE SInv
<1>1. AddsUp(programme)
  <2>1. \A o \in Owners : Authorised * Weight[o] \in Nat BY DEF ProgrammeAssumption
  <2> QED BY <2>1 DEF PInit, AddsUp, Shares, None
<1>2. \A c \in Clients : txn[c].pc = "idle" BY DEF PInit, Idle
<1> QED BY <1>1, <1>2 DEF SInv, Sound, Reads, Busy

LEMMA SoundKept == ASSUME ProgrammeAssumption, TInv, SInv, [PNext]_pvars PROVE SInv'
<1>1. CASE UNCHANGED pvars BY <1>1, SoundStill DEF pvars
<1>2. CASE PNext
  BY <1>2, RequestsSound, ApprovalSound, LedgerSound, OthersSound DEF PNext
<1> QED BY <1>1, <1>2

\* However payments, retirements and freezes overlap, what each owner holds, has
\* transferred and has retired is its share of what was issued, as long as no
\* issuance overlaps another request.  The argument: an operation writes what it
\* computed from a row only while that row is the latest (its second read names
\* the txTime), or it issues credits and is alone.
THEOREM EachShareAddsUp == PSpec => []ProgrammeAddsUp
<1>1. PInit => TInv /\ SInv BY InitTyped, InitSound, ProgrammeAssumption
<1>2. TInv /\ SInv /\ [PNext]_pvars => TInv' /\ SInv'
  BY TypesKept, SoundKept, ProgrammeAssumption
<1>3. TInv /\ SInv => ProgrammeAddsUp BY DEF SInv, Sound, ProgrammeAddsUp
<1> QED BY <1>1, <1>2, <1>3, PTL DEF PSpec

-----------------------------------------------------------------------------
(* The credits of suspended companies *)

HeldBack(p) == \A o \in Owners : p.frozen[o] = IF o \in suspended THEN p.holding[o] ELSE 0

\* Units have been issued, and those of the suspended owners are still to be frozen.
IssuedFree(p, n) ==
    \A o \in Owners : IF o \in suspended THEN p.frozen[o] + n * Weight[o] = p.holding[o]
                                         ELSE p.frozen[o] = 0

\* The row an operation finds when nothing overlaps it, and the one it leaves.
Before(op, p) ==
    CASE op.kind \in {"Pay", "Issue"} -> HeldBack(p)
      [] op.kind = "Freeze" ->
            /\ op.co \in suspended
            /\ \A o \in Owners : p.frozen[o] = IF o \in suspended \ {op.co} THEN p.holding[o] ELSE 0
      [] op.kind = "Unfreeze" ->
            /\ op.co \notin suspended
            /\ \A o \in Owners \ {op.co} : p.frozen[o] = IF o \in suspended THEN p.holding[o] ELSE 0
      [] op.kind = "FreezeIssued" -> op.cos = suspended \cap Owners /\ IssuedFree(p, op.units)

After(op, p) == IF op.kind = "Issue" THEN IssuedFree(p, op.units) ELSE HeldBack(p)

Written(x) == IF x.latest = <<>> THEN programme ELSE x.latest

\* How far the operation of a client has come.
Progress(x) ==
    CASE x.pc \in {"found", "history", "programme"} -> Before(x.op, programme)
      [] x.pc \in {"accounts", "merge"} ->
            x.row = programme /\ x.fresh /\ Before(x.op, programme)
      [] x.pc = "commit" -> After(x.op, Written(x))
      [] x.pc \in {"settle", "issued"} -> After(x.op, programme)
      [] x.pc = "cancel" -> HeldBack(programme)
      [] x.pc = "idle" -> TRUE

Freezing ==
    /\ \A c \in Clients : Progress(txn[c])
    /\ \A c, d \in Clients : Busy(c) /\ Busy(d) => c = d
    /\ (\A c \in Clients : ~Busy(c)) => HeldBack(programme)

FInv == ~overlapped /\ failures = 0 => Freezing

\* What an operation computes from the latest row does what it is there for.
LEMMA Computed ==
    ASSUME ProgrammeAssumption, PTypeOK,
           NEW op, GoodOp(op, DOMAIN transfers), op.kind # "None", Before(op, programme),
           NEW processed, LedgerAllows(op, processed, programme)
    PROVE  After(op, IF Nothing(op, programme) THEN programme
                     ELSE Updated(op, programme, programme))
<1> DEFINE p == programme
           u == Updated(op, p, p)
<1>0. /\ p.holding \in [Owners -> Nat] /\ p.frozen \in [Owners -> Nat]
      /\ \A o \in Owners : Weight[o] \in Nat
  BY DEF PTypeOK, Programme, ProgrammeAssumption
<1>00. p = [issued |-> p.issued, holding |-> p.holding, frozen |-> p.frozen,
            transferred |-> p.transferred, retired |-> p.retired]
  BY DEF PTypeOK, Programme
<1>1. CASE op.kind = "Pay"
  <2> DEFINE t == transfers[op.t]
             left == [p.holding EXCEPT ![t.from] = @ - t.amount]
  <2>1. t.from \in Owners /\ t.amount \in Nat BY <1>1 DEF GoodOp, PTypeOK, Transfer
  <2>2. p.holding[t.from] - p.frozen[t.from] >= t.amount
    BY <1>1 DEF LedgerAllows, Available
  <2>3. u.holding = left /\ u.frozen = p.frozen
    BY <1>1, <1>00 DEF Updated, Paid
  <2>4. HeldBack(p) BY <1>1 DEF Before
  <2> HIDE DEF t, u
  <2>5. \A o \in Owners : left[o] = p.holding[o] \/ (o = t.from /\ o \notin suspended)
    BY <1>0, <2>1, <2>2, <2>4 DEF HeldBack
  <2> HIDE DEF left, p
  <2>6. HeldBack(u) BY <2>3, <2>4, <2>5 DEF HeldBack
  <2> QED BY <1>1, <2>6 DEF After, Nothing, u, p
<1>2. CASE op.kind = "Issue"
  <2>1. u.frozen = p.frozen /\ u.holding = [o \in Owners |-> p.holding[o] + op.units * Weight[o]]
    BY <1>1, <1>2, <1>00 DEF Updated
  <2>2. HeldBack(p) /\ op.units \in Nat BY <1>2 DEF Before, GoodOp
  <2> HIDE DEF u
  <2>3. \A o \in Owners : op.units * Weight[o] \in Nat BY <1>0, <2>2
  <2>4. IssuedFree(u, op.units)
    BY <1>0, <2>1, <2>2, <2>3 DEF HeldBack, IssuedFree
  <2> QED BY <1>2, <2>4 DEF After, Nothing, u
<1>3. CASE op.kind = "Freeze"
  <2>1. /\ op.co \in suspended
        /\ \A o \in Owners : p.frozen[o] = IF o \in suspended \ {op.co} THEN p.holding[o] ELSE 0
    BY <1>3 DEF Before
  <2>2. CASE Nothing(op, p)
    <3>1. op.co \notin Owners \/ p.holding[op.co] = 0 BY <1>3, <2>2 DEF Nothing
    <3>2. HeldBack(p) BY <2>1, <3>1 DEF HeldBack
    <3> QED BY <1>3, <2>2, <3>2 DEF After
  <2>3. CASE ~Nothing(op, p)
    <3>1. u.holding = p.holding /\ u.frozen = [p.frozen EXCEPT ![op.co] = p.holding[op.co]]
      BY <1>3, <1>00 DEF Updated
    <3> HIDE DEF u
    <3>2. HeldBack(u) BY <1>0, <2>1, <3>1 DEF HeldBack
    <3> QED BY <1>3, <2>3, <3>2 DEF After, u
  <2> QED BY <2>2, <2>3
<1>4. CASE op.kind = "Unfreeze"
  <2>1. /\ op.co \notin suspended
        /\ \A o \in Owners \ {op.co} : p.frozen[o] = IF o \in suspended THEN p.holding[o] ELSE 0
    BY <1>4 DEF Before
  <2>2. CASE Nothing(op, p)
    <3>1. op.co \notin Owners \/ p.frozen[op.co] = 0 BY <1>4, <2>2 DEF Nothing
    <3>2. HeldBack(p) BY <2>1, <3>1 DEF HeldBack
    <3> QED BY <1>4, <2>2, <3>2 DEF After
  <2>3. CASE ~Nothing(op, p)
    <3>1. u.holding = p.holding /\ u.frozen = [p.frozen EXCEPT ![op.co] = 0]
      BY <1>4, <1>00 DEF Updated
    <3> HIDE DEF u
    <3>2. HeldBack(u) BY <1>0, <2>1, <3>1 DEF HeldBack
    <3> QED BY <1>4, <2>3, <3>2 DEF After, u
  <2> QED BY <2>2, <2>3
<1>5. CASE op.kind = "FreezeIssued"
  <2>1. op.cos = suspended \cap Owners /\ IssuedFree(p, op.units) BY <1>5 DEF Before
  <2>2. /\ u.holding = p.holding
        /\ u.frozen = [o \in Owners |-> p.frozen[o] + (IF o \in op.cos THEN op.units * Weight[o] ELSE 0)]
    BY <1>5, <1>00 DEF Updated
  <2> HIDE DEF u
  <2>3. HeldBack(u) BY <1>0, <2>1, <2>2 DEF HeldBack, IssuedFree
  <2> QED BY <1>5, <2>3 DEF After, Nothing, u
<1> QED BY <1>1, <1>2, <1>3, <1>4, <1>5 DEF GoodOp, OpKinds

\* One client goes on, nothing else changes.
LEMMA FreezingMoves ==
    ASSUME FInv, DOMAIN txn = Clients, NEW c \in Clients, NEW x, txn' = [txn EXCEPT ![c] = x],
           UNCHANGED <<programme, suspended, overlapped, failures>>, Busy(c),
           Freezing => Progress(x) /\ (x.pc = "idle" => HeldBack(programme))
    PROVE  FInv'
<1> SUFFICES ASSUME ~overlapped, failures = 0 PROVE Freezing'
  BY DEF FInv
<1>1. Freezing BY DEF FInv
<1>2. txn'[c] = x /\ \A d \in Clients \ {c} : txn'[d] = txn[d] OBVIOUS
<1>3. \A d \in Clients : txn'[d] = IF d = c THEN x ELSE txn[d] BY <1>2
<1>4. ASSUME NEW d \in Clients PROVE Progress(txn[d])'
  <2>1. Progress(txn'[d])
    BY <1>1, <1>3 DEF Freezing
  <2> QED BY <2>1 DEF Progress, Before, After, Written, HeldBack, IssuedFree
<1>5. \A d, e \in Clients : Busy(d)' /\ Busy(e)' => d = e
  BY <1>1, <1>3 DEF Freezing, Busy
<1>6. (\A d \in Clients : ~Busy(d)') => HeldBack(programme)'
  BY <1>1, <1>3 DEF Busy, HeldBack
<1> QED BY <1>4, <1>5, <1>6 DEF Freezing

LEMMA FreezingStill ==
    ASSUME FInv, UNCHANGED <<txn, programme, suspended, overlapped, failures>>
    PROVE  FInv'
<1> SUFFICES ASSUME Freezing PROVE Freezing'
  BY DEF FInv
<1>1. ASSUME NEW d \in Clients PROVE Progress(txn[d])'
  <2>1. Progress(txn[d]) BY DEF Freezing
  <2> QED BY <2>1 DEF Progress, Before, After, Written, HeldBack, IssuedFree
<1> QED BY <1>1 DEF Freezing, Busy, HeldBack

\* A request begins where nothing is going on, unless it overlaps another.
LEMMA FreezingBegins ==
    ASSUME FInv, DOMAIN txn = Clients, NEW c \in Clients, NEW op, NEW pc,
           pc \in {"found", "history", "programme"}, Begins(c, op, pc), UNCHANGED <<programme, failures>>,
           HeldBack(programme) => Before(op, programme)'
    PROVE  FInv'
<1> SUFFICES ASSUME ~overlapped', failures' = 0 PROVE Freezing'
  BY DEF FInv
<1>1. ~overlapped /\ \A d \in Clients : ~Busy(d) BY DEF Begins
<1>2. HeldBack(programme) BY <1>1 DEF FInv, Freezing
<1> DEFINE x == [Idle EXCEPT !.pc = pc, !.op = op]
<1>3. x.pc = pc /\ x.op = op BY DEF Idle
<1>4. txn'[c] = x /\ \A d \in Clients \ {c} : txn'[d] = txn[d] BY DEF Begins
<1> HIDE DEF x
<1>5. \A d \in Clients \ {c} : txn'[d].pc = "idle" BY <1>1, <1>4 DEF Busy
<1>6. ASSUME NEW d \in Clients PROVE Progress(txn[d])'
  <2>1. CASE d = c
    <3>1. txn'[d].pc \in {"found", "history", "programme"} /\ txn'[d].op = op BY <1>3, <1>4, <2>1
    <3>2. Before(op, programme)' BY <1>2
    <3> QED BY <3>1, <3>2 DEF Progress, Before
  <2>2. CASE d # c
    <3>1. txn'[d].pc = "idle" BY <1>5, <2>2
    <3> QED BY <3>1 DEF Progress
  <2> QED BY <2>1, <2>2
<1>7. Busy(c)' /\ \A d \in Clients \ {c} : ~Busy(d)' BY <1>3, <1>4, <1>5 DEF Busy
<1> QED BY <1>6, <1>7 DEF Freezing

LEMMA RequestsFreeze ==
    ASSUME TInv, FInv, NEW c \in Clients, Requests(c)
    PROVE  FInv'
<1>0. DOMAIN txn = Clients BY DEF TInv, ClientsTyped
<1>1. ASSUME NEW op, op.kind \in {"Pay", "Issue"}, UNCHANGED <<programme, suspended>>
      PROVE  HeldBack(programme) => Before(op, programme)'
  BY <1>1 DEF Before, HeldBack
<1>2. ASSUME NEW t, NEW auto \in BOOLEAN, Store(c, t, auto)
      PROVE  FInv'
  <2>1. CASE auto
    <3> DEFINE op == [kind |-> "Pay", t |-> Cardinality(DOMAIN transfers) + 1]
    <3>1. Begins(c, op, "history") /\ UNCHANGED <<programme, suspended, failures>> /\ op.kind = "Pay"
      BY <1>2, <2>1 DEF Store
    <3> HIDE DEF op
    <3> QED BY <1>0, <1>1, <3>1, FreezingBegins
  <2>2. CASE ~auto BY <1>2, <2>2, FreezingStill DEF Store, Continues
  <2> QED BY <2>1, <2>2
<1>3. CASE \E from \in Owners, to \in Companies, n \in Amounts, auto \in BOOLEAN :
             TransferRequest(c, from, to, n, auto)
  BY <1>2, <1>3 DEF TransferRequest
<1>4. CASE \E kind \in {"CrossBorder", "Local"}, from \in Owners, n \in Amounts, auto \in BOOLEAN :
             RetireProgramme(c, kind, from, n, auto)
  BY <1>2, <1>4 DEF RetireProgramme
<1>5. ASSUME NEW t \in DOMAIN transfers, Approve(c, t)
      PROVE  FInv'
  <2> DEFINE op == [kind |-> "Pay", t |-> t, found |-> transfers[t].status]
  <2>1. Begins(c, op, "found") /\ UNCHANGED <<programme, suspended, failures>> /\ op.kind = "Pay"
    BY <1>5 DEF Approve
  <2> HIDE DEF op
  <2> QED BY <1>0, <1>1, <2>1, FreezingBegins
<1>6. ASSUME NEW n \in 1 .. Estimate, IssueUnits(c, n)
      PROVE  FInv'
  <2> DEFINE op == [kind |-> "Issue", units |-> n]
  <2>1. Begins(c, op, "programme") /\ UNCHANGED <<programme, suspended, failures>> /\ op.kind = "Issue"
    BY <1>6 DEF IssueUnits
  <2> HIDE DEF op
  <2> QED BY <1>0, <1>1, <2>1, FreezingBegins
<1>7. ASSUME NEW co \in Companies, Suspend(c, co)
      PROVE  FInv'
  <2> DEFINE op == [kind |-> "Freeze", co |-> co]
  <2>1. Begins(c, op, "programme") /\ UNCHANGED <<programme, failures>> /\ op.kind = "Freeze" /\ op.co = co
    BY <1>7 DEF Suspend
  <2>2. suspended' = suspended \cup {co} /\ co \notin suspended BY <1>7 DEF Suspend
  <2> HIDE DEF op
  <2>3. HeldBack(programme) => Before(op, programme)' BY <2>1, <2>2 DEF HeldBack, Before
  <2> QED BY <1>0, <2>1, <2>3, FreezingBegins
<1>8. ASSUME NEW co \in Companies, Activate(c, co)
      PROVE  FInv'
  <2> DEFINE op == [kind |-> "Unfreeze", co |-> co]
  <2>1. Begins(c, op, "programme") /\ UNCHANGED <<programme, failures>> /\ op.kind = "Unfreeze" /\ op.co = co
    BY <1>8 DEF Activate
  <2>2. suspended' = suspended \ {co} BY <1>8 DEF Activate
  <2> HIDE DEF op
  <2>3. HeldBack(programme) => Before(op, programme)' BY <2>1, <2>2 DEF HeldBack, Before
  <2> QED BY <1>0, <2>1, <2>3, FreezingBegins
<1> QED BY <1>3, <1>4, <1>5, <1>6, <1>7, <1>8 DEF Requests

\* A request ends whose operation has nothing left to freeze.
LEMMA EndsFreeze ==
    ASSUME TInv, FInv, NEW c \in Clients, Ends(c), Busy(c),
           UNCHANGED <<programme, suspended, overlapped, failures>>,
           Freezing => HeldBack(programme)
    PROVE  FInv'
<1>1. DOMAIN txn = Clients BY DEF TInv, ClientsTyped
<1>2. Progress(Idle) BY DEF Progress, Idle
<1> QED BY <1>1, <1>2, FreezingMoves DEF Ends

LEMMA ApprovalFreezes ==
    ASSUME TInv, FInv, NEW c \in Clients, Approval(c)
    PROVE  FInv'
<1>0. DOMAIN txn = Clients /\ GoodTxn(txn[c], DOMAIN transfers) /\ DOMAIN txn[c] = Fields
  BY DEF TInv, ClientsTyped, GoodTxn
<1>1. txn[c].pc = "found" /\ Busy(c) /\ UNCHANGED <<programme, suspended, overlapped, failures>>
  BY DEF Approval, TurnDown, NotPending, TakeUp, Resume, Continues, Busy
<1>2. txn[c].op.kind = "Pay" BY <1>0, <1>1 DEF GoodTxn
<1>3. Freezing => HeldBack(programme)
  <2>1. Freezing => Before(txn[c].op, programme) BY <1>1 DEF Freezing, Progress
  <2> QED BY <1>2, <2>1 DEF Before
<1>4. CASE TurnDown(c) \/ NotPending(c)
  BY <1>1, <1>3, <1>4, EndsFreeze DEF TurnDown, NotPending
<1>5. CASE TakeUp(c) \/ Resume(c)
  <2> DEFINE x == [txn[c] EXCEPT !.pc = "history", !.op = [kind |-> "Pay", t |-> txn[c].op.t]]
  <2>1. x.pc = "history" /\ x.op.kind = "Pay" BY <1>0 DEF Fields
  <2>2. txn' = [txn EXCEPT ![c] = x] BY <1>5 DEF TakeUp, Resume
  <2> HIDE DEF x
  <2>3. HeldBack(programme) => Progress(x) BY <2>1 DEF Progress, Before
  <2> QED BY <1>0, <1>1, <1>3, <2>1, <2>2, <2>3, FreezingMoves
<1> QED BY <1>4, <1>5 DEF Approval

LEMMA LedgerFreezes ==
    ASSUME ProgrammeAssumption, TInv, FInv, NEW c \in Clients, Ledger(c)
    PROVE  FInv'
<1>0. /\ DOMAIN txn = Clients
      /\ GoodTxn(txn[c], DOMAIN transfers)
      /\ DOMAIN txn[c] = Fields
  BY DEF TInv, ClientsTyped, GoodTxn
<1>1. CASE ReadHistory(c)
  <2> DEFINE x == [txn[c] EXCEPT !.pc = "programme", !.processed = txn[c].op.t \in named]
  <2>1. x.pc = "programme" /\ x.op = txn[c].op BY <1>0 DEF Fields
  <2>2. txn' = [txn EXCEPT ![c] = x] /\ UNCHANGED <<programme, suspended, overlapped, failures>> /\ Busy(c)
    BY <1>1 DEF ReadHistory, Continues, Busy
  <2> HIDE DEF x
  <2>3. Freezing => Progress(x) BY <1>1, <2>1 DEF ReadHistory, Freezing, Progress
  <2> QED BY <1>0, <2>1, <2>2, <2>3, FreezingMoves
<1>2. CASE ReadProgramme(c)
  <2> DEFINE x == [txn[c] EXCEPT
                     !.pc = IF txn[c].op.kind \in {"Pay", "Issue"} THEN "accounts" ELSE "merge",
                     !.row = programme, !.fresh = TRUE]
  <2>1. /\ x.pc \in {"accounts", "merge"} /\ x.op = txn[c].op /\ x.row = programme /\ x.fresh
    BY <1>0 DEF Fields
  <2>2. txn' = [txn EXCEPT ![c] = x] /\ UNCHANGED <<programme, suspended, overlapped, failures>> /\ Busy(c)
    BY <1>2 DEF ReadProgramme, Continues, Busy
  <2> HIDE DEF x
  <2>3. Freezing => Progress(x) BY <1>2, <2>1 DEF ReadProgramme, Freezing, Progress
  <2> QED BY <1>0, <2>1, <2>2, <2>3, FreezingMoves
<1>3. CASE ReadAccounts(c)
  <2> DEFINE x == [txn[c] EXCEPT !.pc = "merge", !.balances = accounts]
  <2>1. x.pc = "merge" /\ x.op = txn[c].op /\ x.row = txn[c].row /\ x.fresh = txn[c].fresh
    BY <1>0 DEF Fields
  <2>2. txn' = [txn EXCEPT ![c] = x] /\ UNCHANGED <<programme, suspended, overlapped, failures>> /\ Busy(c)
    BY <1>3 DEF ReadAccounts, Continues, Busy
  <2> HIDE DEF x
  <2>3. Freezing => Progress(x) BY <1>3, <2>1 DEF ReadAccounts, Freezing, Progress
  <2> QED BY <1>0, <2>1, <2>2, <2>3, FreezingMoves
<1>4. CASE Refuse(c)
  <2>1. txn[c].op.kind = "Pay" BY <1>4 DEF Refuse, LedgerAllows
  <2>2. Freezing => HeldBack(programme) BY <1>4, <2>1 DEF Refuse, Freezing, Progress, Before
  <2> QED BY <1>4, <2>2, EndsFreeze DEF Refuse, Continues, Busy
<1>5. CASE Merge(c)
  <2> DEFINE op == txn[c].op
             y == IF Nothing(op, txn[c].row) \/ (NamesTxTime(op) /\ ~txn[c].fresh)
                  THEN <<>> ELSE Updated(op, txn[c].row, programme)
             x == [txn[c] EXCEPT !.pc = "commit", !.latest = y]
  <2>1. x.pc = "commit" /\ x.op = op /\ x.latest = y
    <3> HIDE DEF y
    <3> QED BY <1>0 DEF Fields
  <2>2. txn' = [txn EXCEPT ![c] = x] /\ UNCHANGED <<programme, suspended, overlapped, failures>> /\ Busy(c)
    BY <1>5 DEF Merge, Continues, Busy
  <2>3. ASSUME Freezing PROVE After(op, IF y = <<>> THEN programme ELSE y)
    <3>1. txn[c].row = programme /\ txn[c].fresh /\ Before(op, programme)
      BY <1>5, <2>3 DEF Merge, Freezing, Progress
    <3>2. LedgerAllows(op, txn[c].processed, programme) /\ op.kind # "None" /\ GoodOp(op, DOMAIN transfers)
      BY <1>0, <1>5, <3>1 DEF Merge, GoodTxn
    <3>3. PTypeOK /\ programme \in Programme BY DEF TInv, PTypeOK
    <3> DEFINE u == Updated(op, programme, programme)
    <3>4. u \in Programme BY <3>2, <3>3, UpdatedTyped
    <3>5. u # <<>>
      <4> HIDE DEF u
      <4>1. "issued" \in DOMAIN u BY <3>4 DEF Programme
      <4>2. "issued" \notin DOMAIN <<>> OBVIOUS
      <4> QED BY <4>1, <4>2
    <3>6. After(op, IF Nothing(op, programme) THEN programme ELSE u)
      BY <3>1, <3>2, <3>3, Computed
    <3>7. y = IF Nothing(op, programme) THEN <<>> ELSE u BY <3>1
    <3> HIDE DEF u, y
    <3> QED BY <3>5, <3>6, <3>7
  <2> HIDE DEF x, y
  <2>4. Freezing => Progress(x) BY <2>1, <2>3 DEF Progress, Written
  <2> QED BY <1>0, <2>1, <2>2, <2>4, FreezingMoves
<1>6. CASE Commit(c)
  <2> SUFFICES ASSUME ~overlapped, failures = 0 PROVE Freezing'
    BY <1>6 DEF FInv, Commit, Continues
  <2>1. Freezing BY DEF FInv
  <2>2. txn[c].pc = "commit" /\ Busy(c) BY <1>6 DEF Commit, Busy
  <2>3. programme' = Written(txn[c]) /\ suspended' = suspended BY <1>6 DEF Commit, Written
  <2>4. After(txn[c].op, programme') BY <2>1, <2>2, <2>3 DEF Freezing, Progress
  <2>5. txn[c].op.kind \in OpKinds \ {"None"} BY <1>0, <2>2 DEF GoodTxn, GoodOp
  <2>6. txn'[c] = IF Next2(txn[c].op) = "idle" THEN Idle
                  ELSE [Idle EXCEPT !.pc = Next2(txn[c].op), !.op = txn[c].op,
                           !.row = IF txn[c].op.kind = "Pay" THEN txn[c].row ELSE <<>>]
    BY <1>6 DEF Commit
  <2>7. /\ txn'[c].pc = Next2(txn[c].op)
        /\ txn'[c].pc # "idle" => txn'[c].op = txn[c].op
    BY <2>6 DEF Idle
  <2>8. ASSUME NEW d \in Clients \ {c} PROVE txn'[d].pc = "idle"
    <3>1. txn[d].pc = "idle" BY <2>1, <2>2 DEF Freezing, Busy
    <3>2. DOMAIN txn[d] = Fields BY DEF TInv, ClientsTyped, GoodTxn
    <3> QED BY <1>6, <3>1, <3>2 DEF Commit, Fields
  <2>9. Next2(txn[c].op) \in {"settle", "issued", "cancel", "idle"} BY DEF Next2
  <2>10. ASSUME NEW d \in Clients PROVE Progress(txn[d])'
    <3>1. CASE d # c
      <4>1. txn'[d].pc = "idle" BY <2>8, <3>1
      <4> QED BY <4>1 DEF Progress
    <3>2. CASE txn'[c].pc = "idle" /\ d = c BY <3>2 DEF Progress
    <3>3. CASE txn'[c].pc \in {"settle", "issued"} /\ d = c
      <4>1. txn'[c].op = txn[c].op BY <2>7, <3>3
      <4>2. After(txn[c].op, programme)' BY <2>3, <2>4, <4>1 DEF After, IssuedFree, HeldBack
      <4> QED BY <3>3, <4>2 DEF Progress
    <3>4. CASE txn'[c].pc = "cancel" /\ d = c
      <4>1. txn[c].op.kind # "Issue" BY <2>7, <3>4 DEF Next2
      <4>2. HeldBack(programme)' BY <2>3, <2>4, <4>1 DEF After, HeldBack
      <4> QED BY <3>4, <4>2 DEF Progress
    <3> QED BY <2>7, <2>9, <3>1, <3>2, <3>3, <3>4
  <2>11. \A d, e \in Clients : Busy(d)' /\ Busy(e)' => d = e BY <2>8 DEF Busy
  <2>12. (\A d \in Clients : ~Busy(d)') => HeldBack(programme)'
    <3> SUFFICES ASSUME \A d \in Clients : ~Busy(d)' PROVE HeldBack(programme)'
      OBVIOUS
    <3>1. Next2(txn[c].op) = "idle" BY <2>7 DEF Busy
    <3>2. txn[c].op.kind # "Issue" BY <3>1 DEF Next2
    <3> QED BY <2>3, <2>4, <3>2 DEF After, HeldBack
  <2> QED BY <2>10, <2>11, <2>12 DEF Freezing
<1> QED BY <1>1, <1>2, <1>3, <1>4, <1>5, <1>6 DEF Ledger

LEMMA OthersFreeze ==
    ASSUME TInv, FInv,
           \/ \E c \in Clients : Afterwards(c) \/ Fail(c)
           \/ \E t \in DOMAIN transfers : TransferCancel(t) \/ TransferReject(t)
           \/ \E w \in sweeps : Sweep(w)
           \/ \E w \in sweeps : \E t \in w.doomed : SweepCancel(w, t)
    PROVE  FInv'
<1>0. DOMAIN txn = Clients BY DEF TInv, ClientsTyped
<1>1. ASSUME NEW c \in Clients, Settle(c)
      PROVE  FInv'
  <2>1. txn[c].op.kind = "Pay" BY <1>1 DEF Settle, TInv, ClientsTyped, GoodTxn
  <2>2. Freezing => HeldBack(programme) BY <1>1, <2>1 DEF Settle, Freezing, Progress, After
  <2> QED BY <1>1, <2>2, EndsFreeze DEF Settle, Continues, Busy
<1>2. ASSUME NEW c \in Clients, CancelRequests(c)
      PROVE  FInv'
  <2>1. Freezing => HeldBack(programme) BY <1>2 DEF CancelRequests, Freezing, Progress
  <2> QED BY <1>2, <2>1, EndsFreeze DEF CancelRequests, Continues, Busy
<1>3. ASSUME NEW c \in Clients, AfterIssue(c)
      PROVE  FInv'
  <2>1. /\ txn[c].op.kind = "Issue" /\ Busy(c)
        /\ UNCHANGED <<programme, suspended, overlapped, failures>>
    BY <1>3 DEF AfterIssue, TInv, ClientsTyped, GoodTxn, Continues, Busy
  <2>2. Freezing => IssuedFree(programme, txn[c].op.units)
    BY <1>3, <2>1 DEF AfterIssue, Freezing, Progress, After
  <2>3. CASE suspended \cap Owners = {}
    <3>1. Freezing => HeldBack(programme) BY <2>2, <2>3 DEF IssuedFree, HeldBack
    <3> QED BY <1>3, <2>1, <2>3, <3>1, EndsFreeze DEF AfterIssue
  <2>4. CASE suspended \cap Owners # {}
    <3> DEFINE op == [kind |-> "FreezeIssued", units |-> txn[c].op.units, cos |-> suspended \cap Owners]
               x == [Idle EXCEPT !.pc = "programme", !.op = op]
    <3>1. x.pc = "programme" /\ x.op = op BY DEF Idle
    <3>2. txn' = [txn EXCEPT ![c] = x] BY <1>3, <2>4 DEF AfterIssue
    <3>3. Freezing => Before(op, programme) BY <2>2 DEF Before
    <3> HIDE DEF op, x
    <3>4. Freezing => Progress(x) BY <3>1, <3>3 DEF Progress
    <3> QED BY <1>0, <2>1, <3>1, <3>2, <3>4, FreezingMoves
  <2> QED BY <2>3, <2>4
<1>4. ASSUME NEW c \in Clients, Fail(c)
      PROVE  FInv'
  <2>1. failures \in Nat BY DEF TInv, PTypeOK
  <2>2. failures' # 0 BY <1>4, <2>1 DEF Fail
  <2> QED BY <2>2 DEF FInv
<1>5. ASSUME NEW t \in DOMAIN transfers, TransferCancel(t) \/ TransferReject(t)
      PROVE  FInv'
  BY <1>5, FreezingStill DEF TransferCancel, TransferReject, Withdraw, Continues
<1>6. ASSUME NEW w \in sweeps, Sweep(w)
      PROVE  FInv'
  BY <1>6, FreezingStill DEF Sweep, Continues
<1>7. ASSUME NEW w \in sweeps, NEW t \in w.doomed, SweepCancel(w, t)
      PROVE  FInv'
  BY <1>7, FreezingStill DEF SweepCancel, Continues
<1> QED BY <1>1, <1>2, <1>3, <1>4, <1>5, <1>6, <1>7 DEF Afterwards

LEMMA InitFreezes == ASSUME PInit PROVE FInv
<1>1. \A c \in Clients : txn[c].pc = "idle" BY DEF PInit, Idle
<1>2. HeldBack(programme)
  <2>1. suspended = {} /\ programme.frozen = None BY DEF PInit
  <2> QED BY <2>1 DEF HeldBack, None
<1>3. \A c \in Clients : Progress(txn[c]) BY <1>1 DEF Progress
<1> QED BY <1>1, <1>2, <1>3 DEF FInv, Freezing, Busy

LEMMA FreezingKept == ASSUME ProgrammeAssumption, TInv, FInv, [PNext]_pvars PROVE FInv'
<1>1. CASE UNCHANGED pvars BY <1>1, FreezingStill DEF pvars
<1>2. CASE PNext
  BY <1>2, RequestsFreeze, ApprovalFreezes, LedgerFreezes, OthersFreeze DEF PNext
<1> QED BY <1>1, <1>2

\* As long as no two requests overlap and none fails, a suspended owner can spend
\* nothing once its suspension is through: all it holds is frozen, also what was
\* issued to it afterwards.
THEOREM SuspendedSpendNothing == PSpec => []SuspendedHeldBack
<1>1. PInit => TInv /\ FInv BY InitTyped, InitFreezes, ProgrammeAssumption
<1>2. TInv /\ FInv /\ [PNext]_pvars => TInv' /\ FInv'
  BY TypesKept, FreezingKept, ProgrammeAssumption
<1>3. FInv => SuspendedHeldBack BY DEF FInv, Freezing, HeldBack, SuspendedHeldBack
<1> QED BY <1>1, <1>2, <1>3, PTL DEF PSpec

-----------------------------------------------------------------------------
(* Sums over finite sets, as in CorrespondingAdjustmentProofs *)

LEMMA SmallestSubset ==
    ASSUME NEW S, IsFiniteSet(S), NEW B \in SUBSET (SUBSET S), B # {}
    PROVE  \E s \in B : \A t \in B : t \subseteq s => t = s
  <1> DEFINE R == StrictSubsetOrdering(S)
             U == FiniteSubsetsOf(S)
  <1>1. IsWellFoundedOn(R, U)
    BY FS_StrictSubsetOrderingWellFounded
  <1>2. B \subseteq U
    BY FS_FiniteSubsetsOfFinite
  <1>3. \A s, t \in B : t \subseteq s /\ t # s => <<t, s>> \in R
    BY DEF StrictSubsetOrdering
  <1>4. \E s \in B : \A t \in B : <<t, s>> \notin R
    <2> HIDE DEF R, U
    <2> QED BY <1>1, <1>2, WFMin
  <1> QED BY <1>3, <1>4

\* The sum of w over s, as the size of a set with w[x] members for each x.
Units(w, s) == {p \in s \X Nat : p[2] \in 1 .. w[p[1]]}
Total(w, s) == Cardinality(Units(w, s))

LEMMA UnitsOfOne ==
    ASSUME NEW x, NEW n \in Nat
    PROVE  IsFiniteSet({x} \X (1 .. n)) /\ Cardinality({x} \X (1 .. n)) = n
  <1>1. IsFiniteSet({x}) /\ Cardinality({x}) = 1
    BY FS_Singleton
  <1>2. IsFiniteSet(1 .. n) /\ Cardinality(1 .. n) = n
    BY FS_Interval
  <1>3. /\ IsFiniteSet({x} \X (1 .. n))
        /\ Cardinality({x} \X (1 .. n)) = Cardinality({x}) * Cardinality(1 .. n)
    BY <1>1, <1>2, FS_Product
  <1>4. 1 * n = n
    OBVIOUS
  <1> QED BY <1>1, <1>2, <1>3, <1>4

LEMMA UnitsSplit ==
    ASSUME NEW S, NEW w \in [S -> Nat], NEW s \in SUBSET S, NEW x \in s
    PROVE  /\ Units(w, s) = Units(w, s \ {x}) \cup ({x} \X (1 .. w[x]))
           /\ Units(w, s \ {x}) \cap ({x} \X (1 .. w[x])) = {}
  BY DEF Units

LEMMA UnionIsFinite ==
    ASSUME NEW A, IsFiniteSet(A), NEW C, IsFiniteSet(C)
    PROVE  IsFiniteSet(A \cup C)
  BY FS_Union

LEMMA UnitsFinite ==
    ASSUME NEW S, IsFiniteSet(S), NEW w \in [S -> Nat], NEW s \in SUBSET S
    PROVE  IsFiniteSet(Units(w, s))
  <1> DEFINE B == {t \in SUBSET S : ~IsFiniteSet(Units(w, t))}
  <1> SUFFICES ASSUME B # {} PROVE FALSE
    OBVIOUS
  <1>1. PICK t \in B : \A u \in B : u \subseteq t => u = t
    <2> HIDE DEF B
    <2>1. B \in SUBSET (SUBSET S)
      BY DEF B
    <2> QED BY <2>1, SmallestSubset
  <1>2. CASE t = {}
    <2>1. Units(w, t) = {}
      BY <1>2 DEF Units
    <2> QED BY <2>1, FS_EmptySet
  <1>3. CASE t # {}
    <2> PICK x \in t : TRUE
      BY <1>3
    <2>1. IsFiniteSet(Units(w, t \ {x}))
      BY <1>1
    <2>2. w[x] \in Nat
      OBVIOUS
    <2> DEFINE A == Units(w, t \ {x})
               C == {x} \X (1 .. w[x])
    <2>3. IsFiniteSet(C)
      BY <2>2, UnitsOfOne
    <2>4. Units(w, t) = A \cup C
      <3> HIDE DEF B
      <3>1. t \in SUBSET S
        BY DEF B
      <3> QED BY <3>1, UnitsSplit
    <2>5. IsFiniteSet(A)
      BY <2>1
    <2>6. IsFiniteSet(A \cup C)
      <3> HIDE DEF A, B, C
      <3> QED BY <2>3, <2>5, UnionIsFinite
    <2>7. IsFiniteSet(Units(w, t))
      <3> HIDE DEF A, B, C
      <3> QED BY <2>4, <2>6
    <2> HIDE DEF A, C
    <2> QED BY <2>7
  <1> QED BY <1>2, <1>3

LEMMA TotalIsNat ==
    ASSUME NEW S, IsFiniteSet(S), NEW w \in [S -> Nat], NEW s \in SUBSET S
    PROVE  Total(w, s) \in Nat
  BY UnitsFinite, FS_CardinalityType DEF Total

LEMMA TotalOfNone ==
    ASSUME NEW w
    PROVE  Total(w, {}) = 0
  <1>1. Units(w, {}) = {}
    BY DEF Units
  <1> QED BY <1>1, FS_EmptySet DEF Total

\* Whichever member is taken first.
LEMMA TotalSplits ==
    ASSUME NEW S, IsFiniteSet(S), NEW w \in [S -> Nat], NEW s \in SUBSET S, NEW x \in s
    PROVE  Total(w, s) = Total(w, s \ {x}) + w[x]
  <1> DEFINE A == Units(w, s \ {x})
             C == {x} \X (1 .. w[x])
  <1>1. w[x] \in Nat
    OBVIOUS
  <1>2. IsFiniteSet(A) /\ Cardinality(A) \in Nat
    BY UnitsFinite, FS_CardinalityType
  <1>3. IsFiniteSet(C) /\ Cardinality(C) = w[x]
    BY <1>1, UnitsOfOne
  <1>4. Units(w, s) = A \cup C /\ A \cap C = {}
    BY UnitsSplit
  <1> HIDE DEF A, C
  <1>5. Cardinality(A \cap C) = 0
    BY <1>4, FS_EmptySet
  <1>6. Cardinality(A \cup C) = Cardinality(A) + Cardinality(C) - Cardinality(A \cap C)
    BY <1>2, <1>3, FS_Union
  <1>7. Total(w, s) = Cardinality(A) + w[x]
    BY <1>1, <1>2, <1>3, <1>4, <1>5, <1>6 DEF Total
  <1> QED BY <1>7 DEF A, Total

\* Only what w is on s matters.
LEMMA TotalSame ==
    ASSUME NEW s, NEW w, NEW v, \A x \in s : w[x] = v[x]
    PROVE  Total(w, s) = Total(v, s)
  <1>1. Units(w, s) = Units(v, s)
    BY DEF Units
  <1> QED BY <1>1 DEF Total

Pick(s) == CHOOSE x \in s : TRUE

\* What FoldSet computes is this sum, whatever CHOOSE takes first.
LEMMA FoldIsTotal ==
    ASSUME NEW S, IsFiniteSet(S), NEW w \in [S -> Nat], NEW T \in SUBSET S, NEW F,
           \A s \in SUBSET T :
              /\ s = {} => F[s] = 0
              /\ s # {} /\ F[s \ {Pick(s)}] \in Nat => F[s] = F[s \ {Pick(s)}] + w[Pick(s)]
    PROVE  F[T] = Total(w, T)
  <1> DEFINE B == {s \in SUBSET T : F[s] # Total(w, s)}
  <1> SUFFICES ASSUME B # {} PROVE FALSE
    OBVIOUS
  <1>1. PICK s \in B : \A u \in B : u \subseteq s => u = s
    <2> HIDE DEF B
    <2>1. B \in SUBSET (SUBSET S)
      BY DEF B
    <2> QED BY <2>1, SmallestSubset
  <1>2. CASE s = {}
    BY <1>2, TotalOfNone
  <1>3. CASE s # {}
    <2> DEFINE x == Pick(s)
    <2>1. x \in s
      BY <1>3 DEF Pick
    <2> HIDE DEF x
    <2>2. F[s \ {x}] = Total(w, s \ {x})
      BY <1>1, <2>1
    <2>3. Total(w, s \ {x}) \in Nat
      BY TotalIsNat
    <2>4. F[s] = F[s \ {x}] + w[x]
      BY <1>3, <2>2, <2>3 DEF x
    <2>5. Total(w, s) = Total(w, s \ {x}) + w[x]
      BY <2>1, TotalSplits
    <2>6. F[s] = Total(w, s)
      BY <2>2, <2>4, <2>5
    <2> QED BY <2>6
  <1> QED BY <1>2, <1>3

LEMMA TotalFolds ==
    ASSUME NEW S, IsFiniteSet(S), NEW w \in [S -> Nat]
    PROVE  \A s \in SUBSET S :
              /\ Total(w, s) \in Nat
              /\ Total(w, s) = IF s = {} THEN 0 ELSE Total(w, s \ {Pick(s)}) + w[Pick(s)]
  <1> TAKE s \in SUBSET S
  <1>1. CASE s = {}
    BY <1>1, TotalOfNone
  <1>2. CASE s # {}
    <2>1. Pick(s) \in s
      BY <1>2 DEF Pick
    <2> QED BY <1>2, <2>1, TotalIsNat, TotalSplits
  <1> QED BY <1>1, <1>2

-----------------------------------------------------------------------------
(* The accounts *)

PaidOnce == {t \in DOMAIN transfers : paid[t] > 0}

Receipts(a) == [t \in DOMAIN transfers |-> Received(transfers[t], a)]

Held(p, a) == IF a \in Owners THEN p.holding[a] ELSE 0

Balanced ==
    \A a \in Accounts : accounts[a] = Held(programme, a) + Total(Receipts(a), PaidOnce)

\* What an operation that nothing overlaps has left of each share.
Left(op, p) ==
    CASE op.kind = "Pay" ->
            [p.holding EXCEPT ![transfers[op.t].from] = @ - transfers[op.t].amount]
      [] op.kind = "Issue" -> [o \in Owners |-> p.holding[o] + op.units * Weight[o]]
      [] OTHER -> p.holding

\* What a client knows of the books, by the step it is at.
Informed(x) ==
    /\ x.pc \in {"programme", "accounts", "merge", "commit"} /\ x.op.kind = "Pay" /\ ~x.processed =>
         x.op.t \notin named
    /\ x.pc \in {"accounts", "merge"} => x.row = programme /\ x.fresh
    /\ x.pc \in {"merge", "commit"} /\ x.op.kind \in {"Pay", "Issue"} => x.balances = accounts
    /\ x.pc = "commit" => Written(x).holding = Left(x.op, programme)
    /\ x.pc = "commit" /\ x.op.kind = "Pay" => x.latest # <<>> /\ ~x.processed
    /\ x.pc = "settle" => paid[x.op.t] > 0

Accounting ==
    /\ Balanced
    /\ \A t \in DOMAIN transfers :
         /\ paid[t] > 0 => t \in named
         /\ transfers[t].status = "Approved" => paid[t] > 0
    /\ \A c \in Clients : Informed(txn[c])
    /\ \A c, d \in Clients : Busy(c) /\ Busy(d) => c = d

AInv == ~overlapped => Accounting

LEMMA ReceivedNat ==
    ASSUME ProgrammeAssumption, NEW t \in Transfer, NEW a
    PROVE  Received(t, a) \in Nat
<1>1. t.amount \in Nat /\ OmgePercentage \in 0 .. 100 BY DEF Transfer, ProgrammeAssumption
<1>2. ASSUME NEW n \in Nat, NEW p \in 0 .. 100
      PROVE  (n * p) \div 100 \in 0 .. n
  <2>1. n * p \in Nat /\ n * p <= 100 * n
    <3>1. PICK q \in Nat : p + q = 100
      <4>1. 100 - p \in Nat /\ p + (100 - p) = 100 OBVIOUS
      <4> QED BY <4>1
    <3>2. n * p \in Nat /\ n * q \in Nat OBVIOUS
    <3>3. n * (p + q) = n * p + n * q OBVIOUS
    <3>4. n * 100 = n * p + n * q BY <3>1, <3>3
    <3>5. n * 100 = 100 * n OBVIOUS
    <3> QED BY <3>2, <3>4, <3>5
  <2>2. PICK z \in Nat : z = n * p BY <2>1
  <2>3. z <= 100 * n BY <2>1, <2>2
  <2>4. z \div 100 \in 0 .. n BY <2>3
  <2> QED BY <2>2, <2>4
<1>3. OmgeCredits(t) \in 0 .. t.amount
  <2> DEFINE n == t.amount
  <2>1. (n * OmgePercentage) \div 100 \in 0 .. n BY <1>1, <1>2
  <2>2. 0 \in 0 .. n BY <1>1
  <2> QED BY <2>1, <2>2 DEF OmgeCredits
<1>4. OmgeCredits(t) \in Nat /\ t.amount - OmgeCredits(t) \in Nat BY <1>1, <1>3
<1> HIDE DEF OmgeCredits
<1> QED BY <1>1, <1>4 DEF Received

LEMMA RequestsFinite == ASSUME TInv PROVE IsFiniteSet(DOMAIN transfers)
BY FS_Interval DEF TInv, Numbered

LEMMA ReceiptsAre ==
    ASSUME ProgrammeAssumption, TInv, NEW a
    PROVE  Receipts(a) \in [DOMAIN transfers -> Nat]
<1>1. \A t \in DOMAIN transfers : Received(transfers[t], a) \in Nat
  BY ReceivedNat DEF TInv, PTypeOK
<1> QED BY <1>1 DEF Receipts

Summing(F, S, a) ==
    F = [s \in SUBSET S |->
           IF s = {} THEN 0 ELSE Received(transfers[Pick(s)], a) + F[s \ {Pick(s)}]]

LEMMA ReceivedInAll ==
    ASSUME ProgrammeAssumption, TInv, NEW a, NEW S \in SUBSET DOMAIN transfers
    PROVE  MapThenSumSet(LAMBDA t : Received(transfers[t], a), S) = Total(Receipts(a), S)
<1> DEFINE F == CHOOSE F : Summing(F, S, a)
           w == Receipts(a)
           G == [s \in SUBSET S |-> Total(w, s)]
<1>1. MapThenSumSet(LAMBDA t : Received(transfers[t], a), S) = F[S]
  BY DEF MapThenSumSet, MapThenFoldSet, Summing, Pick
<1>2. IsFiniteSet(DOMAIN transfers) /\ w \in [DOMAIN transfers -> Nat] BY RequestsFinite, ReceiptsAre
<1>3. \A s \in SUBSET S : s # {} =>
          Pick(s) \in DOMAIN transfers /\ w[Pick(s)] = Received(transfers[Pick(s)], a)
  BY DEF Pick, Receipts
<1> HIDE DEF w
<1>4. \A s \in SUBSET S : G[s] = IF s = {} THEN 0 ELSE Received(transfers[Pick(s)], a) + G[s \ {Pick(s)}]
  <2> TAKE s \in SUBSET S
  <2>1. Total(w, s) = IF s = {} THEN 0 ELSE Total(w, s \ {Pick(s)}) + w[Pick(s)]
    BY <1>2, TotalFolds
  <2>2. Total(w, s \ {Pick(s)}) \in Nat BY <1>2, TotalIsNat
  <2>3. s # {} => w[Pick(s)] \in Nat BY <1>2, <1>3
  <2>4. s \ {Pick(s)} \in SUBSET S OBVIOUS
  <2> QED BY <1>3, <2>1, <2>2, <2>3, <2>4
<1>5. Summing(G, S, a) BY <1>4 DEF Summing
<1>6. Summing(F, S, a)
  <2> HIDE DEF G
  <2> QED BY <1>5
<1> HIDE DEF F, G
<1>7. ASSUME NEW s \in SUBSET S
      PROVE  /\ s = {} => F[s] = 0
             /\ s # {} /\ F[s \ {Pick(s)}] \in Nat => F[s] = F[s \ {Pick(s)}] + w[Pick(s)]
  <2>1. F[s] = IF s = {} THEN 0 ELSE Received(transfers[Pick(s)], a) + F[s \ {Pick(s)}]
    BY <1>6 DEF Summing
  <2>2. s # {} => w[Pick(s)] \in Nat BY <1>2, <1>3
  <2> QED BY <1>3, <2>1, <2>2
<1>8. F[S] = Total(w, S)
  <2>1. \A s \in SUBSET S :
          /\ s = {} => F[s] = 0
          /\ s # {} /\ F[s \ {Pick(s)}] \in Nat => F[s] = F[s \ {Pick(s)}] + w[Pick(s)]
    BY <1>7
  <2> PICK f, v : f = F /\ v = w OBVIOUS
  <2> QED BY <1>2, <2>1, FoldIsTotal, ZenonT(60)
<1> QED BY <1>1, <1>8 DEF w

\* The invariant says what the property says, with the sum that can be reasoned about.
LEMMA AccountingAddsUp ==
    ASSUME ProgrammeAssumption, TInv, AInv
    PROVE  AccountsAddUp
<1> SUFFICES ASSUME ~overlapped, NEW a \in Accounts
             PROVE  accounts[a] = Held(programme, a) +
                      MapThenSumSet(LAMBDA t : Received(transfers[t], a),
                          {t \in DOMAIN transfers : paid[t] > 0 \/ transfers[t].status = "Approved"})
  BY DEF AccountsAddUp, Held
<1>1. Accounting BY DEF AInv
<1>2. {t \in DOMAIN transfers : paid[t] > 0 \/ transfers[t].status = "Approved"} = PaidOnce
  BY <1>1 DEF Accounting, PaidOnce
<1>3. PaidOnce \in SUBSET DOMAIN transfers BY DEF PaidOnce
<1>4. MapThenSumSet(LAMBDA t : Received(transfers[t], a), PaidOnce) = Total(Receipts(a), PaidOnce)
  BY <1>3, ReceivedInAll
<1>5. accounts[a] = Held(programme, a) + Total(Receipts(a), PaidOnce)
  BY <1>1 DEF Accounting, Balanced
<1> QED BY <1>2, <1>4, <1>5

\* A step that pays nothing.
SameBooks ==
    /\ UNCHANGED <<programme, accounts, named>>
    /\ DOMAIN transfers \subseteq DOMAIN transfers'
    /\ \A t \in DOMAIN transfers :
         /\ transfers'[t].kind = transfers[t].kind /\ transfers'[t].to = transfers[t].to
         /\ transfers'[t].from = transfers[t].from /\ transfers'[t].amount = transfers[t].amount
         /\ paid'[t] = paid[t]
    /\ \A t \in DOMAIN transfers' \ DOMAIN transfers : paid'[t] = 0

\* Nothing is settled that was not paid.
Settled == \A t \in DOMAIN transfers' : transfers'[t].status = "Approved" => paid'[t] > 0

LEMMA BooksBalance ==
    ASSUME Balanced, SameBooks PROVE Balanced'
<1>1. PaidOnce' = PaidOnce BY DEF SameBooks, PaidOnce
<1>2. ASSUME NEW a PROVE Total(Receipts(a)', PaidOnce) = Total(Receipts(a), PaidOnce)
  <2>1. ASSUME NEW t \in PaidOnce PROVE Receipts(a)'[t] = Receipts(a)[t]
    <3>1. t \in DOMAIN transfers /\ t \in DOMAIN transfers' BY DEF PaidOnce, SameBooks
    <3>2. Received(transfers'[t], a) = Received(transfers[t], a)
      BY <3>1 DEF SameBooks, Received, ToAccount, OmgeCredits
    <3> HIDE DEF Received
    <3> QED BY <3>1, <3>2 DEF Receipts
  <2>2. PICK s, w, v : s = PaidOnce /\ w = Receipts(a)' /\ v = Receipts(a) OBVIOUS
  <2> QED BY <2>1, <2>2, TotalSame
<1>3. ASSUME NEW a \in Accounts
      PROVE  accounts'[a] = Held(programme', a) + Total(Receipts(a)', PaidOnce')
  <2>1. accounts[a] = Held(programme, a) + Total(Receipts(a), PaidOnce) BY DEF Balanced
  <2>2. accounts' = accounts /\ programme' = programme BY DEF SameBooks
  <2> QED BY <1>1, <1>2, <2>1, <2>2
<1> QED BY <1>3 DEF Balanced, Held, Total, Units

LEMMA InformedStays ==
    ASSUME SameBooks, NEW x, GoodTxn(x, DOMAIN transfers), Informed(x)
    PROVE  Informed(x)'
<1>1. x.op.kind = "Pay" => x.op.t \in DOMAIN transfers BY DEF GoodTxn, GoodOp
<1>2. x.pc = "settle" => x.op.kind = "Pay" BY DEF GoodTxn
<1>3. Left(x.op, programme)' = Left(x.op, programme)
  BY <1>1 DEF SameBooks, Left
<1>4. Written(x)' = Written(x) BY DEF SameBooks, Written
<1>5. x.pc = "settle" => paid'[x.op.t] = paid[x.op.t] BY <1>1, <1>2 DEF SameBooks
<1>6. programme' = programme /\ accounts' = accounts /\ named' = named BY DEF SameBooks
<1> HIDE DEF Left, Written
<1> QED BY <1>3, <1>4, <1>5, <1>6 DEF Informed

\* What a step leaves to be shown of the clients.
LEMMA BooksGoOn ==
    ASSUME Accounting, SameBooks, Settled
    PROVE  /\ Balanced'
           /\ \A t \in DOMAIN transfers' :
                /\ paid'[t] > 0 => t \in named'
                /\ transfers'[t].status = "Approved" => paid'[t] > 0
<1>1. Balanced' BY BooksBalance DEF Accounting
<1>2. ASSUME NEW t \in DOMAIN transfers', paid'[t] > 0 PROVE t \in named'
  <2>1. CASE t \in DOMAIN transfers BY <1>2, <2>1 DEF Accounting, SameBooks
  <2>2. CASE t \notin DOMAIN transfers BY <1>2, <2>2 DEF SameBooks
  <2> QED BY <2>1, <2>2
<1> QED BY <1>1, <1>2 DEF Settled

\* One client goes on.
LEMMA AccountingMoves ==
    ASSUME TInv, AInv, SameBooks, NEW c \in Clients, NEW x, txn' = [txn EXCEPT ![c] = x],
           Busy(c), UNCHANGED overlapped,
           Accounting => Informed(x)' /\ Settled
    PROVE  AInv'
<1> SUFFICES ASSUME ~overlapped PROVE Accounting'
  BY DEF AInv
<1>1. Accounting /\ Settled BY DEF AInv
<1>2. \A d \in Clients : txn'[d] = IF d = c THEN x ELSE txn[d] BY SMTT(60) DEF TInv, ClientsTyped
<1>3. ASSUME NEW d \in Clients PROVE Informed(txn[d])'
  <2> PICK y : y = txn'[d] OBVIOUS
  <2>1. Informed(y)'
    <3>1. CASE d = c BY <1>1, <1>2, <3>1
    <3>2. CASE d # c
      <4>1. y = txn[d] BY <1>2, <3>2
      <4>2. GoodTxn(y, DOMAIN transfers) /\ Informed(y)
        BY <1>1, <4>1 DEF TInv, ClientsTyped, Accounting
      <4> QED BY <4>2, InformedStays
    <3> QED BY <3>1, <3>2
  <2> QED BY <2>1 DEF Informed, Written, Left
<1>4. \A d, e \in Clients : Busy(d)' /\ Busy(e)' => d = e
  BY <1>1, <1>2 DEF Accounting, Busy
<1> QED BY <1>1, <1>3, <1>4, BooksGoOn DEF Accounting

LEMMA AccountingStill ==
    ASSUME TInv, AInv, SameBooks, UNCHANGED <<txn, overlapped>>, Accounting => Settled
    PROVE  AInv'
<1> SUFFICES ASSUME ~overlapped PROVE Accounting'
  BY DEF AInv
<1>1. Accounting /\ Settled BY DEF AInv
<1>2. ASSUME NEW d \in Clients PROVE Informed(txn[d])'
  <2> PICK y : y = txn[d] OBVIOUS
  <2>1. GoodTxn(y, DOMAIN transfers) /\ Informed(y) BY <1>1 DEF TInv, ClientsTyped, Accounting
  <2>2. Informed(y)' BY <2>1, InformedStays
  <2> QED BY <2>2 DEF Informed, Written, Left
<1>3. \A d, e \in Clients : Busy(d)' /\ Busy(e)' => d = e
  BY <1>1 DEF Accounting, Busy
<1> QED BY <1>1, <1>2, <1>3, BooksGoOn DEF Accounting

\* A request begins alone, and has read nothing yet.
LEMMA AccountingBegins ==
    ASSUME TInv, AInv, SameBooks, NEW c \in Clients, NEW op, NEW pc, Begins(c, op, pc),
           pc \in {"found", "history"} \/ (pc = "programme" /\ op.kind # "Pay"),
           Accounting => Settled
    PROVE  AInv'
<1> SUFFICES ASSUME ~overlapped' PROVE Accounting'
  BY DEF AInv
<1>1. ~overlapped /\ \A d \in Clients : ~Busy(d) BY DEF Begins
<1>2. Accounting /\ Settled BY <1>1 DEF AInv
<1> DEFINE x == [Idle EXCEPT !.pc = pc, !.op = op]
<1>3. x.pc = pc /\ x.op = op BY DEF Idle
<1>4. txn'[c] = x /\ \A d \in Clients \ {c} : txn'[d] = txn[d] BY DEF Begins, TInv, ClientsTyped
<1> HIDE DEF x
<1>5. \A d \in Clients \ {c} : txn'[d].pc = "idle" BY <1>1, <1>4 DEF Busy
<1>6. ASSUME NEW d \in Clients PROVE Informed(txn[d])'
  <2>1. CASE d = c
    <3>1. txn'[d].pc = pc /\ txn'[d].op = op BY <1>3, <1>4, <2>1
    <3> QED BY <3>1 DEF Informed
  <2>2. CASE d # c
    <3>1. txn'[d].pc = "idle" BY <1>5, <2>2
    <3> QED BY <3>1 DEF Informed
  <2> QED BY <2>1, <2>2
<1>7. \A d, e \in Clients : Busy(d)' /\ Busy(e)' => d = e BY <1>5 DEF Busy
<1> QED BY <1>2, <1>6, <1>7, BooksGoOn DEF Accounting

LEMMA SameRequests ==
    ASSUME UNCHANGED <<programme, accounts, named, transfers, paid>>
    PROVE  SameBooks /\ (Accounting => Settled)
BY DEF SameBooks, Accounting, Settled

\* A request gets another status; one that is approved was paid.
LEMMA StatusBooks ==
    ASSUME TInv, NEW t \in DOMAIN transfers, NEW status \in Statuses, transfers' = Status(t, status),
           UNCHANGED <<programme, accounts, named, paid>>,
           Accounting /\ status = "Approved" => paid[t] > 0
    PROVE  SameBooks /\ (Accounting => Settled)
<1>1. DOMAIN transfers' = DOMAIN transfers BY DEF Status
<1>2. ASSUME NEW u \in DOMAIN transfers
      PROVE  /\ transfers'[u].kind = transfers[u].kind /\ transfers'[u].to = transfers[u].to
             /\ transfers'[u].from = transfers[u].from /\ transfers'[u].amount = transfers[u].amount
             /\ transfers'[u].status = IF u = t THEN status ELSE transfers[u].status
  <2>1. transfers[u] \in Transfer BY DEF TInv, PTypeOK
  <2>2. transfers'[u] = IF u = t THEN [transfers[u] EXCEPT !.status = status] ELSE transfers[u]
    BY DEF Status
  <2> QED BY <2>1, <2>2 DEF Transfer
<1>3. SameBooks BY <1>1, <1>2 DEF SameBooks
<1>4. ASSUME Accounting PROVE Settled
  <2>1. \A u \in DOMAIN transfers : transfers[u].status = "Approved" => paid[u] > 0
    BY <1>4 DEF Accounting
  <2> QED BY <1>1, <1>2, <1>4, <2>1 DEF Settled
<1> QED BY <1>3, <1>4

LEMMA CancelBooks ==
    ASSUME TInv, NEW co, transfers' = CancelPending(co), UNCHANGED <<programme, accounts, named, paid>>
    PROVE  SameBooks /\ (Accounting => Settled)
<1>1. DOMAIN transfers' = DOMAIN transfers BY DEF CancelPending
<1>2. ASSUME NEW u \in DOMAIN transfers
      PROVE  /\ transfers'[u].kind = transfers[u].kind /\ transfers'[u].to = transfers[u].to
             /\ transfers'[u].from = transfers[u].from /\ transfers'[u].amount = transfers[u].amount
             /\ transfers'[u].status \in {transfers[u].status, "Cancelled"}
  <2>1. transfers[u] \in Transfer BY DEF TInv, PTypeOK
  <2>2. \/ transfers'[u] = [transfers[u] EXCEPT !.status = "Cancelled"]
        \/ transfers'[u] = transfers[u]
    BY DEF CancelPending
  <2> QED BY <2>1, <2>2 DEF Transfer
<1>3. SameBooks BY <1>1, <1>2 DEF SameBooks
<1>4. Accounting => Settled BY <1>1, <1>2 DEF Accounting, Settled
<1> QED BY <1>3, <1>4

LEMMA StoreAccounts ==
    ASSUME TInv, AInv, NEW c \in Clients, NEW t, NEW auto \in BOOLEAN, Store(c, t, auto),
           t.status # "Approved"
    PROVE  AInv'
<1> DEFINE id == Cardinality(DOMAIN transfers) + 1
<1>1. /\ DOMAIN transfers' = DOMAIN transfers \cup {id}
      /\ transfers'[id] = t /\ paid'[id] = 0
      /\ \A i \in DOMAIN transfers : transfers'[i] = transfers[i] /\ paid'[i] = paid[i]
  BY StoredNext
<1>2. SameBooks BY <1>1 DEF SameBooks, Store
<1>3. Accounting => Settled
  <2>1. Accounting => \A i \in DOMAIN transfers : transfers[i].status = "Approved" => paid[i] > 0
    BY DEF Accounting
  <2> HIDE DEF id
  <2> QED BY <1>1, <2>1 DEF Settled
<1>4. CASE auto
  <2>1. Begins(c, [kind |-> "Pay", t |-> id], "history") BY <1>4 DEF Store
  <2> QED BY <1>2, <1>3, <2>1, AccountingBegins
<1>5. CASE ~auto BY <1>2, <1>3, <1>5, AccountingStill DEF Store, Continues
<1> QED BY <1>4, <1>5

LEMMA RequestsAccount ==
    ASSUME TInv, AInv, NEW c \in Clients, Requests(c)
    PROVE  AInv'
<1>1. CASE \E from \in Owners, to \in Companies, n \in Amounts, auto \in BOOLEAN :
             TransferRequest(c, from, to, n, auto)
  BY <1>1, StoreAccounts DEF TransferRequest, NewTransfer
<1>2. CASE \E kind \in {"CrossBorder", "Local"}, from \in Owners, n \in Amounts, auto \in BOOLEAN :
             RetireProgramme(c, kind, from, n, auto)
  BY <1>2, StoreAccounts DEF RetireProgramme, NewTransfer
<1>3. ASSUME NEW op, NEW pc, Begins(c, op, pc),
             UNCHANGED <<programme, accounts, named, transfers, paid>>,
             pc \in {"found", "history"} \/ (pc = "programme" /\ op.kind # "Pay")
      PROVE  AInv'
  BY <1>3, SameRequests, AccountingBegins
<1>4. ASSUME NEW t \in DOMAIN transfers, Approve(c, t)
      PROVE  AInv'
  BY <1>3, <1>4 DEF Approve
<1>5. ASSUME NEW n \in 1 .. Estimate, IssueUnits(c, n)
      PROVE  AInv'
  <2> DEFINE op == [kind |-> "Issue", units |-> n]
  <2>1. Begins(c, op, "programme") /\ op.kind # "Pay"
        /\ UNCHANGED <<programme, accounts, named, transfers, paid>>
    BY <1>5 DEF IssueUnits
  <2> HIDE DEF op
  <2> QED BY <1>3, <2>1
<1>6. ASSUME NEW co \in Companies, Suspend(c, co)
      PROVE  AInv'
  <2> DEFINE op == [kind |-> "Freeze", co |-> co]
  <2>1. Begins(c, op, "programme") /\ op.kind # "Pay"
        /\ UNCHANGED <<programme, accounts, named, transfers, paid>>
    BY <1>6 DEF Suspend
  <2> HIDE DEF op
  <2> QED BY <1>3, <2>1
<1>7. ASSUME NEW co \in Companies, Activate(c, co)
      PROVE  AInv'
  <2> DEFINE op == [kind |-> "Unfreeze", co |-> co]
  <2>1. Begins(c, op, "programme") /\ op.kind # "Pay"
        /\ UNCHANGED <<programme, accounts, named, transfers, paid>>
    BY <1>7 DEF Activate
  <2> HIDE DEF op
  <2> QED BY <1>3, <2>1
<1> QED BY <1>1, <1>2, <1>4, <1>5, <1>6, <1>7 DEF Requests

LEMMA EndsAccounts ==
    ASSUME TInv, AInv, NEW c \in Clients, Ends(c), Busy(c), UNCHANGED overlapped,
           SameBooks, Accounting => Settled
    PROVE  AInv'
<1>1. Informed(Idle)' BY DEF Informed, Idle
<1> QED BY <1>1, AccountingMoves DEF Ends

LEMMA ApprovalAccounts ==
    ASSUME TInv, AInv, NEW c \in Clients, Approval(c)
    PROVE  AInv'
<1>0. GoodTxn(txn[c], DOMAIN transfers) BY DEF TInv, ClientsTyped
<1>00. DOMAIN txn[c] = Fields BY <1>0 DEF GoodTxn
<1>1. Busy(c) /\ UNCHANGED <<programme, accounts, paid, named, overlapped>>
  BY DEF Approval, TurnDown, NotPending, TakeUp, Resume, Continues, Busy
<1>2. CASE TurnDown(c)
  <2>1. SameBooks /\ (Accounting => Settled) BY <1>1, <1>2, CancelBooks DEF TurnDown
  <2> QED BY <1>1, <1>2, <2>1, EndsAccounts DEF TurnDown
<1>3. CASE NotPending(c)
  <2>1. SameBooks /\ (Accounting => Settled) BY <1>1, <1>3, SameRequests DEF NotPending
  <2> QED BY <1>1, <1>3, <2>1, EndsAccounts DEF NotPending
<1>4. CASE TakeUp(c) \/ Resume(c)
  <2> PICK x : x = [txn[c] EXCEPT !.pc = "history", !.op = [kind |-> "Pay", t |-> txn[c].op.t]]
    OBVIOUS
  <2>1. x.pc = "history" BY <1>00 DEF Fields
  <2>2. txn' = [txn EXCEPT ![c] = x] BY <1>4 DEF TakeUp, Resume
  <2>3. SameBooks /\ (Accounting => Settled)
    <3>1. CASE TakeUp(c)
      <4>1. txn[c].pc = "found" /\ transfers' = Status(txn[c].op.t, "Processing") BY <3>1 DEF TakeUp
      <4>2. PICK t \in DOMAIN transfers : t = txn[c].op.t BY <1>0, <4>1 DEF GoodTxn, GoodOp
      <4>3. transfers' = Status(t, "Processing") BY <4>1, <4>2
      <4>4. "Processing" \in Statuses /\ "Processing" # "Approved" BY DEF Statuses
      <4> QED BY <1>1, <4>3, <4>4, StatusBooks
    <3>2. CASE Resume(c) BY <1>1, <3>2, SameRequests DEF Resume
    <3> QED BY <1>4, <3>1, <3>2
  <2>4. Informed(x)' BY <2>1 DEF Informed
  <2> QED BY <1>1, <2>2, <2>3, <2>4, AccountingMoves
<1> QED BY <1>2, <1>3, <1>4 DEF Approval

LEMMA OthersAccount ==
    ASSUME TInv, AInv,
           \/ \E c \in Clients : Afterwards(c) \/ Fail(c)
           \/ \E t \in DOMAIN transfers : TransferCancel(t) \/ TransferReject(t)
           \/ \E w \in sweeps : Sweep(w)
           \/ \E w \in sweeps : \E t \in w.doomed : SweepCancel(w, t)
    PROVE  AInv'
<1>1. ASSUME NEW c \in Clients, Settle(c)
      PROVE  AInv'
  <2>1. txn[c].pc = "settle" /\ Busy(c) BY <1>1 DEF Settle, Busy
  <2>2. GoodTxn(txn[c], DOMAIN transfers) BY DEF TInv, ClientsTyped
  <2>3. PICK t \in DOMAIN transfers : t = txn[c].op.t BY <2>1, <2>2 DEF GoodTxn, GoodOp
  <2>4. Accounting => paid[t] > 0 BY <2>1, <2>3 DEF Accounting, Informed
  <2>5. transfers' = Status(t, "Approved") /\ UNCHANGED <<programme, accounts, named, paid>>
    BY <1>1, <2>3 DEF Settle
  <2>6. "Approved" \in Statuses BY DEF Statuses
  <2>7. SameBooks /\ (Accounting => Settled) BY <2>4, <2>5, <2>6, StatusBooks
  <2> QED BY <1>1, <2>1, <2>7, EndsAccounts DEF Settle, Continues
<1>2. ASSUME NEW c \in Clients, CancelRequests(c)
      PROVE  AInv'
  <2>1. SameBooks /\ (Accounting => Settled) BY <1>2, CancelBooks DEF CancelRequests
  <2> QED BY <1>2, <2>1, EndsAccounts DEF CancelRequests, Continues, Busy
<1>3. ASSUME NEW c \in Clients, AfterIssue(c)
      PROVE  AInv'
  <2>1. SameBooks /\ (Accounting => Settled) BY <1>3, SameRequests DEF AfterIssue
  <2>2. Busy(c) /\ UNCHANGED overlapped BY <1>3 DEF AfterIssue, Continues, Busy
  <2>3. CASE suspended \cap Owners = {}
    BY <1>3, <2>1, <2>2, <2>3, EndsAccounts DEF AfterIssue
  <2>4. CASE suspended \cap Owners # {}
    <3> PICK op : op = [kind |-> "FreezeIssued", units |-> txn[c].op.units, cos |-> suspended \cap Owners]
      OBVIOUS
    <3> PICK x : x = [Idle EXCEPT !.pc = "programme", !.op = op]
      OBVIOUS
    <3>1. x.pc = "programme" /\ x.op = op /\ op.kind # "Pay" BY DEF Idle
    <3>2. txn' = [txn EXCEPT ![c] = x] BY <1>3, <2>4 DEF AfterIssue
    <3>3. Informed(x)' BY <3>1 DEF Informed
    <3> QED BY <2>1, <2>2, <3>2, <3>3, AccountingMoves
  <2> QED BY <2>3, <2>4
<1>4. ASSUME NEW c \in Clients, Fail(c)
      PROVE  AInv'
  <2>1. SameBooks /\ (Accounting => Settled) BY <1>4, SameRequests DEF Fail
  <2> QED BY <1>4, <2>1, EndsAccounts DEF Fail, Continues
<1>5. ASSUME NEW t \in DOMAIN transfers, NEW status \in Statuses \ {"Approved"},
             transfers' = Status(t, status),
             UNCHANGED <<programme, accounts, named, paid, txn, overlapped>>
      PROVE  AInv'
  <2>1. SameBooks /\ (Accounting => Settled) BY <1>5, StatusBooks
  <2> QED BY <1>5, <2>1, AccountingStill
<1>6. ASSUME NEW t \in DOMAIN transfers, TransferCancel(t) \/ TransferReject(t)
      PROVE  AInv'
  BY <1>5, <1>6 DEF TransferCancel, TransferReject, Withdraw, Continues, Statuses
<1>7. ASSUME NEW w \in sweeps, Sweep(w)
      PROVE  AInv'
  <2>1. SameBooks /\ (Accounting => Settled) BY <1>7, SameRequests DEF Sweep
  <2> QED BY <1>7, <2>1, AccountingStill DEF Sweep, Continues
<1>8. ASSUME NEW w \in sweeps, NEW t \in w.doomed, SweepCancel(w, t)
      PROVE  AInv'
  <2>1. t \in DOMAIN transfers BY DEF TInv, GoodSweep
  <2> QED BY <1>5, <1>8, <2>1 DEF SweepCancel, Continues, Statuses
<1> QED BY <1>1, <1>2, <1>3, <1>4, <1>6, <1>7, <1>8 DEF Afterwards

LEMMA ReadsAccount ==
    ASSUME TInv, AInv, NEW c \in Clients,
           ReadHistory(c) \/ ReadProgramme(c) \/ ReadAccounts(c) \/ Refuse(c)
    PROVE  AInv'
<1>0. GoodTxn(txn[c], DOMAIN transfers) /\ DOMAIN txn[c] = Fields BY DEF TInv, ClientsTyped, GoodTxn
<1>1. /\ Busy(c) /\ UNCHANGED overlapped
      /\ UNCHANGED <<programme, accounts, named, transfers, paid>>
  BY DEF ReadHistory, ReadProgramme, ReadAccounts, Refuse, Continues, Busy
<1>2. SameBooks /\ (Accounting => Settled) BY <1>1, SameRequests
<1>3. Accounting => Informed(txn[c]) BY DEF Accounting
<1>4. CASE ReadHistory(c)
  <2> PICK x : x = [txn[c] EXCEPT !.pc = "programme", !.processed = txn[c].op.t \in named]
    OBVIOUS
  <2>1. x.pc = "programme" /\ x.op = txn[c].op /\ (~x.processed => txn[c].op.t \notin named)
    BY <1>0 DEF Fields
  <2>2. txn' = [txn EXCEPT ![c] = x] BY <1>4 DEF ReadHistory
  <2>3. Informed(x)' BY <1>1, <2>1 DEF Informed
  <2> QED BY <1>1, <1>2, <2>2, <2>3, AccountingMoves
<1>5. CASE ReadProgramme(c)
  <2> PICK x : x = [txn[c] EXCEPT
                      !.pc = IF txn[c].op.kind \in {"Pay", "Issue"} THEN "accounts" ELSE "merge",
                      !.row = programme, !.fresh = TRUE]
    OBVIOUS
  <2>1. /\ x.pc \in {"accounts", "merge"} /\ x.op = txn[c].op /\ x.row = programme /\ x.fresh
        /\ x.processed = txn[c].processed /\ (x.pc = "merge" => x.op.kind \notin {"Pay", "Issue"})
    BY <1>0 DEF Fields
  <2>2. txn' = [txn EXCEPT ![c] = x] /\ txn[c].pc = "programme" BY <1>5 DEF ReadProgramme
  <2>3. Accounting => Informed(x)' BY <1>1, <1>3, <2>1, <2>2 DEF Informed
  <2> QED BY <1>1, <1>2, <2>2, <2>3, AccountingMoves
<1>6. CASE ReadAccounts(c)
  <2> PICK x : x = [txn[c] EXCEPT !.pc = "merge", !.balances = accounts]
    OBVIOUS
  <2>1. /\ x.pc = "merge" /\ x.op = txn[c].op /\ x.row = txn[c].row /\ x.fresh = txn[c].fresh
        /\ x.processed = txn[c].processed /\ x.balances = accounts
    BY <1>0 DEF Fields
  <2>2. txn' = [txn EXCEPT ![c] = x] /\ txn[c].pc = "accounts" BY <1>6 DEF ReadAccounts
  <2>3. Accounting => Informed(x)' BY <1>1, <1>3, <2>1, <2>2 DEF Informed
  <2> QED BY <1>1, <1>2, <2>2, <2>3, AccountingMoves
<1>7. CASE Refuse(c) BY <1>1, <1>2, <1>7, EndsAccounts DEF Refuse
<1> QED BY <1>4, <1>5, <1>6, <1>7

\* What is computed from the latest row leaves the right shares.
LEMMA UpdatedLeaves ==
    ASSUME PTypeOK, NEW op, GoodOp(op, DOMAIN transfers), op.kind # "None"
    PROVE  Updated(op, programme, programme).holding = Left(op, programme)
<1>1. programme = [issued |-> programme.issued, holding |-> programme.holding,
                   frozen |-> programme.frozen, transferred |-> programme.transferred,
                   retired |-> programme.retired]
  BY DEF PTypeOK, Programme
<1>2. CASE op.kind = "Pay" BY <1>1, <1>2 DEF Updated, Paid, Left
<1>3. CASE op.kind = "Issue" BY <1>1, <1>3 DEF Updated, Left
<1>4. CASE op.kind = "Freeze" BY <1>1, <1>4 DEF Updated, Left
<1>5. CASE op.kind = "Unfreeze" BY <1>1, <1>5 DEF Updated, Left
<1>6. CASE op.kind = "FreezeIssued" BY <1>1, <1>6 DEF Updated, Left
<1> QED BY <1>2, <1>3, <1>4, <1>5, <1>6 DEF GoodOp, OpKinds

LEMMA MergeAccounts ==
    ASSUME ProgrammeAssumption, TInv, AInv, NEW c \in Clients, Merge(c)
    PROVE  AInv'
<1>0. GoodTxn(txn[c], DOMAIN transfers) /\ DOMAIN txn[c] = Fields BY DEF TInv, ClientsTyped, GoodTxn
<1>1. /\ Busy(c) /\ UNCHANGED overlapped /\ txn[c].pc = "merge"
      /\ UNCHANGED <<programme, accounts, named, transfers, paid>>
      /\ LedgerAllows(txn[c].op, txn[c].processed, txn[c].row)
  BY DEF Merge, Continues, Busy
<1>2. SameBooks /\ (Accounting => Settled) BY <1>1, SameRequests
<1> PICK op : op = txn[c].op OBVIOUS
<1> PICK y : y = IF Nothing(op, txn[c].row) \/ (NamesTxTime(op) /\ ~txn[c].fresh)
                 THEN <<>> ELSE Updated(op, txn[c].row, programme)
  OBVIOUS
<1> PICK x : x = [txn[c] EXCEPT !.pc = "commit", !.latest = y]
  OBVIOUS
<1>3. /\ x.pc = "commit" /\ x.op = op /\ x.latest = y
      /\ x.processed = txn[c].processed /\ x.balances = txn[c].balances
  BY <1>0 DEF Fields
<1>4. txn' = [txn EXCEPT ![c] = x] BY DEF Merge
<1>5. ASSUME Accounting PROVE Informed(x)'
  <2>1. Informed(txn[c]) BY <1>5 DEF Accounting
  <2>2. /\ txn[c].row = programme /\ txn[c].fresh
        /\ op.kind = "Pay" /\ ~txn[c].processed => op.t \notin named
        /\ op.kind \in {"Pay", "Issue"} => txn[c].balances = accounts
    BY <1>1, <2>1 DEF Informed
  <2>3. GoodOp(op, DOMAIN transfers) /\ op.kind # "None" BY <1>0, <1>1 DEF GoodTxn
  <2>4. LedgerAllows(op, txn[c].processed, programme) BY <1>1, <2>2
  <2>5. PTypeOK /\ programme \in Programme BY DEF TInv, PTypeOK
  <2> PICK u : u = Updated(op, programme, programme) OBVIOUS
  <2>6. u \in Programme BY <2>3, <2>4, <2>5, UpdatedTyped
  <2>7. u # <<>>
    <3>1. "issued" \in DOMAIN u BY <2>6 DEF Programme
    <3>2. "issued" \notin DOMAIN <<>> OBVIOUS
    <3> QED BY <3>1, <3>2
  <2>8. u.holding = Left(op, programme) BY <2>3, <2>5, UpdatedLeaves
  <2>9. y = IF Nothing(op, programme) THEN <<>> ELSE u BY <2>2
  <2>10. op.kind \in {"Pay", "Issue"} => ~Nothing(op, programme) BY SMTT(60) DEF Nothing
  <2>11. Nothing(op, programme) => Left(op, programme) = programme.holding
    BY DEF Nothing, Left
  <2>12. Written(x).holding = Left(op, programme) BY <1>3, <2>7, <2>8, <2>9, <2>11 DEF Written
  <2>13. op.kind = "Pay" => x.latest # <<>> /\ ~txn[c].processed
    BY <1>3, <2>4, <2>7, <2>9, <2>10 DEF LedgerAllows
  <2>14. Left(op, programme)' = Left(op, programme) /\ Written(x)' = Written(x)
    BY <1>1 DEF Left, Written
  <2> HIDE DEF Left, Written
  <2> QED BY <1>1, <1>3, <2>2, <2>12, <2>13, <2>14 DEF Informed
<1> QED BY <1>1, <1>2, <1>4, <1>5, AccountingMoves

\* One request more is paid.
LEMMA OneMorePaid ==
    ASSUME ProgrammeAssumption, TInv, NEW t \in DOMAIN transfers, paid[t] = 0, NEW a
    PROVE  Total(Receipts(a), PaidOnce \cup {t}) = Total(Receipts(a), PaidOnce) + Received(transfers[t], a)
<1> PICK w, s : w = Receipts(a) /\ s = PaidOnce \cup {t} OBVIOUS
<1>1. IsFiniteSet(DOMAIN transfers) /\ w \in [DOMAIN transfers -> Nat] BY RequestsFinite, ReceiptsAre
<1>2. s \in SUBSET DOMAIN transfers /\ t \in s /\ s \ {t} = PaidOnce BY DEF PaidOnce
<1>3. w[t] = Received(transfers[t], a) BY DEF Receipts
<1>4. Total(w, s) = Total(w, s \ {t}) + w[t] BY <1>1, <1>2, TotalSplits
<1> HIDE DEF PaidOnce, Receipts, Total, Received
<1> QED BY <1>2, <1>3, <1>4

\* The commit of a payment moves the amount from the share of the giver to the
\* accounts it is paid into.
LEMMA PaymentBalances ==
    ASSUME ProgrammeAssumption, TInv, Balanced, NEW c \in Clients, Commit(c),
           NEW t \in DOMAIN transfers, txn[c].op.kind = "Pay", t = txn[c].op.t, paid[t] = 0,
           txn[c].latest # <<>>, txn[c].balances = accounts,
           txn[c].latest.holding = Left(txn[c].op, programme)
    PROVE  Balanced'
<1> PICK from, n : from = transfers[t].from /\ n = transfers[t].amount
  OBVIOUS
<1>1. from \in Owners /\ n \in Nat BY DEF TInv, PTypeOK, Transfer
<1>2. accounts \in [Accounts -> Int] /\ programme.holding \in [Owners -> Nat]
  BY DEF TInv, PTypeOK, Programme
<1>3. programme'.holding = [programme.holding EXCEPT ![from] = @ - n]
  BY DEF Commit, Left
<1>4. PaidOnce' = PaidOnce \cup {t} /\ transfers' = transfers
  <2>1. paid' = [paid EXCEPT ![t] = @ + 1] /\ transfers' = transfers BY DEF Commit
  <2>2. DOMAIN paid = DOMAIN transfers BY DEF TInv, PTypeOK
  <2>3. paid'[t] = 1 BY <2>1, <2>2
  <2>4. \A u \in DOMAIN transfers \ {t} : paid'[u] = paid[u] BY <2>1, <2>2
  <2> QED BY <2>1, <2>3, <2>4 DEF PaidOnce
<1>5. accounts' = [a \in Accounts |->
                     IF a \in Involved(transfers[t])
                     THEN accounts[a] + Received(transfers[t], a) - (IF a = from THEN n ELSE 0)
                     ELSE accounts[a]]
  BY DEF Commit, Balances
<1>6. ASSUME NEW a \in Accounts
      PROVE  accounts'[a] = Held(programme', a) + Total(Receipts(a)', PaidOnce')
  <2> PICK r : r = Received(transfers[t], a) OBVIOUS
  <2> PICK T : T = Total(Receipts(a), PaidOnce) OBVIOUS
  <2>1. r \in Nat BY ReceivedNat DEF TInv, PTypeOK
  <2>2. T \in Nat
    BY RequestsFinite, ReceiptsAre, TotalIsNat DEF PaidOnce
  <2>3. a \notin Involved(transfers[t]) => r = 0 BY DEF Involved, Received
  <2>4. from \in Involved(transfers[t]) BY DEF Involved
  <2>5. Total(Receipts(a)', PaidOnce') = T + r
    <3>1. Receipts(a)' = Receipts(a) BY <1>4 DEF Receipts
    <3> HIDE DEF Receipts, PaidOnce, Total
    <3> QED BY <1>4, <3>1, OneMorePaid
  <2>6. accounts'[a] = accounts[a] + r - (IF a = from THEN n ELSE 0)
    <3>1. accounts[a] \in Int BY <1>2
    <3>2. CASE a \in Involved(transfers[t]) BY <1>5, <3>2
    <3>3. CASE a \notin Involved(transfers[t])
      <4>1. accounts'[a] = accounts[a] BY <1>5, <3>3
      <4>2. a # from /\ r = 0 BY <2>3, <2>4, <3>3
      <4> QED BY <3>1, <4>1, <4>2
    <3> QED BY <3>2, <3>3
  <2>7. Held(programme', a) = Held(programme, a) - (IF a = from THEN n ELSE 0)
    BY <1>1, <1>2, <1>3 DEF Held
  <2>8. accounts[a] = Held(programme, a) + T BY DEF Balanced
  <2>9. Held(programme, a) \in Int BY <1>2 DEF Held
  <2> PICK h, m : h = Held(programme, a) /\ m = (IF a = from THEN n ELSE 0) OBVIOUS
  <2>10. h \in Int /\ m \in Nat BY <1>1, <2>9
  <2>11. accounts'[a] = (h + T) + r - m /\ Held(programme', a) = h - m
    BY <2>6, <2>7, <2>8
  <2>12. (h + T) + r - m = (h - m) + (T + r) BY <2>1, <2>2, <2>10
  <2> HIDE DEF Held
  <2> QED BY <2>5, <2>11, <2>12
<1> QED BY <1>6 DEF Balanced, Held

\* Any other commit moves what the owners hold, and their accounts with it.
LEMMA ShareBalances ==
    ASSUME ProgrammeAssumption, TInv, Balanced, NEW c \in Clients, Commit(c),
           txn[c].op.kind # "Pay",
           txn[c].op.kind = "Issue" => txn[c].balances = accounts,
           Written(txn[c]).holding = Left(txn[c].op, programme)
    PROVE  Balanced'
<1>1. accounts \in [Accounts -> Int] /\ programme.holding \in [Owners -> Nat]
  BY DEF TInv, PTypeOK, Programme
<1>2. UNCHANGED <<transfers, paid>> BY DEF Commit
<1>3. programme'.holding = Left(txn[c].op, programme) BY DEF Commit, Written
<1>4. GoodOp(txn[c].op, DOMAIN transfers) BY DEF TInv, ClientsTyped, GoodTxn
<1>5. ASSUME NEW a \in Accounts
      PROVE  accounts'[a] = Held(programme', a) + Total(Receipts(a)', PaidOnce')
  <2> PICK T : T = Total(Receipts(a), PaidOnce) OBVIOUS
  <2>1. T \in Nat
    BY RequestsFinite, ReceiptsAre, TotalIsNat DEF PaidOnce
  <2>2. Total(Receipts(a)', PaidOnce') = T
    <3>1. Receipts(a)' = Receipts(a) /\ PaidOnce' = PaidOnce BY <1>2 DEF Receipts, PaidOnce
    <3> HIDE DEF Receipts, PaidOnce, Total
    <3> QED BY <3>1
  <2>3. accounts[a] = Held(programme, a) + T BY DEF Balanced
  <2>4. CASE txn[c].op.kind = "Issue"
    <3> PICK k : k = txn[c].op.units OBVIOUS
    <3>1. k \in Nat BY <1>4, <2>4 DEF GoodOp
    <3>2. a \in Owners => k * Weight[a] \in Nat BY <3>1 DEF ProgrammeAssumption
    <3>3. accounts'[a] = IF a \in Owners THEN accounts[a] + k * Weight[a] ELSE accounts[a]
      BY <2>4 DEF Commit, Balances
    <3>4. a \in Owners => programme'.holding[a] = programme.holding[a] + k * Weight[a]
      BY <1>3, <2>4 DEF Left
    <3>5. CASE a \in Owners
      <4> PICK m : m = k * Weight[a] OBVIOUS
      <4>1. accounts'[a] = accounts[a] + m BY <3>3, <3>5
      <4>2. programme'.holding[a] = programme.holding[a] + m BY <3>4, <3>5
      <4>3. m \in Nat /\ programme.holding[a] \in Nat BY <1>1, <3>2, <3>5
      <4>4. accounts[a] = programme.holding[a] + T BY <2>3, <3>5 DEF Held
      <4> QED BY <2>1, <2>2, <3>5, <4>1, <4>2, <4>3, <4>4 DEF Held
    <3>6. CASE a \notin Owners BY <2>2, <2>3, <3>3, <3>6 DEF Held
    <3> QED BY <3>5, <3>6
  <2>5. CASE txn[c].op.kind # "Issue"
    <3>1. accounts' = accounts BY <2>5 DEF Commit, Balances
    <3>2. programme'.holding = programme.holding BY <1>3, <2>5 DEF Left
    <3> QED BY <2>2, <2>3, <3>1, <3>2 DEF Held
  <2> QED BY <2>4, <2>5
<1> QED BY <1>5 DEF Balanced, Held

LEMMA CommitAccounts ==
    ASSUME ProgrammeAssumption, TInv, AInv, NEW c \in Clients, Commit(c)
    PROVE  AInv'
<1> SUFFICES ASSUME ~overlapped PROVE Accounting'
  BY DEF AInv, Commit, Continues
<1>1. Accounting BY DEF AInv
<1>2. Informed(txn[c]) /\ GoodTxn(txn[c], DOMAIN transfers)
  BY <1>1 DEF Accounting, TInv, ClientsTyped
<1>3. txn[c].pc = "commit" /\ transfers' = transfers BY DEF Commit
<1> PICK op : op = txn[c].op OBVIOUS
<1>4. GoodOp(op, DOMAIN transfers) /\ op.kind # "None" BY <1>2, <1>3 DEF GoodTxn
<1>5. Written(txn[c]).holding = Left(op, programme) BY <1>2, <1>3 DEF Informed
<1>6. op.kind \in {"Pay", "Issue"} => txn[c].balances = accounts BY <1>2, <1>3 DEF Informed
<1>7. op.kind = "Pay" => txn[c].latest # <<>> /\ op.t \in DOMAIN transfers /\ op.t \notin named
  BY <1>2, <1>3, <1>4 DEF Informed, GoodOp
<1>8. op.kind = "Pay" => paid[op.t] = 0
  <2>1. \A t \in DOMAIN transfers : paid[t] \in Nat BY DEF TInv, PTypeOK
  <2>2. \A t \in DOMAIN transfers : paid[t] > 0 => t \in named BY <1>1 DEF Accounting
  <2> QED BY <1>7, <2>1, <2>2
<1>9. Balanced'
  <2>0. Balanced BY <1>1 DEF Accounting
  <2>1. CASE op.kind = "Pay"
    <3> PICK t : t = op.t OBVIOUS
    <3>1. txn[c].latest.holding = Left(op, programme) BY <1>5, <1>7, <2>1 DEF Written
    <3> QED BY <1>6, <1>7, <1>8, <2>0, <2>1, <3>1, PaymentBalances
  <2>2. CASE op.kind # "Pay" BY <1>5, <1>6, <2>0, <2>2, ShareBalances
  <2> QED BY <2>1, <2>2
<1>10. ASSUME NEW t \in DOMAIN transfers
       PROVE  /\ paid'[t] >= paid[t]
              /\ paid'[t] > 0 => t \in named'
              /\ op.kind = "Pay" /\ t = op.t => paid'[t] > 0
  <2>1. paid[t] \in Nat /\ DOMAIN paid = DOMAIN transfers BY DEF TInv, PTypeOK
  <2>2. paid[t] > 0 => t \in named BY <1>1 DEF Accounting
  <2>3. CASE op.kind = "Pay"
    <3>1. paid' = [paid EXCEPT ![op.t] = @ + 1] /\ named \cup {op.t} \subseteq named'
      BY <1>7, <2>3 DEF Commit
    <3> QED BY <2>1, <2>2, <3>1
  <2>4. CASE op.kind # "Pay"
    <3>1. paid' = paid /\ named' = named BY <2>4 DEF Commit
    <3> QED BY <2>1, <2>2, <2>4, <3>1
  <2> QED BY <2>3, <2>4
<1>11. ASSUME NEW t \in DOMAIN transfers', transfers'[t].status = "Approved"
       PROVE  paid'[t] > 0
  <2>1. t \in DOMAIN transfers /\ paid[t] > 0 BY <1>1, <1>3, <1>11 DEF Accounting
  <2>2. paid[t] \in Nat /\ paid'[t] \in Nat
    <3>1. paid[t] \in Nat /\ DOMAIN paid = DOMAIN transfers BY <2>1 DEF TInv, PTypeOK
    <3>2. paid' = paid \/ paid' = [paid EXCEPT ![op.t] = @ + 1] BY DEF Commit
    <3> QED BY <2>1, <3>1, <3>2
  <2> QED BY <1>10, <2>1, <2>2
<1>12. ASSUME NEW d \in Clients \ {c} PROVE txn'[d].pc = "idle"
  <2>1. txn[d].pc = "idle" BY <1>1, <1>3 DEF Accounting, Busy
  <2>2. DOMAIN txn[d] = Fields BY DEF TInv, ClientsTyped, GoodTxn
  <2> QED BY <2>1, <2>2 DEF Commit, Fields
<1>13. txn'[c] = IF Next2(op) = "idle" THEN Idle
                 ELSE [Idle EXCEPT !.pc = Next2(op), !.op = op,
                          !.row = IF op.kind = "Pay" THEN txn[c].row ELSE <<>>]
  BY DEF Commit
<1>14. txn'[c].pc = Next2(op) /\ (txn'[c].pc # "idle" => txn'[c].op = op)
  BY <1>13 DEF Idle
<1>15. Next2(op) \in {"settle", "issued", "cancel", "idle"} /\ (Next2(op) = "settle" => op.kind = "Pay")
  BY DEF Next2
<1>16. ASSUME NEW d \in Clients PROVE Informed(txn[d])'
  <2> PICK x : x = txn'[d] OBVIOUS
  <2>1. CASE d # c
    <3>1. txn'[d].pc = "idle" BY <1>12, <2>1
    <3> QED BY <3>1 DEF Informed
  <2>2. CASE d = c
    <3>1. x.pc = "settle" => paid'[x.op.t] > 0 BY <1>7, <1>10, <1>14, <1>15, <2>2
    <3>2. x.pc \in {"settle", "issued", "cancel", "idle"} BY <1>14, <1>15, <2>2
    <3> QED BY <3>1, <3>2 DEF Informed
  <2> QED BY <2>1, <2>2
<1>17. \A d, e \in Clients : Busy(d)' /\ Busy(e)' => d = e BY <1>12 DEF Busy
<1> QED BY <1>3, <1>9, <1>10, <1>11, <1>16, <1>17 DEF Accounting

LEMMA InitAccounts == ASSUME ProgrammeAssumption, PInit PROVE AInv
<1>1. \A c \in Clients : txn[c].pc = "idle" BY DEF PInit, Idle
<1>2. transfers = <<>> /\ DOMAIN transfers = {} BY DEF PInit
<1>3. ASSUME NEW a \in Accounts PROVE accounts[a] = Held(programme, a) + Total(Receipts(a), PaidOnce)
  <2>1. PaidOnce = {} BY <1>2 DEF PaidOnce
  <2> PICK w : w = Receipts(a) OBVIOUS
  <2>2. Total(w, {}) = 0 BY TotalOfNone
  <2>3. accounts[a] = Held(programme, a) BY DEF PInit, Held, Shares
  <2>4. Held(programme, a) \in Int
    <3>1. a \in Owners => Authorised * Weight[a] \in Int BY DEF ProgrammeAssumption
    <3> QED BY <3>1 DEF PInit, Held, Shares
  <2> HIDE DEF Held, Total, PaidOnce, Receipts
  <2> QED BY <2>1, <2>2, <2>3, <2>4
<1> QED BY <1>1, <1>2, <1>3 DEF AInv, Accounting, Balanced, Informed, Busy

LEMMA AccountingKept == ASSUME ProgrammeAssumption, TInv, AInv, [PNext]_pvars PROVE AInv'
<1>1. CASE UNCHANGED pvars
  <2>1. SameBooks /\ (Accounting => Settled) BY <1>1, SameRequests DEF pvars
  <2> QED BY <1>1, <2>1, AccountingStill DEF pvars
<1>2. ASSUME NEW c \in Clients, Ledger(c) PROVE AInv'
  BY <1>2, ReadsAccount, MergeAccounts, CommitAccounts DEF Ledger
<1>3. CASE PNext
  BY <1>2, <1>3, RequestsAccount, ApprovalAccounts, OthersAccount DEF PNext
<1> QED BY <1>1, <1>3

\* As long as no two requests overlap, every account holds what its company holds
\* in the programme and what was paid into it, each request once, whatever failed
\* and was approved again, for every number of owners, requests and failures.
THEOREM AccountsMatch == PSpec => []AccountsAddUp
<1>1. PInit => TInv /\ AInv BY InitTyped, InitAccounts, ProgrammeAssumption
<1>2. TInv /\ AInv /\ [PNext]_pvars => TInv' /\ AInv'
  BY TypesKept, AccountingKept, ProgrammeAssumption
<1>3. TInv /\ AInv => AccountsAddUp BY AccountingAddsUp, ProgrammeAssumption
<1> QED BY <1>1, <1>2, <1>3, PTL DEF PSpec
=============================================================================
