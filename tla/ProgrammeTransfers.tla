------------------------- MODULE ProgrammeTransfers -------------------------
(***************************************************************************)
(* Transfers and retirements of the credits of one programme, the flow     *)
(* before Article 6: a request is stored in the operational database,      *)
(* approved, paid in the ledger (the programme's row and the accounts of   *)
(* the companies), and settled; afterwards the pending requests the giver  *)
(* can no longer pay are looked for and cancelled without anyone waiting   *)
(* for it.  Suspending a company freezes its credits and cancels its       *)
(* requests; issuing credits freezes the share of suspended companies in a *)
(* second ledger operation.                                                *)
(*                                                                         *)
(* A ledger operation reads statement by statement, reads the programme's  *)
(* row again and inserts, as in LedgerTransactions; most, not all, name in *)
(* the second read the txTime of the row they first read.  The ownership   *)
(* percentages are kept as the credits they stand for, and the programme   *)
(* is authorized throughout.                                               *)
(***************************************************************************)
EXTENDS Integers, FiniteSets, FiniteSetsExt

CONSTANTS
    Clients,            \* API processes serving one request at a time
    Owners,             \* companies with a share in the programme
    Buyers,             \* companies without one
    Government,         \* retires credits and approves retirements
    CompanyId,          \* the number of each company
    AlsoNamed,          \* other numbers in the txRef of a payment, by its kind: the
                        \* RetireType, the user's, what the comment holds
    Weight,             \* proponentPercentage: credits of each owner in a unit issued
    Authorised,         \* units issued with the authorization
    Estimate,           \* creditEst, in units
    OmgePercentage,     \* of a cross-border retirement
    Amounts,            \* credits that may be asked for
    MaxTransfers,       \* bound: requests stored
    MaxBegun,           \* bound: requests that get past their first checks
    MaxFailures         \* bound: requests that end in an error

Companies == Owners \cup Buyers

Kinds == {"Transfer", "CrossBorder", "Local"}

ASSUME ProgrammeAssumption ==
    /\ Weight \in [Owners -> Nat]
    /\ CompanyId \in [Companies \cup {Government} -> Nat]
    /\ AlsoNamed \in [Kinds -> SUBSET Nat]
    /\ Authorised \in Nat /\ Estimate \in Nat /\ Authorised <= Estimate
    /\ OmgePercentage \in 0 .. 100
    /\ Amounts \subseteq Nat
    /\ MaxTransfers \in Nat /\ MaxBegun \in Nat /\ MaxFailures \in Nat

VARIABLES
    programme,      \* the latest row of the programme
    accounts,       \* company table: account -> credits
    paid,           \* rows of the programme's history written for each transfer
    named,          \* numbers that appear between two # in a txRef of that history
    transfers,      \* the requests, by requestId
    suspended,      \* companies in state SUSPENDED
    txn,            \* what each client is doing
    sweeps,         \* checks of the pending requests still to be carried out
    begun,          \* requests begun
    failures,       \* requests that failed
    overlapped,     \* history: a ledger operation began while another request ran
    issueOverlapped \* history: and one of the two was an issuance

pvars == <<programme, accounts, paid, named, transfers, suspended, txn, sweeps,
           begun, failures, overlapped, issueOverlapped>>

-----------------------------------------------------------------------------
(* Rows *)

Programme == [issued : Nat, holding : [Owners -> Nat], frozen : [Owners -> Nat],
              transferred : [Owners -> Nat], retired : [Owners -> Nat]]

\* A retirement is RECOGNISED or NOTRECOGNISED where a transfer is APPROVED or
\* REJECTED.  LowCredit is the CANCELLED that the check of pending requests sets.
Statuses == {"Pending", "Processing", "Approved", "Rejected", "Cancelled", "LowCredit"}

Transfer == [kind : Kinds, from : Owners, to : Companies \cup {Government},
             amount : Nat, status : Statuses]

Accounts == Companies \cup {"International", "Local", "OMGE"}

Available(p, o) == p.holding[o] - p.frozen[o]

\* The account a transfer pays into; of a cross-border retirement a part goes to
\* a second one.
ToAccount(t) ==
    CASE t.kind = "Transfer"    -> t.to
      [] t.kind = "CrossBorder" -> "International"
      [] t.kind = "Local"       -> "Local"

OmgeCredits(t) ==
    IF t.kind = "CrossBorder" THEN (t.amount * OmgePercentage) \div 100 ELSE 0

Received(t, a) ==
    CASE a = ToAccount(t)                       -> t.amount - OmgeCredits(t)
      [] a = "OMGE" /\ t.kind = "CrossBorder"   -> OmgeCredits(t)
      [] OTHER                                  -> 0

Involved(t) ==
    {t.from, ToAccount(t)} \cup (IF t.kind = "CrossBorder" THEN {"OMGE"} ELSE {})

Shares(n) == [o \in Owners |-> n * Weight[o]]

None == [o \in Owners |-> 0]

Idle == [pc |-> "idle", op |-> [kind |-> "None"], processed |-> FALSE,
         row |-> <<>>, balances |-> <<>>, fresh |-> FALSE, latest |-> <<>>]

Busy(c) == txn[c].pc # "idle"

PInit ==
    /\ programme = [issued |-> Authorised, holding |-> Shares(Authorised), frozen |-> None,
                    transferred |-> None, retired |-> None]
    /\ accounts = [a \in Accounts |-> IF a \in Owners THEN Authorised * Weight[a] ELSE 0]
    /\ paid = <<>>
    /\ named = {}
    /\ transfers = <<>>
    /\ suspended = {}
    /\ txn = [c \in Clients |-> Idle]
    /\ sweeps = {}
    /\ begun = 0
    /\ failures = 0
    /\ overlapped = FALSE
    /\ issueOverlapped = FALSE

Status(t, status) == [transfers EXCEPT ![t].status = status]

Append1(f, value) ==
    [i \in 1 .. Cardinality(DOMAIN f) + 1 |-> IF i \in DOMAIN f THEN f[i] ELSE value]

\* companyTransferCancel: one conditional update.
CancelPending(co) ==
    [t \in DOMAIN transfers |->
        IF /\ transfers[t].status = "Pending"
           /\ co \in {transfers[t].from, transfers[t].to}
        THEN [transfers[t] EXCEPT !.status = "Cancelled"] ELSE transfers[t]]

-----------------------------------------------------------------------------
(* What a ledger operation computes from the rows it read *)

Issuing(op) == op.kind \in {"Issue", "FreezeIssued"}

\* Mutant of LedgerAllows: the credits were only counted when the request came in.
LedgerAllowsUncounted(op, processed, row) == op.kind = "Pay" => ~processed

\* The checks of processGetFn.
LedgerAllows(op, processed, row) ==
    op.kind = "Pay" =>
        LET t == transfers[op.t] IN
        /\ ~processed
        /\ row.holding[t.from] # 0
        /\ Available(row, t.from) >= t.amount

\* What a payment does to the giver's share.
Paid(t, row, latest) ==
    LET left == [row.holding EXCEPT ![t.from] = @ - t.amount] IN
    IF t.kind = "Transfer"
    THEN [latest EXCEPT !.holding = left,
                        !.transferred = [row.transferred EXCEPT ![t.from] = @ + t.amount]]
    ELSE [latest EXCEPT !.holding = left,
                        !.retired = [row.retired EXCEPT ![t.from] = @ + t.amount]]

\* The fields an operation names, computed from the row it first read and
\* written over the latest one.
Updated(op, row, latest) ==
    CASE op.kind = "Pay" -> Paid(transfers[op.t], row, latest)
      [] op.kind = "Issue" ->
            [latest EXCEPT !.issued = row.issued + op.units,
                           !.holding = [o \in Owners |-> row.holding[o] + op.units * Weight[o]]]
      [] op.kind = "Freeze" ->
            [latest EXCEPT !.frozen = [row.frozen EXCEPT ![op.co] = row.holding[op.co]]]
      [] op.kind = "Unfreeze" ->
            [latest EXCEPT !.frozen = [row.frozen EXCEPT ![op.co] = 0]]
      [] op.kind = "FreezeIssued" ->
            [latest EXCEPT !.frozen =
                [o \in Owners |-> row.frozen[o] + (IF o \in op.cos THEN op.units * Weight[o] ELSE 0)]]

\* A company without a share, without credits or without frozen ones is passed
\* over.
Nothing(op, row) ==
    /\ op.kind \in {"Freeze", "Unfreeze"}
    /\ \/ op.co \notin Owners
       \/ op.kind = "Freeze" /\ row.holding[op.co] = 0
       \/ op.kind = "Unfreeze" /\ row.frozen[op.co] = 0

\* The second read names the txTime of the first; an issuance and the freezing
\* of its credits only name the programme.
NamesTxTime(op) == ~Issuing(op)

\* The accounts an operation writes, as absolute balances.
Balances(op, balances) ==
    CASE op.kind = "Pay" ->
            LET t == transfers[op.t] IN
            [a \in Accounts |->
                IF a \in Involved(t)
                THEN balances[a] + Received(t, a) - (IF a = t.from THEN t.amount ELSE 0)
                ELSE accounts[a]]
      [] op.kind = "Issue" ->
            [a \in Accounts |->
                IF a \in Owners THEN balances[a] + op.units * Weight[a] ELSE accounts[a]]
      [] OTHER -> accounts

-----------------------------------------------------------------------------
(* Requests *)

Goes(c, pc) == txn' = [txn EXCEPT ![c].pc = pc]

Ends(c) == txn' = [txn EXCEPT ![c] = Idle]

\* The history variables: another request is running when this one begins.
Begins(c, op, pc) ==
    /\ ~Busy(c)
    /\ begun < MaxBegun
    /\ begun' = begun + 1
    /\ txn' = [txn EXCEPT ![c] = [Idle EXCEPT !.pc = pc, !.op = op]]
    /\ overlapped' = (overlapped \/ \E d \in Clients : Busy(d))
    /\ issueOverlapped' =
         (issueOverlapped \/ \E d \in Clients : Busy(d) /\ (Issuing(op) \/ Issuing(txn[d].op)))

\* A step that begins no request.
Continues == UNCHANGED <<begun, overlapped, issueOverlapped>>

\* A request is stored; one that needs no approval is PROCESSING and paid at once.
Store(c, t, auto) ==
    LET id == Cardinality(DOMAIN transfers) + 1 IN
    /\ ~Busy(c)
    /\ id <= MaxTransfers
    /\ t.amount \in 1 .. Available(programme, t.from)
    /\ transfers' = Append1(transfers, t)
    /\ paid' = Append1(paid, 0)
    /\ IF auto THEN Begins(c, [kind |-> "Pay", t |-> id], "history")
               ELSE UNCHANGED txn /\ Continues
    /\ UNCHANGED <<programme, accounts, named, suspended, sweeps, failures>>

NewTransfer(kind, from, to, n, auto) ==
    [kind |-> kind, from |-> from, to |-> to, amount |-> n,
     status |-> IF auto THEN "Processing" ELSE "Pending"]

\* The giver's own request needs no approval.
TransferRequest(c, from, to, n, auto) ==
    /\ to # from
    /\ Store(c, NewTransfer("Transfer", from, to, n, auto), auto)

\* A retirement by the government needs no approval; only that may be local, and
\* then takes all the owner has.
RetireProgramme(c, kind, from, n, auto) ==
    /\ kind = "Local" => auto /\ n = Available(programme, from)
    /\ Store(c, NewTransfer(kind, from, Government, n, auto), auto)

\* One conditional update.
Withdraw(t, status) ==
    /\ transfers[t].status = "Pending"
    /\ transfers' = Status(t, status)
    /\ UNCHANGED <<programme, accounts, paid, named, suspended, txn, sweeps, failures>>
    /\ Continues

\* By the initiator, and by the approver.
TransferCancel(t) == Withdraw(t, "Cancelled")
TransferReject(t) == Withdraw(t, "Rejected")

\* transferApprove reads the request; a settled one is refused, a rejected one
\* is not.
Approve(c, t) ==
    /\ transfers[t].status \in {"Pending", "Processing", "Rejected"}
    /\ Begins(c, [kind |-> "Pay", t |-> t, found |-> transfers[t].status], "found")
    /\ UNCHANGED <<programme, accounts, paid, named, transfers, suspended, sweeps, failures>>

Suspended(t) == suspended \cap {transfers[t].from, transfers[t].to}

\* A suspended company's pending requests are cancelled, the receiver's first.
TurnDown(c) ==
    LET t == txn[c].op.t IN
    /\ txn[c].pc = "found"
    /\ Suspended(t) # {}
    /\ transfers' = CancelPending(IF transfers[t].to \in suspended THEN transfers[t].to
                                                                 ELSE transfers[t].from)
    /\ Ends(c)
    /\ Continues
    /\ UNCHANGED <<programme, accounts, paid, named, suspended, sweeps, failures>>

\* Mutant of TakeUp: the update does not name the status.
TakeUpAnyway(c) ==
    LET t == txn[c].op.t IN
    /\ txn[c].pc = "found"
    /\ Suspended(t) = {}
    /\ txn[c].op.found # "Processing"
    /\ transfers' = Status(t, "Processing")
    /\ txn' = [txn EXCEPT ![c] = [@ EXCEPT !.pc = "history", !.op = [kind |-> "Pay", t |-> t]]]
    /\ Continues
    /\ UNCHANGED <<programme, accounts, paid, named, suspended, sweeps, failures>>

\* A pending request becomes PROCESSING, by a conditional update.
TakeUp(c) ==
    LET t == txn[c].op.t IN
    /\ txn[c].pc = "found"
    /\ Suspended(t) = {}
    /\ txn[c].op.found # "Processing"
    /\ transfers[t].status = "Pending"
    /\ transfers' = Status(t, "Processing")
    /\ txn' = [txn EXCEPT ![c] = [@ EXCEPT !.pc = "history", !.op = [kind |-> "Pay", t |-> t]]]
    /\ Continues
    /\ UNCHANGED <<programme, accounts, paid, named, suspended, sweeps, failures>>

NotPending(c) ==
    LET t == txn[c].op.t IN
    /\ txn[c].pc = "found"
    /\ Suspended(t) = {}
    /\ txn[c].op.found # "Processing"
    /\ transfers[t].status # "Pending"
    /\ Ends(c)
    /\ Continues
    /\ UNCHANGED <<programme, accounts, paid, named, transfers, suspended, sweeps, failures>>

\* One that was PROCESSING already is paid without further ado.
Resume(c) ==
    LET t == txn[c].op.t IN
    /\ txn[c].pc = "found"
    /\ Suspended(t) = {}
    /\ txn[c].op.found = "Processing"
    /\ txn' = [txn EXCEPT ![c] = [@ EXCEPT !.pc = "history", !.op = [kind |-> "Pay", t |-> t]]]
    /\ Continues
    /\ UNCHANGED <<programme, accounts, paid, named, transfers, suspended, sweeps, failures>>

\* suspend: the state of the company, its credits, its requests.
Suspend(c, co) ==
    /\ co \in Companies \ suspended
    /\ suspended' = suspended \cup {co}
    /\ Begins(c, [kind |-> "Freeze", co |-> co], "programme")
    /\ UNCHANGED <<programme, accounts, paid, named, transfers, sweeps, failures>>

CancelRequests(c) ==
    /\ txn[c].pc = "cancel"
    /\ transfers' = CancelPending(txn[c].op.co)
    /\ Ends(c)
    /\ Continues
    /\ UNCHANGED <<programme, accounts, paid, named, suspended, sweeps, failures>>

\* activate: the state of the company and its credits.
Activate(c, co) ==
    /\ co \in suspended
    /\ suspended' = suspended \ {co}
    /\ Begins(c, [kind |-> "Unfreeze", co |-> co], "programme")
    /\ UNCHANGED <<programme, accounts, paid, named, transfers, sweeps, failures>>

\* issueProgrammeCredit checks the estimate on the row it fetches.
IssueUnits(c, n) ==
    /\ programme.issued + n <= Estimate
    /\ Begins(c, [kind |-> "Issue", units |-> n], "programme")
    /\ UNCHANGED <<programme, accounts, paid, named, transfers, suspended, sweeps, failures>>

\* Mutant of AfterIssue: the new credits of suspended companies are not frozen.
AfterIssueFree(c) ==
    /\ txn[c].pc = "issued"
    /\ Ends(c)
    /\ Continues
    /\ UNCHANGED <<programme, accounts, paid, named, transfers, suspended, sweeps, failures>>

\* Once the credits are issued, the companies are read, and what the suspended
\* ones received is frozen.
AfterIssue(c) ==
    LET cos == suspended \cap Owners IN
    /\ txn[c].pc = "issued"
    /\ IF cos = {} THEN Ends(c)
       ELSE txn' = [txn EXCEPT ![c] = [Idle EXCEPT !.pc = "programme",
                       !.op = [kind |-> "FreezeIssued", units |-> txn[c].op.units, cos |-> cos]]]
    /\ Continues
    /\ UNCHANGED <<programme, accounts, paid, named, transfers, suspended, sweeps, failures>>

-----------------------------------------------------------------------------
(* The steps of a ledger operation *)

\* Mutant of ReadHistory: the history is not asked.
ReadHistoryNot(c) ==
    /\ txn[c].pc = "history"
    /\ Goes(c, "programme")
    /\ Continues
    /\ UNCHANGED <<programme, accounts, paid, named, transfers, suspended, sweeps, failures>>

\* The history is searched for the number of the request between two #, in
\* whatever a txRef is made of.
ReadHistory(c) ==
    /\ txn[c].pc = "history"
    /\ txn' = [txn EXCEPT ![c] = [@ EXCEPT !.pc = "programme", !.processed = txn[c].op.t \in named]]
    /\ Continues
    /\ UNCHANGED <<programme, accounts, paid, named, transfers, suspended, sweeps, failures>>

ReadProgramme(c) ==
    /\ txn[c].pc = "programme"
    /\ txn' = [txn EXCEPT ![c] = [@ EXCEPT
                 !.pc = IF txn[c].op.kind \in {"Pay", "Issue"} THEN "accounts" ELSE "merge",
                 !.row = programme, !.fresh = TRUE]]
    /\ Continues
    /\ UNCHANGED <<programme, accounts, paid, named, transfers, suspended, sweeps, failures>>

ReadAccounts(c) ==
    /\ txn[c].pc = "accounts"
    /\ txn' = [txn EXCEPT ![c] = [@ EXCEPT !.pc = "merge", !.balances = accounts]]
    /\ Continues
    /\ UNCHANGED <<programme, accounts, paid, named, transfers, suspended, sweeps, failures>>

\* The ledger refuses; a request in PROCESSING stays there.
Refuse(c) ==
    /\ txn[c].pc = "merge"
    /\ ~LedgerAllows(txn[c].op, txn[c].processed, txn[c].row)
    /\ Ends(c)
    /\ Continues
    /\ UNCHANGED <<programme, accounts, paid, named, transfers, suspended, sweeps, failures>>

\* Mutant of Merge: the second read does not name the txTime.
MergeLatest(c) ==
    LET x == txn[c] IN
    /\ x.pc = "merge"
    /\ LedgerAllows(x.op, x.processed, x.row)
    /\ txn' = [txn EXCEPT ![c] = [@ EXCEPT !.pc = "commit",
                 !.latest = IF Nothing(x.op, x.row) THEN <<>>
                            ELSE Updated(x.op, x.row, programme)]]
    /\ Continues
    /\ UNCHANGED <<programme, accounts, paid, named, transfers, suspended, sweeps, failures>>

\* The row is read again and the fields are written over it; with the txTime
\* named, another's row in between is not found and there is nothing to write.
Merge(c) ==
    LET x == txn[c] IN
    /\ x.pc = "merge"
    /\ LedgerAllows(x.op, x.processed, x.row)
    /\ txn' = [txn EXCEPT ![c] = [@ EXCEPT !.pc = "commit",
                 !.latest = IF Nothing(x.op, x.row) \/ (NamesTxTime(x.op) /\ ~x.fresh) THEN <<>>
                            ELSE Updated(x.op, x.row, programme)]]
    /\ Continues
    /\ UNCHANGED <<programme, accounts, paid, named, transfers, suspended, sweeps, failures>>

Next2(op) ==
    CASE op.kind = "Pay"    -> "settle"
      [] op.kind = "Issue"  -> "issued"
      [] op.kind = "Freeze" -> "cancel"
      [] OTHER              -> "idle"

\* The rows are inserted in one transaction: those of the accounts also when
\* there is none for the programme.
Commit(c) ==
    LET x == txn[c]
        written == x.latest # <<>>
    IN
    /\ x.pc = "commit"
    /\ programme' = IF written THEN x.latest ELSE programme
    /\ accounts' = Balances(x.op, x.balances)
    /\ IF x.op.kind = "Pay" /\ written
       THEN /\ paid' = [paid EXCEPT ![x.op.t] = @ + 1]
            /\ named' = named \cup {x.op.t, CompanyId[transfers[x.op.t].from],
                                            CompanyId[transfers[x.op.t].to]}
                              \cup AlsoNamed[transfers[x.op.t].kind]
       ELSE UNCHANGED <<paid, named>>
    /\ txn' = [d \in Clients |->
                 IF d = c THEN IF Next2(x.op) = "idle" THEN Idle
                               ELSE [Idle EXCEPT !.pc = Next2(x.op), !.op = x.op,
                                        !.row = IF x.op.kind = "Pay" THEN x.row ELSE <<>>]
                 ELSE IF written THEN [txn[d] EXCEPT !.fresh = FALSE] ELSE txn[d]]
    /\ Continues
    /\ UNCHANGED <<transfers, suspended, sweeps, failures>>

\* The request is settled, whatever its status is by now, and the check of the
\* pending ones starts with the programme as the operation computed it.
Settle(c) ==
    LET x == txn[c]
        t == transfers[x.op.t]
    IN
    /\ x.pc = "settle"
    /\ transfers' = Status(x.op.t, "Approved")
    /\ sweeps' = sweeps \cup {[pc |-> "find", doomed |-> {},
                               holding |-> Paid(t, x.row, x.row).holding]}
    /\ Ends(c)
    /\ Continues
    /\ UNCHANGED <<programme, accounts, paid, named, suspended, failures>>

-----------------------------------------------------------------------------
(* checkPendingTransferValidity; nothing makes a check run, one that fails *)
(* simply stays where it is *)

Doomed(w) ==
    {t \in DOMAIN transfers : /\ transfers[t].status = "Pending"
                              /\ transfers[t].amount > w.holding[transfers[t].from]}

Sweep(w) ==
    /\ w.pc = "find"
    /\ sweeps' = (sweeps \ {w}) \cup
         (IF Doomed(w) = {} THEN {}
          ELSE {[pc |-> "cancel", doomed |-> Doomed(w), holding |-> None]})
    /\ Continues
    /\ UNCHANGED <<programme, accounts, paid, named, transfers, suspended, txn, failures>>

\* A request found is cancelled, by its id alone.
SweepCancel(w, t) ==
    /\ w.pc = "cancel"
    /\ t \in w.doomed
    /\ transfers' = Status(t, "LowCredit")
    /\ sweeps' = (sweeps \ {w}) \cup
         (IF w.doomed = {t} THEN {} ELSE {[w EXCEPT !.doomed = @ \ {t}]})
    /\ Continues
    /\ UNCHANGED <<programme, accounts, paid, named, suspended, txn, failures>>

\* A request ends in an error, or with the process, wherever it is, and nobody
\* resumes it.
Fail(c) ==
    /\ Busy(c)
    /\ failures < MaxFailures
    /\ failures' = failures + 1
    /\ Ends(c)
    /\ Continues
    /\ UNCHANGED <<programme, accounts, paid, named, transfers, suspended, sweeps>>

-----------------------------------------------------------------------------

Requests(c) ==
    \/ \E from \in Owners, to \in Companies, n \in Amounts, auto \in BOOLEAN :
          TransferRequest(c, from, to, n, auto)
    \/ \E kind \in {"CrossBorder", "Local"}, from \in Owners, n \in Amounts, auto \in BOOLEAN :
          RetireProgramme(c, kind, from, n, auto)
    \/ \E t \in DOMAIN transfers : Approve(c, t)
    \/ \E co \in Companies : Suspend(c, co)
    \/ \E co \in Companies : Activate(c, co)
    \/ \E n \in 1 .. Estimate : IssueUnits(c, n)

Approval(c) == TurnDown(c) \/ TakeUp(c) \/ NotPending(c) \/ Resume(c)

Ledger(c) ==
    \/ ReadHistory(c) \/ ReadProgramme(c) \/ ReadAccounts(c)
    \/ Refuse(c) \/ Merge(c) \/ Commit(c)

Afterwards(c) == Settle(c) \/ CancelRequests(c) \/ AfterIssue(c)

PNext ==
    \/ \E c \in Clients : Requests(c)
    \/ \E c \in Clients : Approval(c)
    \/ \E c \in Clients : Ledger(c)
    \/ \E c \in Clients : Afterwards(c)
    \/ \E c \in Clients : Fail(c)
    \/ \E t \in DOMAIN transfers : TransferCancel(t)
    \/ \E t \in DOMAIN transfers : TransferReject(t)
    \/ \E w \in sweeps : Sweep(w)
    \/ \E w \in sweeps : \E t \in w.doomed : SweepCancel(w, t)

PSpec == PInit /\ [][PNext]_pvars

-----------------------------------------------------------------------------
(* Properties *)

\* Every field holds a value of its kind; what an owner holds is never negative,
\* although it was counted in one row and is taken from another.
PTypeOK ==
    /\ programme \in Programme
    /\ accounts \in [Accounts -> Int]
    /\ DOMAIN paid = DOMAIN transfers
    /\ \A t \in DOMAIN transfers : transfers[t] \in Transfer /\ paid[t] \in Nat
    /\ suspended \subseteq Companies
    /\ begun \in 0 .. MaxBegun /\ failures \in 0 .. MaxFailures

AddsUp(p) ==
    \A o \in Owners : p.holding[o] + p.transferred[o] + p.retired[o] = p.issued * Weight[o]

\* However payments, retirements and freezes interleave, fail and are repeated,
\* each owner's share of the issued credits is still held, transferred or
\* retired: the operation that loses a race leaves the programme's row alone.
\* Only an issuance that overlaps another request breaks it, because its second
\* read names no txTime.
ProgrammeAddsUp == ~issueOverlapped => AddsUp(programme)

\* As long as no two requests overlap, an account holds what its company holds
\* in the programme and what was paid into it, each transfer once: a request
\* that failed after its payment is not paid again when it is approved again,
\* and one settled was paid.
AccountsAddUp ==
    ~overlapped =>
        \A a \in Accounts :
            accounts[a] =
                (IF a \in Owners THEN programme.holding[a] ELSE 0) +
                MapThenSumSet(LAMBDA t : Received(transfers[t], a),
                              {t \in DOMAIN transfers :
                                  paid[t] > 0 \/ transfers[t].status = "Approved"})

\* Whatever overlaps: a request that its initiator cancelled, that was rejected
\* or that fell with a suspended company stays refused and is never paid, also
\* when its approval had begun; all of them update it only while it is pending.
\* Only the check of pending requests may still name another reason.
RefusalStands ==
    [][\A t \in DOMAIN transfers :
         transfers[t].status \in {"Cancelled", "Rejected"} =>
             /\ transfers'[t].status \in {transfers[t].status, "LowCredit"}
             /\ paid'[t] = 0]_pvars

\* The credits of a suspended company are frozen, also those issued to it later,
\* as long as no two requests overlap and none fails.
SuspendedHeldBack ==
    ~overlapped /\ failures = 0 /\ (\A c \in Clients : ~Busy(c)) =>
        \A o \in suspended \cap Owners : programme.frozen[o] = programme.holding[o]

=============================================================================
