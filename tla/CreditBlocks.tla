---------------------------- MODULE CreditBlocks ----------------------------
(***************************************************************************)
(* A credit block: a run of consecutive serial numbers of one project that *)
(* share an owner.  The ledger keys a block by                             *)
(* creditBlockId = <project serial prefix>-<first serial>, so here a block *)
(* table is a function from the first serial of a block to the rest of it. *)
(* One project is modelled: every operation on a block touches only the    *)
(* project named by that block, so projects do not interact.               *)
(*                                                                         *)
(* Abstracted: txRef, previousOwnerCompanyId and remarks (display only),   *)
(* the vintage (copied, never read by a guard), the country and entity of  *)
(* a first transfer.  An undefined accountType and "Holding" are one value *)
(* (every reader treats them alike).                                       *)
(***************************************************************************)
EXTENDS Integers, Sequences

CONSTANTS
    Developers,     \* company ids with role PROJECT_DEVELOPER
    NoCompany       \* owner id 0: the credits have been retired

ASSUME CompanyAssumption == NoCompany \notin Developers

Companies == Developers \cup {NoCompany}

-----------------------------------------------------------------------------
(* Enumerations *)

TxStatus == {"Pending", "Completed", "Rejected", "Cancelled"}
TxKind == {"Retired", "ItmoAuthorized"}

FirstTransfers == {"FirstTransferTowardsNDC", "FirstTransferForOIMP"}
Cancellations == {"VoluntaryCancellation", "OMGECancellation"}
SubTypes == FirstTransfers \cup Cancellations \cup {"UseTowardsNDC"}

AuthorizationPurpose == {"NDC", "OIMP", "Other"}

AccountType == {"Holding", "RetirementNDC", "RetirementOIMP",
                "CancellationVoluntary", "CancellationOMGE"}

\* A retired credit lands in the account of its retirement subtype.  A
\* request without a subtype falls through to the default.
MapSubTypeToAccountType(sub) ==
    CASE sub \in {"UseTowardsNDC", "FirstTransferTowardsNDC"} -> "RetirementNDC"
      [] sub = "FirstTransferForOIMP"  -> "RetirementOIMP"
      [] sub = "OMGECancellation"      -> "CancellationOMGE"
      [] sub = "VoluntaryCancellation" -> "CancellationVoluntary"
      [] OTHER                         -> "Holding"

-----------------------------------------------------------------------------
(* Records *)

\* An entry of transactionRecords.
TransactionRecord == [id : Nat, type : TxKind, status : TxStatus, amount : Nat]

\* itmo is the id of the authorizing request, 0 while the block is a plain
\* mitigation outcome; itmoEnd is the last serial of its itmoSerial.
CreditBlock == [end : Nat, amount : Nat, reserved : Nat, owner : Companies,
                itmo : Nat, itmoEnd : Nat, isNotTransferred : BOOLEAN,
                account : AccountType, records : Seq(TransactionRecord)]

\* Mutant of Unassigned: reserved credits count as available.
UnassignedOverbooked(b) == b.amount

Unassigned(b) == b.amount - b.reserved

PendingAmount(r) == IF r.status = "Pending" THEN r.amount ELSE 0

\* cum are the running totals of the reservations of a record list.
RunningTotal(records, cum) ==
    /\ cum[0] = 0
    /\ \A k \in DOMAIN records : cum[k] = cum[k - 1] + PendingAmount(records[k])

IsItmo(b) == b.itmo # 0

-----------------------------------------------------------------------------
(* Serial ranges *)

\* splitCreditBlockSerialNumber: the second part takes the n highest serials.
\* It throws unless a non-empty first part is left.
CanSplit(s, b, n) == n < b.end - s + 1
SecondStart(b, n) == b.end - n + 1

\* The block that keeps the low serials after n of them have left it.
Retained(b, n) == [b EXCEPT !.end = @ - n, !.amount = @ - n]

\* A table in which block s has become parent and block c has been inserted.
Split(table, s, parent, c, child) ==
    [i \in DOMAIN table \cup {c} |->
        IF i = c THEN child ELSE IF i = s THEN parent ELSE table[i]]

NewBlock(first, last, company) ==
    [end |-> last, amount |-> last - first + 1, reserved |-> 0,
     owner |-> company, itmo |-> 0, itmoEnd |-> 0, isNotTransferred |-> TRUE,
     account |-> "Holding", records |-> <<>>]

\* Running totals of the vintages of a verification report, as the class-validator
\* rules of ActivityVintageCreditsDto allow them: at least one vintage, each with
\* a positive integer amount.
IsVintageTotals(t) ==
    /\ t \in Seq(Nat \ {0})
    /\ Len(t) > 0
    /\ \A i, j \in DOMAIN t : i < j => t[i] < t[j]

Total(t) == t[Len(t)]

\* Mutant of VintageStart: the start is not advanced from vintage to vintage.
VintageStartStuck(totals, alreadyIssued, i) == alreadyIssued + 1

\* The blocks of one issuance: the vintages take consecutive ranges after the
\* alreadyIssued credits; totals[i] is the sum of the first i vintages.
VintageStart(totals, alreadyIssued, i) ==
    alreadyIssued + 1 + (IF i = 1 THEN 0 ELSE totals[i - 1])

NewBlocks(totals, alreadyIssued, company) ==
    LET Start(i) == VintageStart(totals, alreadyIssued, i) IN
    [s \in {Start(i) : i \in DOMAIN totals} |->
        LET i == CHOOSE j \in DOMAIN totals : Start(j) = s
        IN  NewBlock(s, alreadyIssued + totals[i], company)]

Insert(table, new) ==
    [s \in DOMAIN table \cup DOMAIN new |->
        IF s \in DOMAIN new THEN new[s] ELSE table[s]]

\* The blocks of a table cut the serial numbers 1 .. n into disjoint runs
\* without a gap, and each stored creditAmount is the width of its run.
Partition(table, n) ==
    /\ \A s \in DOMAIN table :
        /\ table[s].amount = table[s].end - s + 1
        /\ s <= table[s].end /\ table[s].end <= n
    /\ \A s, t \in DOMAIN table : s < t => table[s].end < t
    /\ \A i \in 1 .. n : \E s \in DOMAIN table : s <= i /\ i <= table[s].end

-----------------------------------------------------------------------------
(* What an operation does to the block it names.  Each operator is the     *)
(* content of one update or insert of the ledger write.                    *)

TakesWhole(b, n) == b.reserved = 0 /\ Unassigned(b) = n

TransferredWhole(b, to) == [b EXCEPT !.owner = to, !.isNotTransferred = FALSE]

\* The child inherits the authorization record but no itmoSerial.
TransferredPart(b, n, to) ==
    [end |-> b.end, amount |-> n, reserved |-> 0, owner |-> to,
     itmo |-> b.itmo, itmoEnd |-> 0, isNotTransferred |-> FALSE,
     account |-> "Holding", records |-> <<>>]

WithRequest(b, id, kind, n) ==
    [b EXCEPT !.reserved = @ + n,
              !.records = Append(@, [id |-> id, type |-> kind,
                                     status |-> "Pending", amount |-> n])]

\* Mutants of Settled: the reservation is kept, or released by the block's size.
SettledKeepingReservation(b, k, status) == [b EXCEPT !.records[k].status = status]
SettledByBlock(b, k, status) ==
    [b EXCEPT !.reserved = @ - b.amount, !.records[k].status = status]

\* The k-th record reaches a final status and its reservation is released.
Settled(b, k, status) ==
    [b EXCEPT !.reserved = @ - b.records[k].amount,
              !.records[k].status = status]

\* The request covers the whole block, so it is decided in place.
CoversBlock(b, k) ==
    /\ b.reserved = b.records[k].amount
    /\ b.amount = b.records[k].amount

RetiredWhole(b, k, account) ==
    [Settled(b, k, "Completed") EXCEPT
        !.owner = NoCompany, !.isNotTransferred = FALSE, !.account = account]

Completed(r, kind) == <<[id |-> r.id, type |-> kind,
                         status |-> "Completed", amount |-> r.amount]>>

\* Mutant of RetiredRest: the parent's itmoSerial is not split.
RetiredRestUnsplitItmo(b, k) ==
    Retained(Settled(b, k, "Completed"), b.records[k].amount)

\* The parent of a partial retirement keeps the low end of both serials.
RetiredRest(b, k) ==
    LET rest == Retained(Settled(b, k, "Completed"), b.records[k].amount)
    IN  [rest EXCEPT !.itmoEnd = IF @ = 0 THEN 0 ELSE @ - b.records[k].amount]

RetiredPart(b, k, account) ==
    LET r == b.records[k] IN
    [end |-> b.end, amount |-> r.amount, reserved |-> 0, owner |-> NoCompany,
     itmo |-> b.itmo, itmoEnd |-> b.itmoEnd, isNotTransferred |-> FALSE,
     account |-> account, records |-> Completed(r, "Retired")]

AuthorizedWhole(b, k) ==
    [Settled(b, k, "Completed") EXCEPT
        !.itmo = b.records[k].id, !.itmoEnd = b.end]

\* Only the child of a partial authorization becomes an ITMO.
AuthorizedPart(b, k) ==
    LET r == b.records[k] IN
    [end |-> b.end, amount |-> r.amount, reserved |-> 0, owner |-> b.owner,
     itmo |-> r.id, itmoEnd |-> b.end, isNotTransferred |-> b.isNotTransferred,
     account |-> "Holding", records |-> Completed(r, "ItmoAuthorized")]

=============================================================================
