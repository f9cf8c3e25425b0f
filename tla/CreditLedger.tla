---------------------------- MODULE CreditLedger ----------------------------
(***************************************************************************)
(* The credit registry as its API promises it: each request runs alone,    *)
(* its service-level checks and its ledger transaction see the same state. *)
(* Credits of one project are issued as blocks of serial numbers, moved    *)
(* between developers, authorized as ITMOs under a cooperative approach    *)
(* and retired.  LedgerTransactions.tla splits every operation into the    *)
(* separate reads and writes the code performs.                            *)
(*                                                                         *)
(* Guards on a company's ACTIVE/SUSPENDED state and on user roles belong   *)
(* to components that are not modelled; leaving them out only adds         *)
(* behaviours.                                                             *)
(***************************************************************************)
EXTENDS CreditBlocks

CONSTANTS
    CreditEst,          \* project.creditEst, the estimate set at validation
    ProjectOwner,       \* project.companyId
    HasCounterparty,    \* the approach has a party besides the host
    VintageTotals,      \* running totals of the verification reports considered
    UseTypes,           \* retirement subtypes considered
    Purposes,           \* authorization purposes considered
    MaxRequests         \* bound: retirement and authorization requests made

ASSUME LedgerAssumption ==
    /\ CreditEst \in Nat
    /\ ProjectOwner \in Developers
    /\ HasCounterparty \in BOOLEAN
    /\ \A t \in VintageTotals : IsVintageTotals(t)
    /\ UseTypes \subseteq SubTypes
    /\ Purposes \subseteq AuthorizationPurpose
    /\ MaxRequests \in Nat

VARIABLES
    blocks,         \* first serial of a block -> the block
    project,        \* credit totals of the project row
    companyCredit,  \* credit of the owner's row in the company table
    activity,       \* state of the project's last activity
    report,         \* running totals in the verification report on file
    requests,       \* retirement and authorization requests, by id
    caStatus        \* status of the cooperative approach

vars == <<blocks, project, companyCredit, activity, report, requests, caStatus>>

Request ==
    [type : TxKind, subType : SubTypes \cup {"None"},
     purpose : AuthorizationPurpose \cup {"None"}, amount : Nat \ {0},
     sender : Developers, block : Nat, status : TxStatus]

ActivityState == {"None", "MonitoringVerified", "VerificationUploaded",
                  "VerificationVerified", "VerificationRejected"}

CAStatus == {"Draft", "Submitted", "Active", "Suspended", "Completed", "Revoked"}

TypeOK ==
    /\ DOMAIN blocks \subseteq Nat \ {0}
    /\ blocks \in [DOMAIN blocks -> CreditBlock]
    /\ project \in [issued : Nat, balance : Int, transferred : Nat, retired : Nat]
    /\ companyCredit \in Nat
    /\ activity \in ActivityState
    /\ report \in VintageTotals \cup {<<>>}
    /\ requests \in Seq(Request)
    /\ caStatus \in CAStatus

Init ==
    /\ blocks = <<>>
    /\ project = [issued |-> 0, balance |-> 0, transferred |-> 0, retired |-> 0]
    /\ companyCredit = 0
    /\ activity = "None"
    /\ report = <<>>
    /\ requests = <<>>
    /\ caStatus = "Draft"

-----------------------------------------------------------------------------
(* Verification and issuance *)

\* A monitoring report of a new activity is uploaded and approved; a second
\* activity may only follow a fully verified one.
VerifyMonitoring ==
    /\ activity \in {"None", "VerificationVerified"}
    /\ activity' = "MonitoringVerified"
    /\ UNCHANGED <<blocks, project, companyCredit, report, requests, caStatus>>

UploadVerification(totals) ==
    /\ activity \in {"MonitoringVerified", "VerificationRejected"}
    /\ Total(totals) <= CreditEst - project.issued
    /\ activity' = "VerificationUploaded"
    /\ report' = totals
    /\ UNCHANGED <<blocks, project, companyCredit, requests, caStatus>>

RejectVerification ==
    /\ activity = "VerificationUploaded"
    /\ activity' = "VerificationRejected"
    /\ report' = <<>>
    /\ UNCHANGED <<blocks, project, companyCredit, requests, caStatus>>

\* Until the first issuance the ledger's project row has no creditIssued, so
\* the code compares with NaN and the estimate does not limit anything here.
WithinEstimate(n) == project.issued = 0 \/ n <= CreditEst - project.issued

\* One new block per vintage, with project and company totals, in one write.
IssueCredits ==
    /\ activity = "VerificationUploaded"
    /\ WithinEstimate(Total(report))
    /\ blocks' = Insert(blocks, NewBlocks(report, project.issued, ProjectOwner))
    /\ project' = [project EXCEPT !.issued = @ + Total(report),
                                  !.balance = @ + Total(report)]
    /\ companyCredit' = companyCredit + Total(report)
    /\ activity' = "VerificationVerified"
    /\ report' = <<>>
    /\ UNCHANGED <<requests, caStatus>>

-----------------------------------------------------------------------------
(* Transfer *)

\* Mutant of Debit: the counter of moved credits is forgotten.
DebitBalanceOnly(b, n, counter) ==
    IF b.isNotTransferred THEN [project EXCEPT !.balance = @ - n] ELSE project

\* Credits leave the project's own balance the first time they move.
Debit(b, n, counter) ==
    IF b.isNotTransferred
    THEN [project EXCEPT !.balance = @ - n, ![counter] = @ + n]
    ELSE project

CanTransfer(b, n, to) ==
    /\ b.owner \in Developers \ {to}
    /\ n \in 1 .. Unassigned(b)
    /\ ~IsItmo(b)

TransferWhole(s, n, to) ==
    LET b == blocks[s] IN
    /\ CanTransfer(b, n, to)
    /\ TakesWhole(b, n)
    /\ blocks' = [blocks EXCEPT ![s] = TransferredWhole(b, to)]
    /\ project' = Debit(b, n, "transferred")
    /\ UNCHANGED <<companyCredit, activity, report, requests, caStatus>>

TransferPart(s, n, to) ==
    LET b == blocks[s] IN
    /\ CanTransfer(b, n, to)
    /\ ~TakesWhole(b, n)
    /\ CanSplit(s, b, n)
    /\ blocks' = Split(blocks, s, Retained(b, n),
                       SecondStart(b, n), TransferredPart(b, n, to))
    /\ project' = Debit(b, n, "transferred")
    /\ UNCHANGED <<companyCredit, activity, report, requests, caStatus>>

-----------------------------------------------------------------------------
(* Retirement *)

PurposeOf(b) == requests[b.itmo].purpose

\* Mutant of MayRetireFor: the authorized purpose is not looked up.
MayRetireForAnyPurpose(b, sub) ==
    IF IsItmo(b) THEN sub # "UseTowardsNDC" ELSE sub \notin FirstTransfers

\* resolveRetirementUseFields: which subtypes the block may retire for.
MayRetireFor(b, sub) ==
    IF IsItmo(b)
    THEN CASE sub = "FirstTransferTowardsNDC" -> PurposeOf(b) = "NDC"
           [] sub = "FirstTransferForOIMP"    -> PurposeOf(b) # "NDC"
           [] OTHER                           -> sub \in Cancellations
    ELSE sub \notin FirstTransfers

NewRequest(kind, sub, purpose, n, s) ==
    Append(requests, [type |-> kind, subType |-> sub, purpose |-> purpose,
                      amount |-> n, sender |-> blocks[s].owner, block |-> s,
                      status |-> "Pending"])

AddRetireRequest(s, n, sub) ==
    LET b == blocks[s] IN
    /\ Len(requests) < MaxRequests
    /\ b.owner \in Developers
    /\ n \in 1 .. Unassigned(b)
    /\ MayRetireFor(b, sub)
    /\ blocks' = [blocks EXCEPT
                    ![s] = WithRequest(b, Len(requests) + 1, "Retired", n)]
    /\ requests' = NewRequest("Retired", sub, "None", n, s)
    /\ UNCHANGED <<project, companyCredit, activity, report, caStatus>>

\* Request r is pending, and it is the k-th record of its block.
Undecided(r, k) ==
    LET s == requests[r].block IN
    /\ requests[r].status = "Pending"
    /\ s \in DOMAIN blocks
    /\ k \in DOMAIN blocks[s].records
    /\ blocks[s].records[k].id = r
    /\ blocks[s].records[k].status = "Pending"

\* Mutant of Complete: the row keeps pointing at the block of the request.
CompleteInPlace(r, s) == requests' = [requests EXCEPT ![r].status = "Completed"]

\* The row of a completed request points at the block that carries it.
Complete(r, s) ==
    requests' = [requests EXCEPT ![r].status = "Completed", ![r].block = s]

\* The service and the ledger look the request up by id alone: they accept
\* an authorization request here as well.
AcceptRetireWhole(r, k) ==
    LET s == requests[r].block
        b == blocks[s]
        account == MapSubTypeToAccountType(requests[r].subType)
    IN
    /\ Undecided(r, k)
    /\ CoversBlock(b, k)
    /\ blocks' = [blocks EXCEPT ![s] = RetiredWhole(b, k, account)]
    /\ project' = Debit(b, b.records[k].amount, "retired")
    /\ Complete(r, s)
    /\ UNCHANGED <<companyCredit, activity, report, caStatus>>

AcceptRetirePart(r, k) ==
    LET s == requests[r].block
        b == blocks[s]
        n == b.records[k].amount
        account == MapSubTypeToAccountType(requests[r].subType)
    IN
    /\ Undecided(r, k)
    /\ ~CoversBlock(b, k)
    /\ CanSplit(s, b, n)
    /\ blocks' = Split(blocks, s, RetiredRest(b, k),
                       SecondStart(b, n), RetiredPart(b, k, account))
    /\ project' = Debit(b, n, "retired")
    /\ Complete(r, SecondStart(b, n))
    /\ UNCHANGED <<companyCredit, activity, report, caStatus>>

\* A government user rejects, or the requesting company cancels.  The
\* retirement and the authorization endpoints do the same to the state.
Decline(r, k, status) ==
    LET s == requests[r].block IN
    /\ Undecided(r, k)
    /\ blocks' = [blocks EXCEPT ![s] = Settled(@, k, status)]
    /\ requests' = [requests EXCEPT ![r].status = status]
    /\ UNCHANGED <<project, companyCredit, activity, report, caStatus>>

-----------------------------------------------------------------------------
(* ITMO authorization *)

AddItmoAuthRequest(s, n, purpose) ==
    LET b == blocks[s] IN
    /\ Len(requests) < MaxRequests
    /\ b.owner \in Developers
    /\ ~IsItmo(b)
    /\ b.account = "Holding"
    /\ caStatus = "Active"
    /\ purpose = "NDC" => HasCounterparty
    /\ n \in 1 .. Unassigned(b)
    /\ blocks' = [blocks EXCEPT
                    ![s] = WithRequest(b, Len(requests) + 1, "ItmoAuthorized", n)]
    /\ requests' = NewRequest("ItmoAuthorized", "None", purpose, n, s)
    /\ UNCHANGED <<project, companyCredit, activity, report, caStatus>>

\* caReferenceNumber is assigned when the approach leaves Draft.
CanAuthorize(r, k) ==
    /\ Undecided(r, k)
    /\ requests[r].type = "ItmoAuthorized"
    /\ caStatus # "Draft"

AcceptItmoWhole(r, k) ==
    LET s == requests[r].block
        b == blocks[s]
    IN
    /\ CanAuthorize(r, k)
    /\ CoversBlock(b, k)
    /\ blocks' = [blocks EXCEPT ![s] = AuthorizedWhole(b, k)]
    /\ Complete(r, s)
    /\ UNCHANGED <<project, companyCredit, activity, report, caStatus>>

AcceptItmoPart(r, k) ==
    LET s == requests[r].block
        b == blocks[s]
        n == b.records[k].amount
    IN
    /\ CanAuthorize(r, k)
    /\ ~CoversBlock(b, k)
    /\ CanSplit(s, b, n)
    /\ blocks' = Split(blocks, s, Retained(Settled(b, k, "Completed"), n),
                       SecondStart(b, n), AuthorizedPart(b, k))
    /\ Complete(r, SecondStart(b, n))
    /\ UNCHANGED <<project, companyCredit, activity, report, caStatus>>

-----------------------------------------------------------------------------
(* Cooperative approach *)

AllowedTransitions ==
    [Draft     |-> {},
     Submitted |-> {"Active"},
     Active    |-> {"Suspended", "Completed", "Revoked"},
     Suspended |-> {"Active", "Completed", "Revoked"},
     Completed |-> {},
     Revoked   |-> {}]

\* Submitting the initial report is the only way out of Draft.
MarkSubmitted ==
    /\ caStatus = "Draft"
    /\ caStatus' = "Submitted"
    /\ UNCHANGED <<blocks, project, companyCredit, activity, report, requests>>

UpdateApproach(status) ==
    /\ status \in AllowedTransitions[caStatus]
    /\ caStatus' = status
    /\ UNCHANGED <<blocks, project, companyCredit, activity, report, requests>>

-----------------------------------------------------------------------------

Issuance ==
    \/ VerifyMonitoring
    \/ \E t \in VintageTotals : UploadVerification(t)
    \/ RejectVerification
    \/ IssueCredits

BlockOperation(s) ==
    \E n \in 1 .. blocks[s].amount :
        \/ \E to \in Developers : TransferWhole(s, n, to) \/ TransferPart(s, n, to)
        \/ \E sub \in UseTypes : AddRetireRequest(s, n, sub)
        \/ \E purpose \in Purposes : AddItmoAuthRequest(s, n, purpose)

Decision(r, k) ==
    \/ AcceptRetireWhole(r, k)
    \/ AcceptRetirePart(r, k)
    \/ AcceptItmoWhole(r, k)
    \/ AcceptItmoPart(r, k)
    \/ \E status \in {"Rejected", "Cancelled"} : Decline(r, k, status)

Next ==
    \/ Issuance
    \/ \E s \in DOMAIN blocks : BlockOperation(s)
    \/ \E r \in DOMAIN requests :
         \E k \in DOMAIN blocks[requests[r].block].records : Decision(r, k)
    \/ MarkSubmitted
    \/ \E status \in CAStatus : UpdateApproach(status)

Spec == Init /\ [][Next]_vars


-----------------------------------------------------------------------------
(* Properties *)

\* No serial number is counted twice: the blocks cut 1 .. issued into
\* disjoint runs without a gap, and each stored creditAmount is the width of
\* its run.  Splits in transfer, retirement and authorization and the numbering
\* of new issuances each recompute one side of this.
SerialsPartitionIssued == Partition(blocks, project.issued)

\* Credits are never minted beyond the estimate, although the ledger's own
\* comparison is void before the first issuance.
IssuedWithinEstimate == project.issued <= CreditEst

\* reservedCreditAmount is the sum of the amounts of the pending requests of
\* the block and never exceeds the block: several requests on one block cannot
\* promise the same credit twice.
ReservedIsPending ==
    \A s \in DOMAIN blocks :
        LET b == blocks[s] IN
        /\ b.reserved <= b.amount
        /\ \E cum \in [0 .. Len(b.records) -> 0 .. b.reserved] :
             RunningTotal(b.records, cum) /\ cum[Len(b.records)] = b.reserved

\* A pending request is held by exactly the block it names, still owned by the
\* company that asked, and it can be granted: the split it needs does not throw.
PendingCanBeSettled ==
    \A r \in DOMAIN requests : requests[r].status = "Pending" =>
        LET s == requests[r].block IN
        \E k \in DOMAIN blocks[s].records :
            /\ Undecided(r, k)
            /\ blocks[s].records[k].amount = requests[r].amount
            /\ blocks[s].owner = requests[r].sender
            /\ CoversBlock(blocks[s], k) \/ CanSplit(s, blocks[s], requests[r].amount)

\* Credits that left the country or were used towards an NDC did so for a
\* purpose they were authorized for: the subtype is only checked when the
\* retirement is requested, the block may be split and authorized before it is
\* approved.
RetiredForItsPurpose ==
    \A s \in DOMAIN blocks :
        LET b == blocks[s] IN
        /\ b.account = "RetirementOIMP" => IsItmo(b) /\ PurposeOf(b) # "NDC"
        /\ b.account = "RetirementNDC" /\ IsItmo(b) => PurposeOf(b) = "NDC"

\* A retired block can be traced to the one completed request that covers it.
RetirementTraceable ==
    \A s \in DOMAIN blocks : blocks[s].owner = NoCompany =>
        \E r \in DOMAIN requests :
            /\ requests[r].status = "Completed"
            /\ requests[r].block = s
            /\ requests[r].amount = blocks[s].amount
            /\ blocks[s].account = MapSubTypeToAccountType(requests[r].subType)

\* An ITMO's own serial covers the same run as its block, through any split.
ItmoSerialMatches ==
    \A s \in DOMAIN blocks : IsItmo(blocks[s]) => blocks[s].itmoEnd = blocks[s].end

\* The project row counts every issued credit once: still with the project,
\* first moved by a transfer, or first moved by a retirement.
BalanceConserved ==
    project.balance + project.transferred + project.retired = project.issued

\* Retirement is final: no later operation touches a retired block.
RetiredIsFinal ==
    [][\A s \in DOMAIN blocks : blocks[s].owner = NoCompany =>
            s \in DOMAIN blocks' /\ blocks'[s] = blocks[s]]_vars

\* Stated by the business documentation and by the comment on the status
\* enumeration: a Revoked approach is never again the source of a new first
\* transfer.  A first transfer happens when the retirement is approved.
RevokedBacksNoFirstTransfer ==
    [][\A r \in DOMAIN requests :
         /\ requests[r].status = "Pending" /\ requests'[r].status = "Completed"
         /\ requests[r].subType \in FirstTransfers
         => caStatus # "Revoked"]_vars

\* Stated by the comment in retirementRequestAction: the subtype chosen on the
\* request decides which account the retired block lands in, so no retired
\* block stays in the holding account.
RetiredInAccount ==
    \A s \in DOMAIN blocks :
        blocks[s].owner = NoCompany => blocks[s].account # "Holding"

=============================================================================
