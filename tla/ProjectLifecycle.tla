-------------------------- MODULE ProjectLifecycle --------------------------
(***************************************************************************)
(* The documents of one project, from the initial notification to the      *)
(* issuance of credits, and the proposal stage they move it through.       *)
(*                                                                         *)
(* Two databases take part.  The stage and the list of approved activities *)
(* are in the ledger's project row; documents and the state of activities  *)
(* are in the operational database.  A decision checks the status of its   *)
(* document there, then writes the ledger; the document only gets its new  *)
(* status when the replicator applies the ledger event.  An upload checks  *)
(* the stage, saves the document, then writes the ledger.                  *)
(*                                                                         *)
(* A ledger call is two steps: it reads the row and prepares the new one,  *)
(* then looks for a row with the txTime it read and inserts.  The second   *)
(* look and the insert are one step here; LedgerTransactions.tla takes     *)
(* them apart.  Amounts and the estimate are in CreditLedger.tla.          *)
(***************************************************************************)
EXTENDS Sequences, FiniteSets, Naturals

CONSTANTS
    Clients,    \* requests in progress at one time
    Starts,     \* how many events of Beginning a project has behind it at first
    MaxUploads  \* bound: documents saved from there on

ASSUME LifecycleAssumption == Starts \subseteq 0 .. 7 /\ MaxUploads \in Nat

VARIABLES
    ledger,     \* events of the project's row, oldest first; each is a whole row
    docs,       \* documents, by id
    acts,       \* activities of the operational database, by id
    applied,    \* events the replicator has applied
    request,    \* what each client is in the middle of
    uploadsLeft \* bound: documents that may still be saved

lvars == <<ledger, docs, acts, applied, request, uploadsLeft>>

DocTypes == {"Inf", "Pdd", "Validation", "Monitoring", "Verification"}

DocStatus == {"Pending", "IcApproved", "IcRejected", "DnaApproved", "DnaRejected"}

ActivityState == {"MonitoringUploaded", "MonitoringRejected", "MonitoringVerified",
                  "VerificationUploaded", "VerificationRejected",
                  "VerificationVerified"}

\* updateProjectProposalStage: the stages a transaction expects and the one it sets.
Transition ==
    [ApproveInf       |-> [from |-> {"Pending"}, to |-> "Approved"],
     RejectInf        |-> [from |-> {"Pending"}, to |-> "Rejected"],
     CreatePdd        |-> [from |-> {"Approved", "PddRejectedByCertifier",
                                     "PddRejectedByDna"}, to |-> "PddSubmitted"],
     ApprovePddByIc   |-> [from |-> {"PddSubmitted"}, to |-> "PddApprovedByCertifier"],
     RejectPddByIc    |-> [from |-> {"PddSubmitted"}, to |-> "PddRejectedByCertifier"],
     ApprovePddByDna  |-> [from |-> {"PddApprovedByCertifier"}, to |-> "PddApprovedByDna"],
     RejectPddByDna   |-> [from |-> {"PddApprovedByCertifier"}, to |-> "PddRejectedByDna"],
     CreateValidation |-> [from |-> {"PddApprovedByDna", "ValidationDnaRejected"},
                           to |-> "ValidationReportSubmitted"],
     ApproveValidation |-> [from |-> {"ValidationReportSubmitted"}, to |-> "Authorised"],
     RejectValidation |-> [from |-> {"ValidationReportSubmitted"},
                           to |-> "ValidationDnaRejected"]]

StageTx == DOMAIN Transition
TxTypes == StageTx \cup {"CreateProject", "ApproveMonitoring", "Issue"}

\* The status the replicator gives a document for a decision on it.
Brings ==
    [ApproveInf |-> "DnaApproved", RejectInf |-> "DnaRejected",
     ApprovePddByIc |-> "IcApproved", RejectPddByIc |-> "IcRejected",
     ApprovePddByDna |-> "DnaApproved", RejectPddByDna |-> "DnaRejected",
     ApproveValidation |-> "DnaApproved", RejectValidation |-> "DnaRejected",
     ApproveMonitoring |-> "IcApproved", Issue |-> "DnaApproved"]

IsDecision(tx) == tx \in DOMAIN Brings

\* The decisions on a document: the status it must have and the transaction
\* the decision writes to the ledger, by handler.
DecideInf ==
    {[type |-> "Inf", needs |-> "Pending", tx |-> t] : t \in {"ApproveInf", "RejectInf"}}

DecidePdd ==
    {[type |-> "Pdd", needs |-> "Pending", tx |-> t] : t \in {"ApprovePddByIc", "RejectPddByIc"}}
    \cup
    {[type |-> "Pdd", needs |-> "IcApproved", tx |-> t] : t \in {"ApprovePddByDna", "RejectPddByDna"}}

DecideValidation ==
    {[type |-> "Validation", needs |-> "Pending", tx |-> t] :
       t \in {"ApproveValidation", "RejectValidation"}}

ApproveReport ==
    {[type |-> "Monitoring", needs |-> "Pending", tx |-> "ApproveMonitoring"],
     [type |-> "Verification", needs |-> "Pending", tx |-> "Issue"]}

Decisions == DecideInf \cup DecidePdd \cup DecideValidation \cup ApproveReport

\* The events of a project that is reviewed without a rejection.
Beginning ==
    <<[tx |-> "CreateProject", doc |-> 1, stage |-> "Pending"],
      [tx |-> "ApproveInf", doc |-> 1, stage |-> "Approved"],
      [tx |-> "CreatePdd", doc |-> 2, stage |-> "PddSubmitted"],
      [tx |-> "ApprovePddByIc", doc |-> 2, stage |-> "PddApprovedByCertifier"],
      [tx |-> "ApprovePddByDna", doc |-> 2, stage |-> "PddApprovedByDna"],
      [tx |-> "CreateValidation", doc |-> 3, stage |-> "ValidationReportSubmitted"],
      [tx |-> "ApproveValidation", doc |-> 3, stage |-> "Authorised"]>>

StartStages == {IF n = 0 THEN "None" ELSE Beginning[n].stage : n \in Starts}

StartLedger(n) ==
    [i \in 1 .. n |-> [tx |-> Beginning[i].tx, doc |-> Beginning[i].doc,
                       stage |-> Beginning[i].stage, activities |-> <<>>]]

Latest == ledger[Len(ledger)]
LedgerStage == IF ledger = <<>> THEN "None" ELSE Latest.stage
LedgerActivities == IF ledger = <<>> THEN <<>> ELSE Latest.activities

\* The project as the ledger has it, read as the abstract machine.
Stages == INSTANCE ProjectStages
            WITH ActivityIds <- 1 .. MaxUploads, StartStages <- StartStages, stage <- LedgerStage, progress <- LedgerActivities

\* getLastActivity: the highest version, 0 when there is none.
LastActivities ==
    IF acts = <<>> THEN {0}
    ELSE {a \in DOMAIN acts : \A b \in DOMAIN acts : acts[b].version <= acts[a].version}

Idle == [pc |-> "idle", type |-> "Inf", tx |-> "CreateProject", doc |-> 0,
         activity |-> 0, seen |-> "MonitoringUploaded", row |-> 0]

Document(type, a) == [type |-> type, status |-> "Pending", activity |-> a]

\* The status a document of the first n events has once they are applied.
StartStatus(n, k) ==
    LET decided == {i \in 1 .. n : Beginning[i].doc = k /\ IsDecision(Beginning[i].tx)}
    IN  IF decided = {} THEN "Pending"
        ELSE Brings[Beginning[CHOOSE i \in decided : \A j \in decided : j <= i].tx]

StartDocs(n) ==
    [k \in 1 .. Cardinality({Beginning[i].doc : i \in 1 .. n}) |->
       [Document(<<"Inf", "Pdd", "Validation">>[k], 0) EXCEPT !.status = StartStatus(n, k)]]

LInit ==
    \E n \in Starts :
        /\ ledger = StartLedger(n)
        /\ docs = StartDocs(n)
        /\ acts = <<>>
        /\ applied = n
        /\ request = [c \in Clients |-> Idle]
        /\ uploadsLeft = MaxUploads

Step(c, r) == request' = [request EXCEPT ![c] = r]

-----------------------------------------------------------------------------
(* Uploads *)

\* The notification of a project that does not exist yet; a failure between
\* its two writes leaves a document nothing refers to, which is left out.
CreateProject(c) ==
    /\ request[c].pc = "idle"
    /\ ledger = <<>>
    /\ docs' = Append(docs, Document("Inf", 0))
    /\ ledger' = Append(ledger, [tx |-> "CreateProject", doc |-> Len(docs'),
                                 stage |-> "Pending", activities |-> <<>>])
    /\ UNCHANGED <<acts, applied, request, uploadsLeft>>

\* The transaction an upload writes, for those that write one.
UploadTx == [Pdd |-> "CreatePdd", Validation |-> "CreateValidation"]

MayUploadMonitoring(a) ==
    /\ LedgerStage = "Authorised"
    /\ a # 0 => acts[a].state \in {"MonitoringRejected", "VerificationVerified"}

MayUploadVerification(a) ==
    /\ LedgerStage = "Authorised"
    /\ a # 0
    /\ acts[a].state \in {"MonitoringVerified", "VerificationRejected"}

MayUpload(type, a) ==
    \/ type \in DOMAIN UploadTx /\ a = 0 /\ LedgerStage \in Transition[UploadTx[type]].from
    \/ type = "Monitoring" /\ a \in LastActivities /\ MayUploadMonitoring(a)
    \/ type = "Verification" /\ a \in LastActivities /\ MayUploadVerification(a)

\* The checks of addDocument, on the ledger's stage and on the last activity.
BeginUpload(c, type, a) ==
    /\ request[c].pc = "idle"
    /\ MayUpload(type, a)
    /\ uploadsLeft > 0
    /\ Step(c, [Idle EXCEPT !.pc = "upload", !.type = type, !.activity = a,
                            !.seen = IF a = 0 THEN @ ELSE acts[a].state])
    /\ UNCHANGED <<ledger, docs, acts, applied, uploadsLeft>>

\* A PDD or validation report is saved first and the stage moved afterwards.
SaveProposal(c) ==
    /\ request[c].pc = "upload"
    /\ request[c].type \in DOMAIN UploadTx
    /\ uploadsLeft > 0
    /\ uploadsLeft' = uploadsLeft - 1
    /\ docs' = Append(docs, Document(request[c].type, 0))
    /\ Step(c, [request[c] EXCEPT !.pc = "call", !.tx = UploadTx[request[c].type],
                                  !.doc = Len(docs')])
    /\ UNCHANGED <<ledger, acts, applied>>

\* A monitoring report opens an activity, or goes back to a rejected one.
SaveMonitoring(c) ==
    LET a == request[c].activity
        opens == a = 0 \/ request[c].seen = "VerificationVerified"
    IN  /\ request[c].pc = "upload"
        /\ request[c].type = "Monitoring"
        /\ uploadsLeft > 0
        /\ uploadsLeft' = uploadsLeft - 1
        /\ acts' = IF opens
                   THEN Append(acts, [version |-> IF a = 0 THEN 1 ELSE acts[a].version + 1,
                                      state |-> "MonitoringUploaded"])
                   ELSE [acts EXCEPT ![a].state = "MonitoringUploaded"]
        /\ docs' = Append(docs, Document("Monitoring", IF opens THEN Len(acts') ELSE a))
        /\ Step(c, Idle)
        /\ UNCHANGED <<ledger, applied>>

SaveVerification(c) ==
    /\ request[c].pc = "upload"
    /\ request[c].type = "Verification"
    /\ uploadsLeft > 0
    /\ uploadsLeft' = uploadsLeft - 1
    /\ acts' = [acts EXCEPT ![request[c].activity].state = "VerificationUploaded"]
    /\ docs' = Append(docs, Document("Verification", request[c].activity))
    /\ Step(c, Idle)
    /\ UNCHANGED <<ledger, applied>>

-----------------------------------------------------------------------------
(* Decisions *)

SeenState(a) == IF a = 0 THEN "MonitoringUploaded" ELSE acts[a].state

\* Mutant of BeginDecision: any document of the right type may be decided.
BeginDecisionUnchecked(c, n, d) ==
    /\ request[c].pc = "idle"
    /\ docs[n].type = d.type
    /\ Step(c, [Idle EXCEPT !.pc = "call", !.type = d.type, !.tx = d.tx, !.doc = n,
                            !.activity = docs[n].activity,
                            !.seen = SeenState(docs[n].activity)])
    /\ UNCHANGED <<ledger, docs, acts, applied, uploadsLeft>>

\* verify: the document has the status the decision asks for.  The state of its
\* activity is read here too, for the issuance that uses it later.
BeginDecision(c, n, d) ==
    /\ request[c].pc = "idle"
    /\ docs[n].type = d.type
    /\ docs[n].status = d.needs
    /\ Step(c, [Idle EXCEPT !.pc = "call", !.type = d.type, !.tx = d.tx, !.doc = n,
                            !.activity = docs[n].activity,
                            !.seen = SeenState(docs[n].activity)])
    /\ UNCHANGED <<ledger, docs, acts, applied, uploadsLeft>>

RejectedState == [Monitoring |-> "MonitoringRejected", Verification |-> "VerificationRejected"]
\* Mutant of RejectedStatus: the status of the documents before Article 6.
RejectedStatusOfOld == [Monitoring |-> "Rejected", Verification |-> "Rejected"]

RejectedStatus == [Monitoring |-> "IcRejected", Verification |-> "DnaRejected"]

\* A report on an activity is rejected without the ledger: the check, ...
BeginRejectReport(c, n) ==
    /\ request[c].pc = "idle"
    /\ docs[n].type \in DOMAIN RejectedState
    /\ docs[n].status = "Pending"
    /\ Step(c, [Idle EXCEPT !.pc = "reject", !.type = docs[n].type, !.doc = n,
                            !.activity = docs[n].activity])
    /\ UNCHANGED <<ledger, docs, acts, applied, uploadsLeft>>

\* ... then the transaction that writes activity and document.
RejectReport(c) ==
    LET r == request[c] IN
    /\ r.pc = "reject"
    /\ acts' = [acts EXCEPT ![r.activity].state = RejectedState[r.type]]
    /\ docs' = [docs EXCEPT ![r.doc].status = RejectedStatus[r.type]]
    /\ Step(c, Idle)
    /\ UNCHANGED <<ledger, applied, uploadsLeft>>

-----------------------------------------------------------------------------
(* The ledger call *)

\* Mutant of Allowed: issueCredits trusts the state of the activity it was given.
AllowedBySeenState(r) ==
    CASE r.tx \in StageTx -> Latest.stage \in Transition[r.tx].from
      [] r.tx = "ApproveMonitoring" ->
           Latest.stage = "Authorised" /\ r.activity \notin DOMAIN Latest.activities
      [] r.tx = "Issue" ->
           /\ r.seen = "VerificationUploaded"
           /\ r.activity \in DOMAIN Latest.activities

\* What the callbacks of updateProjectProposalStage and issueCredits let pass.
Allowed(r) ==
    CASE r.tx \in StageTx -> Latest.stage \in Transition[r.tx].from
      [] r.tx = "ApproveMonitoring" ->
           Latest.stage = "Authorised" /\ r.activity \notin DOMAIN Latest.activities
      [] r.tx = "Issue" ->
           /\ r.seen = "VerificationUploaded"
           /\ r.activity \in DOMAIN Latest.activities
           /\ Latest.activities[r.activity] = "Verified"

\* The row is read and the new one prepared from it; its txTime is remembered.
ReadRow(c) ==
    /\ request[c].pc = "call"
    /\ Allowed(request[c])
    /\ Step(c, [request[c] EXCEPT !.pc = "insert", !.row = Len(ledger)])
    /\ UNCHANGED <<ledger, docs, acts, applied, uploadsLeft>>

\* The callback throws, the database fails, or the request's process stops: what
\* was saved before stays.
FailCall(c) ==
    /\ request[c].pc \in {"call", "insert"}
    /\ Step(c, Idle)
    /\ UNCHANGED <<ledger, docs, acts, applied, uploadsLeft>>

PreparedRow(r) ==
    LET row == ledger[r.row] IN
    [tx |-> r.tx, doc |-> r.doc,
     stage |-> IF r.tx \in StageTx THEN Transition[r.tx].to ELSE row.stage,
     activities |->
       CASE r.tx = "ApproveMonitoring" ->
              [a \in DOMAIN row.activities \cup {r.activity} |->
                 IF a = r.activity THEN "Verified" ELSE row.activities[a]]
         [] r.tx = "Issue" -> [row.activities EXCEPT ![r.activity] = "Issued"]
         [] OTHER -> row.activities]

\* Mutant of StillThere: the update is not tied to the txTime it read.
StillThereAlways(r) == r.row <= Len(ledger)

\* A row with the txTime that was read is still the latest.
StillThere(r) == r.row = Len(ledger)

\* Inserts the row, or nothing when another one has come in between; the
\* caller is told it succeeded either way.
Insert(c) ==
    /\ request[c].pc = "insert"
    /\ ledger' = IF StillThere(request[c])
                 THEN Append(ledger, PreparedRow(request[c]))
                 ELSE ledger
    /\ Step(c, Idle)
    /\ UNCHANGED <<docs, acts, applied, uploadsLeft>>

-----------------------------------------------------------------------------
(* The replicator *)

\* Mutant of DecidedDoc: the newest document of the type, not the one named.
DecidedNewest(e) ==
    CHOOSE n \in DOMAIN docs :
        /\ docs[n].type = docs[e.doc].type
        /\ \A k \in DOMAIN docs : docs[k].type = docs[e.doc].type => k <= n

\* The document an event decides on.
DecidedDoc(e) == e.doc

\* modifyDocumentEntity, in the transaction that writes the project's row.
Apply ==
    /\ applied < Len(ledger)
    /\ LET e == ledger[applied + 1] IN
         /\ applied' = applied + 1
         /\ docs' = IF IsDecision(e.tx)
                    THEN [docs EXCEPT ![DecidedDoc(e)].status = Brings[e.tx]]
                    ELSE docs
         /\ acts' = CASE e.tx = "ApproveMonitoring" ->
                           [acts EXCEPT ![docs[e.doc].activity].state = "MonitoringVerified"]
                      [] e.tx = "Issue" ->
                           [acts EXCEPT ![docs[e.doc].activity].state = "VerificationVerified"]
                      [] OTHER -> acts
    /\ UNCHANGED <<ledger, request, uploadsLeft>>

-----------------------------------------------------------------------------
Begin(c) ==
    \/ CreateProject(c)
    \/ \E type \in DocTypes, a \in 0 .. Len(acts) : BeginUpload(c, type, a)
    \/ \E n \in DOMAIN docs : BeginRejectReport(c, n) \/ \E d \in Decisions : BeginDecision(c, n, d)

Proceed(c) ==
    \/ SaveProposal(c)
    \/ SaveMonitoring(c)
    \/ SaveVerification(c)
    \/ RejectReport(c)
    \/ ReadRow(c)
    \/ Insert(c)

LNext == Apply \/ \E c \in Clients : Begin(c) \/ Proceed(c) \/ FailCall(c)

\* The replicator polls for as long as the system runs.
LSpec == LInit /\ [][LNext]_lvars /\ WF_lvars(Apply)

-----------------------------------------------------------------------------
LTypeOK ==
    /\ \A i \in DOMAIN ledger :
         /\ ledger[i].tx \in TxTypes
         /\ ledger[i].doc \in DOMAIN docs
         /\ ledger[i].stage \in Stages!Stage
         /\ DOMAIN ledger[i].activities \subseteq DOMAIN acts
    /\ docs \in Seq([type : DocTypes, status : DocStatus, activity : Nat])
    /\ acts \in Seq([version : Nat \ {0}, state : ActivityState])
    /\ applied \in 0 .. Len(ledger)

\* The stages of the ledger and its activities follow the review procedure,
\* whichever requests race: updateProjectProposalStage and issueCredits refuse
\* or drop what does not fit the row that is there.
StagesFollowProcedure == Stages!PSpec

\* An approval of the authority is about a document that the certifier approved,
\* in the ledger, before: performPDDAction asks for the status IC_APPROVED.
CertifiedBeforeApproved ==
    \A i \in DOMAIN ledger : ledger[i].tx \in {"ApprovePddByDna", "RejectPddByDna"} =>
        \E j \in 1 .. i - 1 : ledger[j].tx = "ApprovePddByIc" /\ ledger[j].doc = ledger[i].doc

\* Credits are issued for an activity once, and after its monitoring report was
\* approved, even when documents and activities lag behind the ledger
\* (issueCredits looks at the activity in the project's row).
OneIssuancePerActivity ==
    \A i \in DOMAIN ledger : ledger[i].tx = "Issue" =>
        LET a == docs[ledger[i].doc].activity IN
        /\ \E j \in 1 .. i - 1 : ledger[j].tx = "ApproveMonitoring"
                                 /\ docs[ledger[j].doc].activity = a
        /\ \A j \in 1 .. i - 1 : ledger[j].tx = "Issue" => docs[ledger[j].doc].activity # a

\* Once the replicator has caught up, a notification, design document or
\* validation report shows the last decision about it in the ledger: it is the
\* document the event names (txRef), not the newest of its type.
ProposalsMatchLedger ==
    applied = Len(ledger) =>
        \A n \in DOMAIN docs :
            LET decided == {i \in DOMAIN ledger : ledger[i].doc = n /\ IsDecision(ledger[i].tx)}
            IN  /\ docs[n].type \in {"Inf", "Pdd", "Validation"} => (decided = {}) = (docs[n].status = "Pending")
                /\ docs[n].type \in {"Inf", "Pdd", "Validation"} /\ decided # {} =>
                     \E i \in decided : /\ \A j \in decided : j <= i
                                        /\ docs[n].status = Brings[ledger[i].tx]
=============================================================================
