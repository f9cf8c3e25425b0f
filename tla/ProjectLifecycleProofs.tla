------------------------ MODULE ProjectLifecycleProofs ------------------------
(***************************************************************************)
(* ProjectLifecycle implements ProjectStages, and its approvals and        *)
(* issuances have behind them what they should, for every number of        *)
(* clients, every bound on uploads and every start.                        *)
(*                                                                         *)
(* The ledger is behind the requests in progress: each has read a document *)
(* or a row that may since have changed.  Fits says what is still true of  *)
(* what it read, because documents keep their type and activity, and the   *)
(* ledger only grows.  The replicator is behind the ledger: Certified says *)
(* what a status it has set is about, ProposalsShow which decision every   *)
(* proposal shows: the last of those the replicator has brought.           *)
(***************************************************************************)
EXTENDS ProjectLifecycle, FiniteSetTheorems, TLAPS

Progress == UNION {[D -> {"Verified", "Issued"}] : D \in SUBSET Nat}
Event == [tx : TxTypes, doc : Nat, stage : Stages!Stage, activities : Progress]
Doc == [type : DocTypes, status : DocStatus, activity : Nat]
Activity == [version : Nat \ {0}, state : ActivityState]
Request == [pc : {"idle", "upload", "call", "insert", "reject"}, type : DocTypes, tx : TxTypes,
            doc : Nat, activity : Nat, seen : ActivityState, row : Nat]

Typed ==
    /\ ledger \in Seq(Event)
    /\ docs \in Seq(Doc)
    /\ acts \in Seq(Activity)
    /\ applied \in 0 .. Len(ledger)
    /\ request \in [Clients -> Request]
    /\ uploadsLeft \in Nat
    /\ Len(acts) + uploadsLeft <= MaxUploads

\* The report types, which are about an activity.
IsReport(type) == type \in {"Monitoring", "Verification"}

\* The type of report each of the two transactions without a stage is about.
ReportOf == [ApproveMonitoring |-> "Monitoring", Issue |-> "Verification"]

Refers ==
    /\ \A i \in DOMAIN ledger :
         /\ ledger[i].doc \in DOMAIN docs
         /\ ledger[i].tx \in DOMAIN ReportOf => docs[ledger[i].doc].type = ReportOf[ledger[i].tx]
         /\ DOMAIN ledger[i].activities \subseteq DOMAIN acts
    /\ \A n \in DOMAIN docs :
         /\ docs[n].activity = 0 \/ docs[n].activity \in DOMAIN acts
         /\ IsReport(docs[n].type) => docs[n].activity # 0
    /\ docs # <<>> => ledger # <<>>

Certified(n) == \E j \in DOMAIN ledger : ledger[j].tx = "ApprovePddByIc" /\ ledger[j].doc = n

CertifiedDocs ==
    \A n \in DOMAIN docs : docs[n].type = "Pdd" /\ docs[n].status = "IcApproved" => Certified(n)

\* What a callback let pass, of the row it was given.
AllowedBy(r, row) ==
    CASE r.tx \in StageTx -> row.stage \in Transition[r.tx].from
      [] r.tx = "ApproveMonitoring" ->
           row.stage = "Authorised" /\ r.activity \notin DOMAIN row.activities
      [] r.tx = "Issue" ->
           /\ r.seen = "VerificationUploaded"
           /\ r.activity \in DOMAIN row.activities
           /\ row.activities[r.activity] = "Verified"

Fits(r) ==
    /\ r.pc \in {"upload", "call", "insert"} => ledger # <<>>
    /\ r.pc = "upload" =>
         /\ r.activity = 0 \/ r.activity \in DOMAIN acts
         /\ r.type = "Verification" => r.activity # 0
    /\ r.pc \in {"call", "insert"} =>
         /\ r.tx # "CreateProject"
         /\ r.doc \in DOMAIN docs
         /\ r.tx \in DOMAIN ReportOf => /\ docs[r.doc].type = ReportOf[r.tx]
                                        /\ r.activity = docs[r.doc].activity
         /\ r.tx \in {"ApprovePddByDna", "RejectPddByDna"} => Certified(r.doc)
    /\ r.pc = "insert" => r.row \in DOMAIN ledger /\ AllowedBy(r, ledger[r.row])
    /\ r.pc = "reject" =>
         /\ r.doc \in DOMAIN docs
         /\ IsReport(r.type)
         /\ docs[r.doc].type = r.type
         /\ docs[r.doc].activity = r.activity

\* What the project's row says of activities is what the events before it say.
Accounted ==
    /\ \A a \in DOMAIN LedgerActivities :
         \E j \in DOMAIN ledger : ledger[j].tx = "ApproveMonitoring" /\ docs[ledger[j].doc].activity = a
    /\ \A j \in DOMAIN ledger : ledger[j].tx = "Issue" =>
         /\ docs[ledger[j].doc].activity \in DOMAIN LedgerActivities
         /\ LedgerActivities[docs[ledger[j].doc].activity] = "Issued"

\* Activities are only taken up once the project is authorised, which it stays.
Authorised == \A i \in DOMAIN ledger : ledger[i].activities # <<>> => ledger[i].stage = "Authorised"

IInv ==
    /\ Typed
    /\ Refers
    /\ \A c \in Clients : Fits(request[c])
    /\ CertifiedDocs
    /\ CertifiedBeforeApproved
    /\ Accounted
    /\ Authorised
    /\ OneIssuancePerActivity

-----------------------------------------------------------------------------
(* The review procedure *)

LEMMA StageTransactions ==
    /\ StageTx = {"ApproveInf", "RejectInf", "CreatePdd", "ApprovePddByIc", "RejectPddByIc",
                  "ApprovePddByDna", "RejectPddByDna", "CreateValidation",
                  "ApproveValidation", "RejectValidation"}
    /\ TxTypes = StageTx \cup {"CreateProject", "ApproveMonitoring", "Issue"}
    /\ {"CreateProject", "ApproveMonitoring", "Issue"} \cap StageTx = {}
  BY DEF StageTx, TxTypes, Transition

\* Every transition of the ledger is one of the procedure.
LEMMA TransitionsFollow ==
    ASSUME NEW tx \in StageTx
    PROVE  /\ Transition[tx].to \in Stages!Stage \ {"None"}
           /\ "None" \notin Transition[tx].from
           /\ "Authorised" \notin Transition[tx].from
           /\ Transition[tx].to \in DOMAIN Stages!EnteredFrom
           /\ \A s \in Transition[tx].from : s \in Stages!EnteredFrom[Transition[tx].to]
  <1>1. tx \in {"ApproveInf", "RejectInf", "CreatePdd", "ApprovePddByIc", "RejectPddByIc"} =>
           /\ Transition[tx].to \in Stages!Stage \ {"None"}
           /\ "None" \notin Transition[tx].from
           /\ "Authorised" \notin Transition[tx].from
           /\ Transition[tx].to \in DOMAIN Stages!EnteredFrom
           /\ \A s \in Transition[tx].from : s \in Stages!EnteredFrom[Transition[tx].to]
    BY DEF Transition, Stages!Stage, Stages!EnteredFrom
  <1>2. tx \in {"ApprovePddByDna", "RejectPddByDna", "CreateValidation",
                "ApproveValidation", "RejectValidation"} =>
           /\ Transition[tx].to \in Stages!Stage \ {"None"}
           /\ "None" \notin Transition[tx].from
           /\ "Authorised" \notin Transition[tx].from
           /\ Transition[tx].to \in DOMAIN Stages!EnteredFrom
           /\ \A s \in Transition[tx].from : s \in Stages!EnteredFrom[Transition[tx].to]
    BY DEF Transition, Stages!Stage, Stages!EnteredFrom
  <1> QED BY <1>1, <1>2, StageTransactions

-----------------------------------------------------------------------------
(* What every step leaves *)

LEMMA AppendKeeps ==
    ASSUME NEW S, NEW s \in Seq(S), NEW e, NEW t, t = Append(s, e)
    PROVE  /\ DOMAIN t = DOMAIN s \cup {Len(t)}
           /\ Len(t) = Len(s) + 1 /\ Len(t) \notin DOMAIN s
           /\ \A i \in DOMAIN s : t[i] = s[i]
           /\ t[Len(t)] = e
           /\ e \in S => t \in Seq(S)
           /\ t # <<>>
  OBVIOUS

\* What the two EXCEPTs come to: one document's status is set, one activity's state.
SetsStatus(n, v) ==
    /\ docs' = [k \in DOMAIN docs |-> docs'[k]]
    /\ \A k \in DOMAIN docs : docs'[k] = IF k = n THEN [docs[k] EXCEPT !.status = v] ELSE docs[k]

SetsState(a, v) ==
    /\ acts' = [k \in DOMAIN acts |-> acts'[k]]
    /\ \A k \in DOMAIN acts : acts'[k] = IF k = a THEN [acts[k] EXCEPT !.state = v] ELSE acts[k]

LEMMA StatusSet ==
    ASSUME docs \in Seq(Doc), NEW n, NEW v \in DocStatus, SetsStatus(n, v)
    PROVE  /\ docs' \in Seq(Doc)
           /\ DOMAIN docs' = DOMAIN docs
           /\ \A k \in DOMAIN docs :
                /\ docs'[k].type = docs[k].type
                /\ docs'[k].activity = docs[k].activity
                /\ docs'[k].status = IF k = n THEN v ELSE docs[k].status
  <1>1. DOMAIN docs' = DOMAIN docs /\ \A k \in DOMAIN docs : docs[k] \in Doc
    BY DEF SetsStatus
  <1>2. \A k \in DOMAIN docs :
          /\ docs'[k] \in Doc
          /\ docs'[k].type = docs[k].type /\ docs'[k].activity = docs[k].activity
          /\ docs'[k].status = IF k = n THEN v ELSE docs[k].status
    BY <1>1 DEF Doc, SetsStatus
  <1>3. Len(docs) \in Nat /\ DOMAIN docs = 1 .. Len(docs)
    OBVIOUS
  <1>4. docs' \in Seq(Doc)
    <2>1. docs' \in [1 .. Len(docs) -> Doc]
      BY <1>1, <1>2, <1>3 DEF SetsStatus
    <2> QED BY <1>3, <2>1
  <1> QED BY <1>1, <1>2, <1>4

LEMMA StateSet ==
    ASSUME acts \in Seq(Activity), NEW a, NEW v \in ActivityState, SetsState(a, v)
    PROVE  acts' \in Seq(Activity) /\ DOMAIN acts' = DOMAIN acts /\ Len(acts') = Len(acts)
  <1>1. DOMAIN acts' = DOMAIN acts /\ \A k \in DOMAIN acts : acts[k] \in Activity
    BY DEF SetsState
  <1>2. \A k \in DOMAIN acts : acts'[k] \in Activity
    BY <1>1 DEF Activity, SetsState
  <1>3. Len(acts) \in Nat /\ DOMAIN acts = 1 .. Len(acts)
    OBVIOUS
  <1>4. acts' \in Seq(Activity) /\ Len(acts') = Len(acts)
    <2>1. acts' \in [1 .. Len(acts) -> Activity]
      BY <1>1, <1>2, <1>3 DEF SetsState
    <2> QED BY <1>3, <2>1
  <1> QED BY <1>1, <1>4

\* The ledger, the documents and the activities are only added to, and a
\* document keeps its type and its activity.
Grown ==
    /\ ledger # <<>> => ledger' # <<>>
    /\ DOMAIN ledger \subseteq DOMAIN ledger'
    /\ \A i \in DOMAIN ledger : ledger'[i] = ledger[i]
    /\ DOMAIN docs \subseteq DOMAIN docs'
    /\ \A n \in DOMAIN docs : docs'[n].type = docs[n].type /\ docs'[n].activity = docs[n].activity
    /\ DOMAIN acts \subseteq DOMAIN acts'

LEMMA CertifiedKept ==
    ASSUME Grown, NEW n, Certified(n)
    PROVE  Certified(n)'
  BY DEF Grown, Certified

LEMMA FitsKept ==
    ASSUME Grown, NEW r, Fits(r)
    PROVE  Fits(r)'
  <1>1. r.pc = "insert" => r.row \in DOMAIN ledger' /\ ledger'[r.row] = ledger[r.row]
    BY DEF Grown, Fits
  <1>2. r.pc = "insert" => r.row \in DOMAIN ledger' /\ AllowedBy(r, ledger'[r.row])
    BY <1>1 DEF Fits
  <1>3. r.pc \in {"call", "insert"} /\ r.tx \in {"ApprovePddByDna", "RejectPddByDna"} => Certified(r.doc)'
    BY CertifiedKept DEF Fits
  <1> QED BY <1>2, <1>3 DEF Grown, Fits

\* A step that writes documents or activities and leaves the ledger alone.
LEMMA StepBesideLedger ==
    ASSUME IInv, Grown, ledger' = ledger, Typed',
           \A d \in Clients : request'[d] = request[d] \/ Fits(request[d])',
           \A n \in DOMAIN docs' :
             /\ docs'[n].activity = 0 \/ docs'[n].activity \in DOMAIN acts'
             /\ IsReport(docs'[n].type) => docs'[n].activity # 0,
           docs' # <<>> => ledger # <<>>,
           CertifiedDocs'
    PROVE  IInv'
  <1>1. Refers'
    BY DEF IInv, Refers, Grown
  <1>2. ASSUME NEW d \in Clients PROVE Fits(request[d])'
    <2>1. CASE request'[d] = request[d]
      <3>1. PICK r : r = request[d]
        OBVIOUS
      <3>2. Fits(r)'
        BY <3>1, FitsKept DEF IInv
      <3> QED BY <2>1, <3>1, <3>2
    <2> QED BY <2>1
  <1>3. CertifiedBeforeApproved' /\ Authorised'
    BY DEF IInv, CertifiedBeforeApproved, Authorised
  <1>4. \A i \in DOMAIN ledger : docs'[ledger[i].doc].activity = docs[ledger[i].doc].activity
    BY DEF IInv, Refers, Grown
  <1>5. Accounted' /\ OneIssuancePerActivity'
    <2>1. LedgerActivities' = LedgerActivities
      BY DEF LedgerActivities, Latest
    <2>2. Accounted'
      BY <1>4, <2>1 DEF IInv, Accounted
    <2>3. OneIssuancePerActivity'
      <3>1. \A i \in DOMAIN ledger : 1 .. i - 1 \subseteq DOMAIN ledger
        BY DEF IInv, Typed
      <3> QED BY <1>4, <3>1 DEF IInv, OneIssuancePerActivity
    <2> QED BY <2>2, <2>3
  <1> QED BY <1>1, <1>2, <1>3, <1>5 DEF IInv

\* A step that only changes what one client is in the middle of.
LEMMA StepRequest ==
    ASSUME IInv, NEW c \in Clients, NEW r \in Request, Step(c, r), Fits(r),
           UNCHANGED <<ledger, docs, acts, applied, uploadsLeft>>
    PROVE  IInv'
  <1>1. Grown
    BY DEF Grown
  <1>2. request' = [request EXCEPT ![c] = r] /\ request \in [Clients -> Request]
    BY DEF Step, IInv, Typed
  <1>3. Typed'
    BY <1>2 DEF IInv, Typed
  <1>4. Fits(r)'
    BY <1>1, FitsKept
  <1>5. \A d \in Clients : request'[d] = request[d] \/ Fits(request[d])'
    BY <1>2, <1>4
  <1>6. CertifiedDocs'
    BY DEF IInv, CertifiedDocs, Certified
  <1> QED BY <1>1, <1>3, <1>5, <1>6, StepBesideLedger DEF IInv, Refers

LEMMA IdleFits == Idle \in Request /\ Fits(Idle)
  <1>1. Idle \in Request
    BY StageTransactions DEF Idle, Request, DocTypes, ActivityState
  <1>2. Fits(Idle)
    BY DEF Idle, Fits
  <1> QED BY <1>1, <1>2

-----------------------------------------------------------------------------
(* Requests that begin, read or end *)

LEMMA ElementsTyped ==
    ASSUME Typed
    PROVE  /\ \A a \in DOMAIN acts : acts[a] \in Activity /\ acts[a].state \in ActivityState
                                     /\ acts[a].version \in Nat \ {0}
           /\ \A n \in DOMAIN docs : docs[n] \in Doc
           /\ \A i \in DOMAIN ledger : ledger[i] \in Event
           /\ DOMAIN acts = 1 .. Len(acts) /\ Len(acts) \in Nat
           /\ DOMAIN ledger = 1 .. Len(ledger) /\ Len(ledger) \in Nat
  <1>1. acts \in Seq(Activity) /\ docs \in Seq(Doc) /\ ledger \in Seq(Event)
    BY DEF Typed
  <1>2. \A a \in DOMAIN acts : acts[a] \in Activity
    BY <1>1
  <1>3. \A a \in DOMAIN acts : acts[a].state \in ActivityState /\ acts[a].version \in Nat \ {0}
    BY <1>2 DEF Activity
  <1> QED BY <1>1, <1>2, <1>3

LEMMA StepBeginUpload ==
    ASSUME IInv, NEW c \in Clients, NEW type \in DocTypes, NEW a \in 0 .. Len(acts), BeginUpload(c, type, a)
    PROVE  IInv'
  <1>1. PICK r : /\ Step(c, r)
                 /\ r = [Idle EXCEPT !.pc = "upload", !.type = type, !.activity = a,
                                     !.seen = IF a = 0 THEN @ ELSE acts[a].state]
    BY DEF BeginUpload
  <1>2. acts \in Seq(Activity) /\ a \in Nat /\ (a # 0 => a \in DOMAIN acts /\ acts[a].state \in ActivityState)
    BY ElementsTyped DEF IInv, Typed
  <1>3. r \in Request
    BY <1>1, <1>2, IdleFits DEF Request, Idle
  <1>4. r.pc = "upload" /\ r.type = type /\ r.activity = a
    BY <1>1 DEF Idle
  <1>5. LedgerStage # "None" /\ (type = "Verification" => a # 0)
    <2>1. UploadTx.Pdd \in StageTx /\ UploadTx.Validation \in StageTx
      BY StageTransactions DEF UploadTx
    <2>2. DOMAIN UploadTx = {"Pdd", "Validation"}
      BY DEF UploadTx
    <2> QED BY <2>1, <2>2, TransitionsFollow DEF BeginUpload, MayUpload, MayUploadMonitoring, MayUploadVerification
  <1>6. Fits(r)
    BY <1>2, <1>4, <1>5 DEF Fits, LedgerStage
  <1> QED BY <1>1, <1>3, <1>6, StepRequest DEF BeginUpload

LEMMA StepBeginDecision ==
    ASSUME IInv, NEW c \in Clients, NEW n \in DOMAIN docs, NEW d \in Decisions, BeginDecision(c, n, d)
    PROVE  IInv'
  <1>1. PICK r : /\ Step(c, r)
                 /\ r = [Idle EXCEPT !.pc = "call", !.type = d.type, !.tx = d.tx, !.doc = n,
                                     !.activity = docs[n].activity,
                                     !.seen = SeenState(docs[n].activity)]
    BY DEF BeginDecision
  <1>2. docs[n] \in Doc /\ n \in Nat /\ docs # <<>>
    BY DEF IInv, Typed
  <1>3. SeenState(docs[n].activity) \in ActivityState
    <2>1. docs[n].activity = 0 \/ docs[n].activity \in DOMAIN acts
      BY DEF IInv, Refers
    <2>2. \A a \in DOMAIN acts : acts[a].state \in ActivityState
      BY ElementsTyped DEF IInv
    <2> QED BY <2>1, <2>2 DEF SeenState, ActivityState
  <1>4. /\ d.type \in DocTypes /\ d.tx \in TxTypes \ {"CreateProject"}
        /\ d.tx \in DOMAIN ReportOf => d.type = ReportOf[d.tx]
        /\ d.tx \in {"ApprovePddByDna", "RejectPddByDna"} => d.type = "Pdd" /\ d.needs = "IcApproved"
    BY StageTransactions DEF Decisions, DecideInf, DecidePdd, DecideValidation, ApproveReport,
                             DocTypes, ReportOf
  <1>5. r \in Request
    BY <1>1, <1>2, <1>3, <1>4, IdleFits DEF Request, Idle, Doc
  <1>6. /\ r.pc = "call" /\ r.tx = d.tx /\ r.doc = n /\ r.activity = docs[n].activity
    BY <1>1 DEF Idle
  <1>7. docs[n].type = d.type /\ docs[n].status = d.needs
    BY DEF BeginDecision
  <1>8. d.tx \in {"ApprovePddByDna", "RejectPddByDna"} => Certified(n)
    BY <1>4, <1>7 DEF IInv, CertifiedDocs
  <1>9. Fits(r)
    BY <1>2, <1>4, <1>6, <1>7, <1>8 DEF Fits, IInv, Refers
  <1> QED BY <1>1, <1>5, <1>9, StepRequest DEF BeginDecision

LEMMA StepBeginReject ==
    ASSUME IInv, NEW c \in Clients, NEW n \in DOMAIN docs, BeginRejectReport(c, n)
    PROVE  IInv'
  <1>1. PICK r : /\ Step(c, r)
                 /\ r = [Idle EXCEPT !.pc = "reject", !.type = docs[n].type, !.doc = n,
                                     !.activity = docs[n].activity]
    BY DEF BeginRejectReport
  <1>2. docs[n] \in Doc /\ n \in Nat
    BY DEF IInv, Typed
  <1>3. r \in Request
    BY <1>1, <1>2, IdleFits DEF Request, Idle, Doc
  <1>4. r.pc = "reject" /\ r.doc = n /\ r.type = docs[n].type /\ r.activity = docs[n].activity
    BY <1>1 DEF Idle
  <1>5. IsReport(docs[n].type)
    BY DEF BeginRejectReport, RejectedState, IsReport
  <1>6. Fits(r)
    BY <1>4, <1>5 DEF Fits
  <1> QED BY <1>1, <1>3, <1>6, StepRequest DEF BeginRejectReport

LEMMA StepReadRow ==
    ASSUME IInv, NEW c \in Clients, ReadRow(c)
    PROVE  IInv'
  <1>1. PICK q, r : /\ q = request[c] /\ Step(c, r)
                    /\ r = [q EXCEPT !.pc = "insert", !.row = Len(ledger)]
    BY DEF ReadRow
  <1>2. q \in Request /\ Fits(q) /\ q.pc = "call" /\ Allowed(q)
    BY <1>1 DEF ReadRow, IInv, Typed
  <1>3. ledger \in Seq(Event) /\ ledger # <<>>
    BY <1>2 DEF Fits, IInv, Typed
  <1>4. Len(ledger) \in Nat /\ Len(ledger) \in DOMAIN ledger
    BY <1>3
  <1>5. r \in Request
    BY <1>1, <1>2, <1>4 DEF Request
  <1>6. /\ r.pc = "insert" /\ r.row = Len(ledger) /\ r.type = q.type /\ r.tx = q.tx
        /\ r.doc = q.doc /\ r.activity = q.activity /\ r.seen = q.seen
    BY <1>1, <1>2 DEF Request
  <1>7. AllowedBy(r, ledger[r.row])
    BY <1>2, <1>6 DEF Allowed, AllowedBy, Latest
  <1>8. Fits(r)
    BY <1>2, <1>3, <1>4, <1>6, <1>7 DEF Fits
  <1> QED BY <1>1, <1>5, <1>8, StepRequest DEF ReadRow

LEMMA StepFailCall ==
    ASSUME IInv, NEW c \in Clients, FailCall(c)
    PROVE  IInv'
  BY IdleFits, StepRequest DEF FailCall

-----------------------------------------------------------------------------
(* Documents that are saved or rejected *)

LEMMA StepSave ==
    ASSUME IInv, NEW c \in Clients, NEW d \in Doc, d.status = "Pending", docs' = Append(docs, d),
           acts' \in Seq(Activity), DOMAIN acts \subseteq DOMAIN acts', Len(acts') <= Len(acts) + 1,
           d.activity = 0 \/ d.activity \in DOMAIN acts', IsReport(d.type) => d.activity # 0,
           ledger # <<>>, uploadsLeft > 0, uploadsLeft' = uploadsLeft - 1,
           UNCHANGED <<ledger, applied>>,
           NEW r \in Request, Step(c, r), Fits(r)'
    PROVE  IInv'
  <1>1. /\ DOMAIN docs' = DOMAIN docs \cup {Len(docs')}
        /\ \A n \in DOMAIN docs : docs'[n] = docs[n]
        /\ docs'[Len(docs')] = d /\ docs' \in Seq(Doc)
    BY AppendKeeps DEF IInv, Typed
  <1>2. Grown
    BY <1>1 DEF Grown
  <1>3. request' = [request EXCEPT ![c] = r] /\ request \in [Clients -> Request]
    BY DEF Step, IInv, Typed
  <1>4. uploadsLeft' \in Nat /\ Len(acts') + uploadsLeft' <= MaxUploads
    <2>1. /\ uploadsLeft \in Nat /\ Len(acts) \in Nat /\ MaxUploads \in Nat
          /\ Len(acts) + uploadsLeft <= MaxUploads
      BY ElementsTyped, LifecycleAssumption DEF IInv, Typed
    <2>2. Len(acts') \in Nat
      OBVIOUS
    <2> QED BY <2>1, <2>2
  <1>5. Typed'
    BY <1>1, <1>3, <1>4 DEF IInv, Typed
  <1>6. \A e \in Clients : request'[e] = request[e] \/ Fits(request[e])'
    BY <1>3
  <1>7. ASSUME NEW n \in DOMAIN docs'
        PROVE  /\ docs'[n].activity = 0 \/ docs'[n].activity \in DOMAIN acts'
               /\ IsReport(docs'[n].type) => docs'[n].activity # 0
    BY <1>1 DEF IInv, Refers
  <1>8. CertifiedDocs'
    BY <1>1 DEF IInv, CertifiedDocs, Certified
  <1> QED BY <1>2, <1>5, <1>6, <1>7, <1>8, StepBesideLedger

LEMMA StepSaveProposal ==
    ASSUME IInv, NEW c \in Clients, SaveProposal(c)
    PROVE  IInv'
  <1>1. PICK q, d, r : /\ q = request[c] /\ d = Document(q.type, 0)
                       /\ docs' = Append(docs, d) /\ Step(c, r)
                       /\ r = [q EXCEPT !.pc = "call", !.tx = UploadTx[q.type], !.doc = Len(docs')]
    BY DEF SaveProposal
  <1>2. /\ q \in Request /\ Fits(q) /\ q.pc = "upload" /\ q.type \in {"Pdd", "Validation"}
        /\ uploadsLeft > 0 /\ uploadsLeft' = uploadsLeft - 1
        /\ UNCHANGED <<ledger, acts, applied>>
    BY <1>1 DEF SaveProposal, UploadTx, IInv, Typed
  <1>3. d \in Doc /\ d.status = "Pending" /\ d.activity = 0 /\ d.type = q.type /\ ~IsReport(d.type)
    BY <1>1, <1>2 DEF Document, Doc, DocTypes, DocStatus, IsReport
  <1>4. UploadTx[q.type] \in {"CreatePdd", "CreateValidation"}
    BY <1>2 DEF UploadTx
  <1>5. /\ Len(docs') \in Nat /\ Len(docs') \in DOMAIN docs'
    BY <1>1, <1>3, AppendKeeps DEF IInv, Typed
  <1>6. r \in Request
    BY <1>1, <1>2, <1>4, <1>5, StageTransactions DEF Request
  <1>7. r.pc = "call" /\ r.tx \in {"CreatePdd", "CreateValidation"} /\ r.doc = Len(docs')
    BY <1>1, <1>2, <1>4 DEF Request
  <1>8. ledger # <<>>
    BY <1>2 DEF Fits
  <1>9. Fits(r)'
    BY <1>2, <1>5, <1>7, <1>8 DEF Fits, ReportOf
  <1>10. acts \in Seq(Activity) /\ Len(acts) \in Nat
    BY ElementsTyped DEF IInv, Typed
  <1>11. /\ acts' \in Seq(Activity) /\ DOMAIN acts \subseteq DOMAIN acts' /\ Len(acts') <= Len(acts) + 1
         /\ UNCHANGED <<ledger, applied>>
    BY <1>2, <1>10
  <1> QED BY <1>1, <1>2, <1>3, <1>6, <1>8, <1>9, <1>11, StepSave

LEMMA StepSaveMonitoring ==
    ASSUME IInv, NEW c \in Clients, SaveMonitoring(c)
    PROVE  IInv'
  <1> DEFINE a == request[c].activity
             opens == a = 0 \/ request[c].seen = "VerificationVerified"
             opened == [version |-> IF a = 0 THEN 1 ELSE acts[a].version + 1, state |-> "MonitoringUploaded"]
  <1>1. /\ request[c] \in Request /\ Fits(request[c]) /\ request[c].pc = "upload"
        /\ uploadsLeft > 0 /\ uploadsLeft' = uploadsLeft - 1
        /\ UNCHANGED <<ledger, applied>> /\ Step(c, Idle)
    BY DEF SaveMonitoring, IInv, Typed
  <1>2. ledger # <<>> /\ (a = 0 \/ a \in DOMAIN acts) /\ a \in Nat
    BY <1>1 DEF Fits, Request
  <1>3. /\ acts \in Seq(Activity) /\ opened \in Activity /\ "MonitoringUploaded" \in ActivityState
        /\ DOMAIN acts = 1 .. Len(acts) /\ Len(acts) \in Nat
    BY <1>2, ElementsTyped DEF IInv, Typed, Activity, ActivityState
  <1>4. PICK d : /\ docs' = Append(docs, d)
                 /\ d = Document("Monitoring", IF opens THEN Len(acts') ELSE a)
    BY DEF SaveMonitoring
  <1>5. CASE opens
    <2>1. acts' = Append(acts, opened)
      BY <1>5 DEF SaveMonitoring
    <2> HIDE DEF opened
    <2>2. /\ acts' \in Seq(Activity) /\ DOMAIN acts \subseteq DOMAIN acts' /\ Len(acts') = Len(acts) + 1
          /\ Len(acts') \in DOMAIN acts'
      BY <1>3, <2>1, AppendKeeps
    <2>3. /\ d \in Doc /\ d.status = "Pending" /\ d.activity \in DOMAIN acts' /\ d.activity # 0
      BY <1>3, <1>4, <1>5, <2>2 DEF Document, Doc, DocTypes, DocStatus
    <2>4. Fits(Idle)'
      BY DEF Fits, Idle
    <2>5. Len(acts') <= Len(acts) + 1
      BY <1>3, <2>2
    <2> HIDE DEF a, opens
    <2> QED BY <1>1, <1>2, <1>4, <2>2, <2>3, <2>4, <2>5, IdleFits, StepSave
  <1>6. CASE ~opens
    <2>1. SetsState(a, "MonitoringUploaded") /\ a # 0
      BY <1>6 DEF SaveMonitoring, SetsState
    <2>2. /\ acts' \in Seq(Activity) /\ DOMAIN acts \subseteq DOMAIN acts' /\ Len(acts') = Len(acts)
      BY <1>3, <2>1, StateSet
    <2>3. /\ d \in Doc /\ d.status = "Pending" /\ d.activity \in DOMAIN acts' /\ d.activity # 0
      BY <1>2, <1>4, <1>6, <2>1, <2>2 DEF Document, Doc, DocTypes, DocStatus
    <2>4. Fits(Idle)'
      BY DEF Fits, Idle
    <2>5. Len(acts') <= Len(acts) + 1
      BY <1>3, <2>2
    <2> HIDE DEF a, opens
    <2> QED BY <1>1, <1>2, <1>4, <2>2, <2>3, <2>4, <2>5, IdleFits, StepSave
  <1> QED BY <1>5, <1>6

LEMMA StepSaveVerification ==
    ASSUME IInv, NEW c \in Clients, SaveVerification(c)
    PROVE  IInv'
  <1>1. PICK q, d : /\ q = request[c] /\ docs' = Append(docs, d) /\ d = Document("Verification", q.activity)
    BY DEF SaveVerification
  <1>2. /\ q \in Request /\ Fits(q) /\ q.pc = "upload" /\ q.type = "Verification"
        /\ uploadsLeft > 0 /\ uploadsLeft' = uploadsLeft - 1
        /\ UNCHANGED <<ledger, applied>> /\ Step(c, Idle)
        /\ acts' = [acts EXCEPT ![q.activity].state = "VerificationUploaded"]
    BY <1>1 DEF SaveVerification, IInv, Typed
  <1>3. ledger # <<>> /\ q.activity \in DOMAIN acts /\ q.activity \in Nat /\ q.activity # 0
    BY <1>2 DEF Fits, Request
  <1>4. acts \in Seq(Activity) /\ "VerificationUploaded" \in ActivityState /\ Len(acts) \in Nat
    BY ElementsTyped DEF IInv, Typed, ActivityState
  <1>5. acts' \in Seq(Activity) /\ DOMAIN acts' = DOMAIN acts /\ Len(acts') <= Len(acts) + 1
    <2>1. SetsState(q.activity, "VerificationUploaded")
      BY <1>2 DEF SetsState
    <2>2. acts' \in Seq(Activity) /\ DOMAIN acts' = DOMAIN acts /\ Len(acts') = Len(acts)
      BY <1>4, <2>1, StateSet
    <2> QED BY <1>4, <2>2
  <1>6. d \in Doc /\ d.status = "Pending" /\ d.activity \in DOMAIN acts' /\ d.activity # 0
    BY <1>1, <1>3, <1>5 DEF Document, Doc, DocTypes, DocStatus
  <1>7. Fits(Idle)'
    BY DEF Fits, Idle
  <1>8. DOMAIN acts \subseteq DOMAIN acts'
    BY <1>5
  <1> QED BY <1>1, <1>2, <1>3, <1>5, <1>6, <1>7, <1>8, IdleFits, StepSave

LEMMA StepRejectReport ==
    ASSUME IInv, NEW c \in Clients, RejectReport(c)
    PROVE  IInv'
  <1>1. PICK n, a, status, state :
          /\ n = request[c].doc /\ a = request[c].activity
          /\ status = RejectedStatus[request[c].type] /\ state = RejectedState[request[c].type]
          /\ SetsStatus(n, status) /\ SetsState(a, state)
    <2>1. SetsStatus(request[c].doc, RejectedStatus[request[c].type])
      BY DEF RejectReport, SetsStatus
    <2>2. SetsState(request[c].activity, RejectedState[request[c].type])
      BY DEF RejectReport, SetsState
    <2> QED BY <2>1, <2>2
  <1>2. /\ request[c] \in Request /\ Fits(request[c]) /\ request[c].pc = "reject"
        /\ UNCHANGED <<ledger, applied, uploadsLeft>> /\ Step(c, Idle)
    BY DEF RejectReport, IInv, Typed
  <1>3. IsReport(request[c].type) /\ docs[n].type = request[c].type
    BY <1>1, <1>2 DEF Fits
  <1>4. status \in DocStatus /\ state \in ActivityState /\ status # "IcApproved"
    BY <1>1, <1>3 DEF IsReport, RejectedStatus, RejectedState, DocStatus, ActivityState
  <1>5. docs \in Seq(Doc) /\ acts \in Seq(Activity)
    BY DEF IInv, Typed
  <1>6. /\ docs' \in Seq(Doc) /\ DOMAIN docs' = DOMAIN docs
        /\ \A k \in DOMAIN docs :
             /\ docs'[k].type = docs[k].type /\ docs'[k].activity = docs[k].activity
             /\ docs'[k].status = IF k = n THEN status ELSE docs[k].status
    BY <1>1, <1>4, <1>5, StatusSet
  <1>7. acts' \in Seq(Activity) /\ DOMAIN acts' = DOMAIN acts /\ Len(acts') = Len(acts)
    BY <1>1, <1>4, <1>5, StateSet
  <1>8. Grown
    BY <1>2, <1>6, <1>7 DEF Grown
  <1>9. request' = [request EXCEPT ![c] = Idle] /\ request \in [Clients -> Request]
    BY <1>2 DEF Step, IInv, Typed
  <1>10. Typed'
    BY <1>2, <1>6, <1>7, <1>9, IdleFits DEF IInv, Typed
  <1>11. ASSUME NEW d \in Clients PROVE request'[d] = request[d] \/ Fits(request[d])'
    <2>1. request'[d] = request[d] \/ request'[d].pc = "idle"
      BY <1>9 DEF Idle
    <2> QED BY <2>1 DEF Fits
  <1>12. CertifiedDocs'
    BY <1>2, <1>4, <1>6 DEF IInv, CertifiedDocs, Certified
  <1>13. docs' # <<>> => ledger # <<>>
    <2>1. docs' # <<>> => docs # <<>>
      BY <1>5, <1>6
    <2> QED BY <2>1 DEF IInv, Refers
  <1>14. \A k \in DOMAIN docs' :
           /\ docs'[k].activity = 0 \/ docs'[k].activity \in DOMAIN acts'
           /\ IsReport(docs'[k].type) => docs'[k].activity # 0
    BY <1>6, <1>7 DEF IInv, Refers
  <1> QED BY <1>2, <1>8, <1>10, <1>11, <1>12, <1>13, <1>14, StepBesideLedger

LEMMA StepApply ==
    ASSUME IInv, Apply
    PROVE  IInv'
  <1>1. PICK e : e = ledger[applied + 1]
    OBVIOUS
  <1>2. /\ applied < Len(ledger) /\ applied' = applied + 1
        /\ UNCHANGED <<ledger, request, uploadsLeft>>
        /\ docs' = IF IsDecision(e.tx) THEN [docs EXCEPT ![e.doc].status = Brings[e.tx]] ELSE docs
        /\ acts' = CASE e.tx = "ApproveMonitoring" ->
                          [acts EXCEPT ![docs[e.doc].activity].state = "MonitoringVerified"]
                     [] e.tx = "Issue" ->
                          [acts EXCEPT ![docs[e.doc].activity].state = "VerificationVerified"]
                     [] OTHER -> acts
    BY <1>1 DEF Apply, DecidedDoc
  <1>3. /\ docs \in Seq(Doc) /\ acts \in Seq(Activity) /\ applied \in Nat /\ Len(ledger) \in Nat
        /\ applied + 1 \in DOMAIN ledger
    BY <1>2, ElementsTyped DEF IInv, Typed
  <1>4. e \in Event /\ e.doc \in DOMAIN docs
        /\ (e.tx \in DOMAIN ReportOf => docs[e.doc].type = ReportOf[e.tx])
    BY <1>1, <1>3, ElementsTyped DEF IInv, Refers
  <1>5. /\ \A tx \in DOMAIN Brings : Brings[tx] \in DocStatus
        /\ \A tx \in DOMAIN Brings : Brings[tx] = "IcApproved" => tx \in {"ApprovePddByIc", "ApproveMonitoring"}
    BY DEF Brings, DocStatus
  <1>6. /\ docs' \in Seq(Doc) /\ DOMAIN docs' = DOMAIN docs
        /\ \A k \in DOMAIN docs :
             /\ docs'[k].type = docs[k].type /\ docs'[k].activity = docs[k].activity
             /\ docs'[k].status = IF k = e.doc /\ IsDecision(e.tx) THEN Brings[e.tx] ELSE docs[k].status
    <2>1. CASE IsDecision(e.tx)
      <3>1. PICK v : v = Brings[e.tx] /\ SetsStatus(e.doc, v)
        BY <1>2, <2>1 DEF SetsStatus
      <3>2. v \in DocStatus
        BY <1>5, <2>1, <3>1 DEF IsDecision
      <3> QED BY <1>3, <2>1, <3>1, <3>2, StatusSet
    <2>2. CASE ~IsDecision(e.tx)
      BY <1>2, <1>3, <2>2
    <2> QED BY <2>1, <2>2
  <1>7. acts' \in Seq(Activity) /\ DOMAIN acts' = DOMAIN acts /\ Len(acts') = Len(acts)
    <2>1. PICK a : a = docs[e.doc].activity
      OBVIOUS
    <2>2. ASSUME NEW v \in ActivityState, SetsState(a, v)
          PROVE  acts' \in Seq(Activity) /\ DOMAIN acts' = DOMAIN acts /\ Len(acts') = Len(acts)
      BY <1>3, <2>2, StateSet
    <2>3. "MonitoringVerified" \in ActivityState /\ "VerificationVerified" \in ActivityState
      BY DEF ActivityState
    <2>4. CASE e.tx = "ApproveMonitoring"
      BY <1>2, <2>1, <2>2, <2>3, <2>4 DEF SetsState
    <2>5. CASE e.tx = "Issue"
      BY <1>2, <2>1, <2>2, <2>3, <2>5 DEF SetsState
    <2>6. CASE e.tx \notin {"ApproveMonitoring", "Issue"}
      BY <1>2, <1>3, <2>6
    <2> QED BY <2>4, <2>5, <2>6
  <1>8. Grown
    BY <1>2, <1>6, <1>7 DEF Grown
  <1>9. Typed'
    BY <1>2, <1>3, <1>6, <1>7 DEF IInv, Typed
  <1>10. CertifiedDocs'
    <2> SUFFICES ASSUME NEW n \in DOMAIN docs', docs'[n].type = "Pdd", docs'[n].status = "IcApproved"
                 PROVE  Certified(n)'
      BY DEF CertifiedDocs
    <2>1. CASE docs'[n].status = docs[n].status
      BY <1>2, <1>6, <2>1 DEF IInv, CertifiedDocs, Certified
    <2>2. CASE n = e.doc /\ IsDecision(e.tx) /\ Brings[e.tx] = "IcApproved"
      <3>1. e.tx = "ApprovePddByIc"
        BY <1>4, <1>5, <1>6, <2>2 DEF IsDecision, ReportOf
      <3> QED BY <1>1, <1>2, <1>3, <2>2, <3>1 DEF Certified
    <2> QED BY <1>6, <2>1, <2>2
  <1>11. docs' # <<>> => ledger # <<>>
    <2>1. docs' # <<>> => docs # <<>>
      BY <1>3, <1>6
    <2> QED BY <2>1 DEF IInv, Refers
  <1>12. \A k \in DOMAIN docs' :
           /\ docs'[k].activity = 0 \/ docs'[k].activity \in DOMAIN acts'
           /\ IsReport(docs'[k].type) => docs'[k].activity # 0
    BY <1>6, <1>7 DEF IInv, Refers
  <1> QED BY <1>2, <1>8, <1>9, <1>10, <1>11, <1>12, StepBesideLedger

-----------------------------------------------------------------------------
(* Events *)

LEMMA StepCreateProject ==
    ASSUME IInv, NEW c \in Clients, CreateProject(c)
    PROVE  IInv'
  <1>1. PICK d, e : /\ d = Document("Inf", 0)
                    /\ docs' = Append(docs, d)
                    /\ ledger' = Append(ledger, e)
                    /\ e = [tx |-> "CreateProject", doc |-> Len(docs'), stage |-> "Pending", activities |-> <<>>]
    BY DEF CreateProject
  <1>2. ledger = <<>> /\ UNCHANGED <<acts, applied, request, uploadsLeft>>
    BY DEF CreateProject
  <1>3. docs = <<>>
    BY <1>2 DEF IInv, Refers
  <1>4. /\ d \in Doc /\ d.type = "Inf" /\ d.status = "Pending" /\ d.activity = 0
    BY <1>1 DEF Document, Doc, DocTypes, DocStatus
  <1>5. docs' = <<d>> /\ docs' \in Seq(Doc) /\ Len(docs') = 1
    BY <1>1, <1>3, <1>4
  <1>6. e \in Event /\ e.doc = 1 /\ e.tx = "CreateProject" /\ e.activities = <<>>
    <2>1. <<>> \in [{} -> {"Verified", "Issued"}]
      OBVIOUS
    <2>2. <<>> \in Progress
      BY <2>1 DEF Progress
    <2>3. "CreateProject" \in TxTypes /\ "Pending" \in Stages!Stage
      BY StageTransactions DEF Stages!Stage
    <2> QED BY <1>1, <1>5, <2>2, <2>3 DEF Event
  <1>7. ledger' = <<e>> /\ ledger' \in Seq(Event) /\ Len(ledger') = 1
    BY <1>1, <1>2, <1>6
  <1>8. Typed'
    <2>1. applied' \in 0 .. Len(ledger')
      BY <1>2, <1>7 DEF IInv, Typed
    <2> QED BY <1>2, <1>5, <1>7, <2>1 DEF IInv, Typed
  <1>9. Grown
    BY <1>2, <1>3, <1>5, <1>7 DEF Grown
  <1>10. ASSUME NEW x \in Clients PROVE Fits(request[x])'
    <2>1. PICK r : r = request[x]
      OBVIOUS
    <2>2. Fits(r)'
      BY <1>9, <2>1, FitsKept DEF IInv
    <2> QED BY <1>2, <2>1, <2>2
  <1>11. Refers'
    BY <1>4, <1>5, <1>6, <1>7 DEF Refers, ReportOf, IsReport
  <1>12. CertifiedDocs' /\ CertifiedBeforeApproved' /\ Authorised' /\ OneIssuancePerActivity'
    <2>1. /\ DOMAIN ledger' = {1} /\ ledger'[1].tx = "CreateProject" /\ ledger'[1].activities = <<>>
          /\ DOMAIN docs' = {1} /\ docs'[1].type = "Inf"
      BY <1>4, <1>5, <1>6, <1>7
    <2>2. CertifiedDocs'
      BY <2>1 DEF CertifiedDocs
    <2>3. CertifiedBeforeApproved'
      BY <2>1 DEF CertifiedBeforeApproved
    <2>4. Authorised'
      BY <2>1 DEF Authorised
    <2>5. OneIssuancePerActivity'
      BY <2>1 DEF OneIssuancePerActivity
    <2> QED BY <2>2, <2>3, <2>4, <2>5
  <1>13. Accounted'
    BY <1>6, <1>7 DEF Accounted, LedgerActivities, Latest
  <1> QED BY <1>8, <1>10, <1>11, <1>12, <1>13 DEF IInv

\* The row that an insertion adds, and why it may.
LEMMA InsertedRow ==
    ASSUME IInv, NEW c \in Clients, Insert(c), ledger' # ledger
    PROVE  \E r \in Request, e \in Event :
             /\ ledger' = Append(ledger, e)
             /\ ledger # <<>> /\ Latest \in Event /\ Latest = ledger[Len(ledger)]
             /\ r.tx # "CreateProject" /\ r.doc \in DOMAIN docs
             /\ r.tx \in DOMAIN ReportOf => /\ docs[r.doc].type = ReportOf[r.tx]
                                            /\ r.activity = docs[r.doc].activity
                                            /\ r.activity \in DOMAIN acts
             /\ r.tx \in {"ApprovePddByDna", "RejectPddByDna"} => Certified(r.doc)
             /\ AllowedBy(r, Latest)
             /\ e.tx = r.tx /\ e.doc = r.doc
             /\ e.stage = IF r.tx \in StageTx THEN Transition[r.tx].to ELSE Latest.stage
             /\ r.tx \in StageTx => e.activities = Latest.activities
             /\ r.tx = "ApproveMonitoring" =>
                  e.activities = [a \in DOMAIN Latest.activities \cup {r.activity} |->
                                   IF a = r.activity THEN "Verified" ELSE Latest.activities[a]]
             /\ r.tx = "Issue" => e.activities = [Latest.activities EXCEPT ![r.activity] = "Issued"]
  <1>1. PICK r, e : r = request[c] /\ e = PreparedRow(r) /\ r.row = Len(ledger) /\ ledger' = Append(ledger, e)
    BY DEF Insert, StillThere
  <1>2. r \in Request /\ Fits(r) /\ r.pc = "insert"
    BY <1>1 DEF Insert, IInv, Typed
  <1>3. /\ r.tx # "CreateProject" /\ r.doc \in DOMAIN docs /\ ledger # <<>>
        /\ r.tx \in DOMAIN ReportOf => /\ docs[r.doc].type = ReportOf[r.tx]
                                       /\ r.activity = docs[r.doc].activity
        /\ r.tx \in {"ApprovePddByDna", "RejectPddByDna"} => Certified(r.doc)
        /\ r.row \in DOMAIN ledger /\ AllowedBy(r, ledger[r.row])
    BY <1>2 DEF Fits
  <1>4. Latest = ledger[r.row] /\ Latest \in Event /\ Latest.activities \in Progress /\ Latest.stage \in Stages!Stage
    BY <1>1, <1>3, ElementsTyped DEF Latest, IInv, Event
  <1>5. r.tx \in DOMAIN ReportOf => r.activity \in DOMAIN acts
    BY <1>3 DEF IInv, Refers, ReportOf, IsReport
  <1>6. /\ e.tx = r.tx /\ e.doc = r.doc
        /\ e.stage = IF r.tx \in StageTx THEN Transition[r.tx].to ELSE Latest.stage
        /\ r.tx \in StageTx => e.activities = Latest.activities
        /\ r.tx = "ApproveMonitoring" =>
             e.activities = [a \in DOMAIN Latest.activities \cup {r.activity} |->
                              IF a = r.activity THEN "Verified" ELSE Latest.activities[a]]
        /\ r.tx = "Issue" => e.activities = [Latest.activities EXCEPT ![r.activity] = "Issued"]
    BY <1>1, <1>4, StageTransactions DEF PreparedRow
  <1>7. DOMAIN e = {"tx", "doc", "stage", "activities"} /\ e = [tx |-> e.tx, doc |-> e.doc, stage |-> e.stage, activities |-> e.activities]
    BY <1>1 DEF PreparedRow
  <1>8. r.tx \in StageTx \cup {"ApproveMonitoring", "Issue"}
    BY <1>2, <1>3, StageTransactions DEF Request
  <1>9. e.activities \in Progress
    <2>1. PICK D \in SUBSET Nat : Latest.activities \in [D -> {"Verified", "Issued"}]
      BY <1>4 DEF Progress
    <2>2. CASE r.tx = "ApproveMonitoring"
      <3>1. r.activity \in Nat
        BY <1>2 DEF Request
      <3>2. e.activities \in [D \cup {r.activity} -> {"Verified", "Issued"}]
        BY <1>6, <2>1, <2>2
      <3> QED BY <3>1, <3>2 DEF Progress
    <2>3. CASE r.tx = "Issue"
      <3>1. e.activities \in [D -> {"Verified", "Issued"}]
        BY <1>6, <2>1, <2>3
      <3> QED BY <3>1 DEF Progress
    <2> QED BY <1>4, <1>6, <1>8, <2>2, <2>3
  <1>10. e.stage \in Stages!Stage /\ e.doc \in Nat /\ e.tx \in TxTypes
    BY <1>2, <1>4, <1>6, TransitionsFollow DEF Request
  <1>11. e \in Event
    BY <1>7, <1>9, <1>10 DEF Event
  <1> QED BY <1>1, <1>2, <1>3, <1>4, <1>5, <1>6, <1>11

LEMMA StepInsert ==
    ASSUME IInv, NEW c \in Clients, Insert(c)
    PROVE  IInv'
  <1>0. /\ Step(c, Idle) /\ UNCHANGED <<docs, acts, applied, uploadsLeft>>
        /\ request \in [Clients -> Request]
    BY DEF Insert, IInv, Typed
  <1>1. CASE ledger' = ledger
    BY <1>0, <1>1, IdleFits, StepRequest
  <1>2. CASE ledger' # ledger
    <2>1. PICK r \in Request, e \in Event :
             /\ ledger' = Append(ledger, e)
             /\ ledger # <<>> /\ Latest \in Event /\ Latest = ledger[Len(ledger)]
             /\ r.tx # "CreateProject" /\ r.doc \in DOMAIN docs
             /\ r.tx \in DOMAIN ReportOf => /\ docs[r.doc].type = ReportOf[r.tx]
                                            /\ r.activity = docs[r.doc].activity
                                            /\ r.activity \in DOMAIN acts
             /\ r.tx \in {"ApprovePddByDna", "RejectPddByDna"} => Certified(r.doc)
             /\ AllowedBy(r, Latest)
             /\ e.tx = r.tx /\ e.doc = r.doc
             /\ e.stage = IF r.tx \in StageTx THEN Transition[r.tx].to ELSE Latest.stage
             /\ r.tx \in StageTx => e.activities = Latest.activities
             /\ r.tx = "ApproveMonitoring" =>
                  e.activities = [a \in DOMAIN Latest.activities \cup {r.activity} |->
                                   IF a = r.activity THEN "Verified" ELSE Latest.activities[a]]
             /\ r.tx = "Issue" => e.activities = [Latest.activities EXCEPT ![r.activity] = "Issued"]
      BY <1>2, InsertedRow
    <2> DEFINE last == Len(ledger')
    <2>2. /\ ledger \in Seq(Event) /\ DOMAIN ledger = 1 .. Len(ledger) /\ Len(ledger) \in Nat
          /\ Len(ledger) \in DOMAIN ledger
      BY <2>1, ElementsTyped DEF IInv, Typed
    <2>3. /\ DOMAIN ledger' = DOMAIN ledger \cup {last} /\ last = Len(ledger) + 1
          /\ last \notin DOMAIN ledger /\ \A i \in DOMAIN ledger : ledger'[i] = ledger[i]
          /\ ledger'[last] = e /\ ledger' \in Seq(Event) /\ ledger' # <<>>
      BY <2>1, <2>2, AppendKeeps
    <2>4. r.tx \in StageTx \cup {"ApproveMonitoring", "Issue"}
      BY <2>1, StageTransactions DEF Request
    <2> HIDE DEF last
    <2>5. Typed'
      <3>1. applied' \in 0 .. Len(ledger')
        BY <1>0, <2>2, <2>3 DEF IInv, Typed, last
      <3>2. request' \in [Clients -> Request]
        BY <1>0, IdleFits DEF Step
      <3> QED BY <1>0, <2>3, <3>1, <3>2 DEF IInv, Typed
    <2>6. Grown
      BY <1>0, <2>3 DEF Grown
    <2>7. ASSUME NEW x \in Clients PROVE Fits(request[x])'
      <3>1. request'[x] = request[x] \/ request'[x].pc = "idle"
        BY <1>0 DEF Step, Idle
      <3>2. PICK q : q = request[x]
        OBVIOUS
      <3>3. Fits(q)'
        BY <2>6, <3>2, FitsKept DEF IInv
      <3>4. CASE request'[x] = request[x]
        BY <3>2, <3>3, <3>4
      <3>5. CASE request'[x].pc = "idle"
        BY <3>5 DEF Fits
      <3> QED BY <3>1, <3>4, <3>5
    <2>8. DOMAIN Latest.activities \subseteq DOMAIN acts
      BY <2>1, <2>2 DEF IInv, Refers
    <2>9. DOMAIN e.activities \subseteq DOMAIN acts
      <3>1. r.tx = "ApproveMonitoring" => r.activity \in DOMAIN acts
        BY <2>1 DEF ReportOf
      <3> QED BY <2>1, <2>4, <2>8, <3>1
    <2>10. Refers'
      BY <1>0, <2>1, <2>3, <2>9 DEF IInv, Refers
    <2>11. CertifiedDocs'
      BY <1>0, <2>6, CertifiedKept DEF IInv, CertifiedDocs
    <2>12. CertifiedBeforeApproved'
      <3>1. ASSUME NEW i \in DOMAIN ledger', ledger'[i].tx \in {"ApprovePddByDna", "RejectPddByDna"}
            PROVE  \E j \in 1 .. i - 1 : ledger'[j].tx = "ApprovePddByIc" /\ ledger'[j].doc = ledger'[i].doc
        <4>1. CASE i \in DOMAIN ledger
          <5>1. 1 .. i - 1 \subseteq DOMAIN ledger
            BY <2>2, <4>1
          <5> QED BY <2>3, <3>1, <4>1, <5>1 DEF IInv, CertifiedBeforeApproved
        <4>2. CASE i = last
          <5>1. Certified(r.doc)
            BY <2>1, <2>3, <3>1, <4>2
          <5> QED BY <2>1, <2>2, <2>3, <4>2, <5>1 DEF Certified
        <4> QED BY <2>3, <4>1, <4>2
      <3> QED BY <3>1 DEF CertifiedBeforeApproved
    <2>13. LedgerActivities = Latest.activities /\ LedgerActivities' = e.activities
      BY <2>1, <2>3 DEF LedgerActivities, Latest, last
    <2>14. Accounted'
      <3>1. ASSUME NEW a \in DOMAIN e.activities
            PROVE  \E j \in DOMAIN ledger' : ledger'[j].tx = "ApproveMonitoring" /\ docs[ledger'[j].doc].activity = a
        <4>1. CASE a \in DOMAIN Latest.activities
          BY <2>3, <2>13, <4>1 DEF IInv, Accounted
        <4>2. CASE a \notin DOMAIN Latest.activities
          <5>1. r.tx = "ApproveMonitoring" /\ a = r.activity
            BY <2>1, <2>4, <3>1, <4>2
          <5> QED BY <2>1, <2>3, <5>1 DEF ReportOf
        <4> QED BY <4>1, <4>2
      <3>2. ASSUME NEW j \in DOMAIN ledger', ledger'[j].tx = "Issue"
            PROVE  /\ docs[ledger'[j].doc].activity \in DOMAIN e.activities
                   /\ e.activities[docs[ledger'[j].doc].activity] = "Issued"
        <4>1. CASE j \in DOMAIN ledger
          <5>1. PICK a : a = docs[ledger[j].doc].activity
            OBVIOUS
          <5>2. a \in DOMAIN Latest.activities /\ Latest.activities[a] = "Issued"
            BY <2>3, <2>13, <3>2, <4>1, <5>1 DEF IInv, Accounted
          <5>3. r.tx = "ApproveMonitoring" => a # r.activity
            BY <2>1, <5>2, StageTransactions DEF AllowedBy
          <5>4. a \in DOMAIN e.activities /\ e.activities[a] = "Issued"
            BY <2>1, <2>4, <5>2, <5>3
          <5> QED BY <2>3, <4>1, <5>1, <5>4
        <4>2. CASE j = last
          <5>1. r.tx = "Issue" /\ r.activity \in DOMAIN Latest.activities /\ docs[e.doc].activity = r.activity
            BY <2>1, <2>3, <3>2, <4>2, StageTransactions DEF AllowedBy, ReportOf
          <5> QED BY <2>1, <2>3, <4>2, <5>1
        <4> QED BY <2>3, <4>1, <4>2
      <3> QED BY <1>0, <2>13, <3>1, <3>2 DEF Accounted
    <2>15. Authorised'
      <3>1. Latest.activities # <<>> => Latest.stage = "Authorised"
        BY <2>1, <2>2 DEF IInv, Authorised
      <3>2. e.activities # <<>> => e.stage = "Authorised"
        <4>1. CASE r.tx \in StageTx
          <5>1. Latest.stage \in Transition[r.tx].from
            BY <2>1, <4>1 DEF AllowedBy
          <5>2. Latest.stage # "Authorised"
            BY <4>1, <5>1, TransitionsFollow
          <5> QED BY <2>1, <3>1, <4>1, <5>2
        <4>2. CASE r.tx = "ApproveMonitoring"
          BY <2>1, <4>2, StageTransactions DEF AllowedBy
        <4>3. CASE r.tx = "Issue"
          <5>1. r.activity \in DOMAIN Latest.activities
            BY <2>1, <4>3, StageTransactions DEF AllowedBy
          <5>2. Latest.activities # <<>>
            BY <5>1
          <5> QED BY <2>1, <3>1, <4>3, <5>2, StageTransactions
        <4> QED BY <2>4, <4>1, <4>2, <4>3
      <3> QED BY <2>3, <3>2 DEF IInv, Authorised
    <2>16. OneIssuancePerActivity'
      <3>1. ASSUME NEW i \in DOMAIN ledger', ledger'[i].tx = "Issue", NEW a, a = docs[ledger'[i].doc].activity
            PROVE  /\ \E j \in 1 .. i - 1 : ledger'[j].tx = "ApproveMonitoring" /\ docs[ledger'[j].doc].activity = a
                   /\ \A j \in 1 .. i - 1 : ledger'[j].tx = "Issue" => docs[ledger'[j].doc].activity # a
        <4>1. CASE i \in DOMAIN ledger
          <5>1. 1 .. i - 1 \subseteq DOMAIN ledger
            BY <2>2, <4>1
          <5> QED BY <2>3, <3>1, <4>1, <5>1 DEF IInv, OneIssuancePerActivity
        <4>2. CASE i = last
          <5>1. /\ r.tx = "Issue" /\ a = r.activity
                /\ a \in DOMAIN Latest.activities /\ Latest.activities[a] = "Verified"
            <6>1. ledger'[i] = e /\ e.tx = "Issue" /\ r.tx = "Issue"
              BY <2>1, <2>3, <3>1, <4>2
            <6>2. a = r.activity
              BY <2>1, <3>1, <6>1 DEF ReportOf
            <6>3. r.activity \in DOMAIN Latest.activities /\ Latest.activities[r.activity] = "Verified"
              BY <2>1, <6>1, StageTransactions DEF AllowedBy
            <6> QED BY <6>1, <6>2, <6>3
          <5>2. 1 .. i - 1 = DOMAIN ledger
            BY <2>2, <2>3, <4>2
          <5>3. \E j \in DOMAIN ledger : ledger[j].tx = "ApproveMonitoring" /\ docs[ledger[j].doc].activity = a
            BY <2>13, <5>1 DEF IInv, Accounted
          <5>4. ASSUME NEW j \in DOMAIN ledger, ledger[j].tx = "Issue" PROVE docs[ledger[j].doc].activity # a
            <6>1. LedgerActivities[docs[ledger[j].doc].activity] = "Issued"
              BY <5>4 DEF IInv, Accounted
            <6> QED BY <2>13, <5>1, <6>1
          <5> QED BY <2>3, <5>2, <5>3, <5>4
        <4> QED BY <2>3, <4>1, <4>2
      <3> QED BY <1>0, <3>1 DEF OneIssuancePerActivity
    <2> QED BY <2>5, <2>7, <2>10, <2>11, <2>12, <2>14, <2>15, <2>16 DEF IInv
  <1> QED BY <1>1, <1>2

-----------------------------------------------------------------------------
(* Where a project starts *)

\* The number of documents of the first n events.
Begun(n) == IF n = 0 THEN 0 ELSE IF n < 3 THEN 1 ELSE IF n < 6 THEN 2 ELSE 3

LEMMA BeginningIs ==
    /\ \A i \in 1 .. 7 : Beginning[i].doc = Begun(i)
    /\ Beginning[1].tx = "CreateProject" /\ Beginning[1].stage = "Pending"
    /\ Beginning[2].tx = "ApproveInf" /\ Beginning[2].stage = "Approved"
    /\ Beginning[3].tx = "CreatePdd" /\ Beginning[3].stage = "PddSubmitted"
    /\ Beginning[4].tx = "ApprovePddByIc" /\ Beginning[4].stage = "PddApprovedByCertifier"
    /\ Beginning[5].tx = "ApprovePddByDna" /\ Beginning[5].stage = "PddApprovedByDna"
    /\ Beginning[6].tx = "CreateValidation" /\ Beginning[6].stage = "ValidationReportSubmitted"
    /\ Beginning[7].tx = "ApproveValidation" /\ Beginning[7].stage = "Authorised"
  <1>1. \A i \in 1 .. 7 : i = 1 \/ i = 2 \/ i = 3 \/ i = 4 \/ i = 5 \/ i = 6 \/ i = 7
    OBVIOUS
  <1>2. /\ Beginning[1].doc = 1 /\ Beginning[2].doc = 1 /\ Beginning[3].doc = 2 /\ Beginning[4].doc = 2
        /\ Beginning[5].doc = 2 /\ Beginning[6].doc = 3 /\ Beginning[7].doc = 3
    BY DEF Beginning
  <1>3. /\ Begun(1) = 1 /\ Begun(2) = 1 /\ Begun(3) = 2 /\ Begun(4) = 2 /\ Begun(5) = 2
        /\ Begun(6) = 3 /\ Begun(7) = 3
    BY DEF Begun
  <1>4. \A i \in 1 .. 7 : Beginning[i].doc = Begun(i)
    BY <1>1, <1>2, <1>3
  <1> QED BY <1>4 DEF Beginning

LEMMA BeginningTyped ==
    ASSUME NEW i \in 1 .. 7
    PROVE  /\ Beginning[i].tx \in TxTypes /\ Beginning[i].stage \in Stages!Stage
           /\ Beginning[i].tx \notin DOMAIN ReportOf /\ Beginning[i].tx # "RejectPddByDna"
           /\ Beginning[i].tx = "ApprovePddByDna" => i = 5
           /\ Beginning[i].tx = "ApprovePddByIc" => i = 4
  <1>1. i = 1 \/ i = 2 \/ i = 3 \/ i = 4 \/ i = 5 \/ i = 6 \/ i = 7
    OBVIOUS
  <1> QED BY <1>1, BeginningIs, StageTransactions DEF Stages!Stage, ReportOf

LEMMA DocumentsBegun ==
    ASSUME NEW n \in 0 .. 7
    PROVE  Cardinality({Beginning[i].doc : i \in 1 .. n}) = Begun(n)
  <1>1. Begun(n) \in 0 .. 3 /\ (n = 0 => Begun(n) = 0)
    BY DEF Begun
  <1>2. {Beginning[i].doc : i \in 1 .. n} = 1 .. Begun(n)
    <2>1. \A i \in 1 .. n : Beginning[i].doc = Begun(i)
      BY BeginningIs
    <2>2. \A i \in 1 .. n : Begun(i) \in 1 .. Begun(n)
      BY DEF Begun
    <2>3. ASSUME NEW k \in 1 .. Begun(n) PROVE \E i \in 1 .. n : k = Begun(i)
      <3>1. k = 1 \/ k = 2 \/ k = 3
        BY <1>1
      <3>2. Begun(1) = 1 /\ Begun(3) = 2 /\ Begun(6) = 3
        BY DEF Begun
      <3>3. (Begun(n) >= 1 => 1 \in 1 .. n) /\ (Begun(n) >= 2 => 3 \in 1 .. n) /\ (Begun(n) >= 3 => 6 \in 1 .. n)
        BY DEF Begun
      <3> QED BY <1>1, <3>1, <3>2, <3>3
    <2> QED BY <2>1, <2>2, <2>3
  <1>3. Cardinality(1 .. Begun(n)) = Begun(n)
    <2>1. 1 \in Int /\ Begun(n) \in Int
      BY <1>1
    <2>2. Cardinality(1 .. Begun(n)) = IF 1 > Begun(n) THEN 0 ELSE Begun(n) - 1 + 1
      BY <2>1, FS_Interval
    <2> QED BY <1>1, <2>2
  <1> QED BY <1>2, <1>3

LEMMA LargestOfSeven ==
    ASSUME NEW S \in SUBSET (1 .. 7), S # {}
    PROVE  \E i \in S : \A j \in S : j <= i
  <1>1. CASE 7 \in S
    BY <1>1
  <1>2. CASE 6 \in S /\ 7 \notin S
    BY <1>2
  <1>3. CASE 5 \in S /\ S \subseteq 1 .. 5
    BY <1>3
  <1>4. CASE 4 \in S /\ S \subseteq 1 .. 4
    BY <1>4
  <1>5. CASE 3 \in S /\ S \subseteq 1 .. 3
    BY <1>5
  <1>6. CASE 2 \in S /\ S \subseteq 1 .. 2
    BY <1>6
  <1>7. CASE S \subseteq 1 .. 1
    <2>1. PICK i \in S : TRUE
      OBVIOUS
    <2>2. \A j \in S : j = 1
      BY <1>7
    <2> QED BY <2>1, <2>2
  <1>8. S \subseteq 1 .. 7 /\ (7 \notin S => S \subseteq 1 .. 6)
    OBVIOUS
  <1>9. 7 \notin S /\ 6 \notin S => S \subseteq 1 .. 5
    OBVIOUS
  <1>10. S \subseteq 1 .. 5 /\ 5 \notin S => S \subseteq 1 .. 4
    OBVIOUS
  <1>11. S \subseteq 1 .. 4 /\ 4 \notin S => S \subseteq 1 .. 3
    OBVIOUS
  <1>12. S \subseteq 1 .. 3 /\ 3 \notin S => S \subseteq 1 .. 2
    OBVIOUS
  <1>13. S \subseteq 1 .. 2 /\ 2 \notin S => S \subseteq 1 .. 1
    OBVIOUS
  <1> QED BY <1>1, <1>2, <1>3, <1>4, <1>5, <1>6, <1>7, <1>9, <1>10, <1>11, <1>12, <1>13

LEMMA StatusBegun ==
    ASSUME NEW n \in 0 .. 7, NEW k
    PROVE  /\ StartStatus(n, k) \in DocStatus
           /\ StartStatus(n, k) = "IcApproved" => n >= 4 /\ k = 2
  <1> DEFINE decided == {i \in 1 .. n : Beginning[i].doc = k /\ IsDecision(Beginning[i].tx)}
             m == CHOOSE i \in decided : \A j \in decided : j <= i
  <1>1. CASE decided = {}
    BY <1>1 DEF StartStatus, DocStatus
  <1>2. CASE decided # {}
    <2>1. decided \in SUBSET (1 .. 7)
      OBVIOUS
    <2>2. \E i \in decided : \A j \in decided : j <= i
      <3> HIDE DEF decided
      <3> QED BY <1>2, <2>1, LargestOfSeven
    <2>3. m \in decided
      BY <2>2
    <2>4. StartStatus(n, k) = Brings[Beginning[m].tx]
      BY <1>2 DEF StartStatus
    <2>5. m \in 1 .. n /\ Beginning[m].doc = k /\ Beginning[m].tx \in DOMAIN Brings
      BY <2>3 DEF IsDecision
    <2> HIDE DEF m, decided
    <2>6. Brings[Beginning[m].tx] \in DocStatus
      BY <2>5 DEF Brings, DocStatus
    <2>7. ASSUME Brings[Beginning[m].tx] = "IcApproved" PROVE n >= 4 /\ k = 2
      <3>1. m \in 1 .. 7
        BY <2>5
      <3>2. Beginning[m].tx \in {"ApprovePddByIc", "ApproveMonitoring"}
        BY <2>5, <2>7 DEF Brings
      <3>3. m = 4
        BY <3>1, <3>2, BeginningTyped DEF ReportOf
      <3> QED BY <2>5, <3>1, <3>3, BeginningIs DEF Begun
    <2> QED BY <2>4, <2>6, <2>7
  <1> QED BY <1>1, <1>2

LEMMA StartedAs ==
    ASSUME NEW n \in 0 .. 7, ledger = StartLedger(n), docs = StartDocs(n)
    PROVE  /\ ledger \in Seq(Event) /\ Len(ledger) = n /\ DOMAIN ledger = 1 .. n
           /\ \A i \in DOMAIN ledger : /\ ledger[i].tx = Beginning[i].tx
                                       /\ ledger[i].doc = Begun(i)
                                       /\ ledger[i].stage = Beginning[i].stage
                                       /\ ledger[i].activities = <<>>
           /\ docs \in Seq(Doc) /\ DOMAIN docs = 1 .. Begun(n)
           /\ \A k \in DOMAIN docs : /\ docs[k].type = <<"Inf", "Pdd", "Validation">>[k]
                                     /\ docs[k].activity = 0
                                     /\ docs[k].status = StartStatus(n, k)
  <1>1. <<>> \in Progress
    <2>1. <<>> \in [{} -> {"Verified", "Issued"}]
      OBVIOUS
    <2> QED BY <2>1 DEF Progress
  <1>2. Begun(n) \in 0 .. 3 /\ \A i \in 1 .. 7 : Begun(i) \in Nat
    BY DEF Begun
  <1>3. \A i \in 1 .. n : [tx |-> Beginning[i].tx, doc |-> Beginning[i].doc,
                           stage |-> Beginning[i].stage, activities |-> <<>>] \in Event
    <2>1. \A i \in 1 .. n : i \in 1 .. 7
      OBVIOUS
    <2> QED BY <1>1, <1>2, <2>1, BeginningIs, BeginningTyped DEF Event
  <1>4. ledger \in Seq(Event) /\ Len(ledger) = n /\ DOMAIN ledger = 1 .. n
    BY <1>3 DEF StartLedger
  <1>5. \A i \in DOMAIN ledger : /\ ledger[i].tx = Beginning[i].tx
                                 /\ ledger[i].doc = Begun(i)
                                 /\ ledger[i].stage = Beginning[i].stage
                                 /\ ledger[i].activities = <<>>
    BY <1>4, BeginningIs DEF StartLedger
  <1>6. docs = [k \in 1 .. Begun(n) |->
                  [Document(<<"Inf", "Pdd", "Validation">>[k], 0) EXCEPT !.status = StartStatus(n, k)]]
    BY DocumentsBegun DEF StartDocs
  <1>7. \A k \in 1 .. Begun(n) :
          LET d == [Document(<<"Inf", "Pdd", "Validation">>[k], 0) EXCEPT !.status = StartStatus(n, k)] IN
          /\ d \in Doc
          /\ d.type = <<"Inf", "Pdd", "Validation">>[k] /\ d.activity = 0 /\ d.status = StartStatus(n, k)
    <2> SUFFICES ASSUME NEW k \in 1 .. Begun(n)
                 PROVE  LET d == [Document(<<"Inf", "Pdd", "Validation">>[k], 0)
                                    EXCEPT !.status = StartStatus(n, k)] IN
                        /\ d \in Doc
                        /\ d.type = <<"Inf", "Pdd", "Validation">>[k] /\ d.activity = 0
                        /\ d.status = StartStatus(n, k)
      OBVIOUS
    <2>1. k = 1 \/ k = 2 \/ k = 3
      BY <1>2
    <2>2. <<"Inf", "Pdd", "Validation">>[k] \in DocTypes
      BY <2>1 DEF DocTypes
    <2>3. StartStatus(n, k) \in DocStatus
      BY StatusBegun
    <2> QED BY <2>2, <2>3 DEF Doc, Document
  <1>8. docs \in Seq(Doc) /\ DOMAIN docs = 1 .. Begun(n)
    <2>1. DOMAIN docs = 1 .. Begun(n) /\ docs = [k \in 1 .. Begun(n) |-> docs[k]]
      BY <1>6
    <2>2. \A k \in 1 .. Begun(n) : docs[k] \in Doc
      BY <1>6, <1>7
    <2>3. docs \in [1 .. Begun(n) -> Doc]
      BY <2>1, <2>2
    <2>4. Begun(n) \in Nat
      BY <1>2
    <2> HIDE DEF Doc, Begun
    <2> QED BY <2>1, <2>3, <2>4
  <1>9. \A k \in DOMAIN docs : /\ docs[k].type = <<"Inf", "Pdd", "Validation">>[k]
                               /\ docs[k].activity = 0
                               /\ docs[k].status = StartStatus(n, k)
    BY <1>6, <1>7, <1>8
  <1> QED BY <1>4, <1>5, <1>8, <1>9

LEMMA Initially == LInit => IInv
  <1> SUFFICES ASSUME LInit PROVE IInv
    OBVIOUS
  <1>1. PICK n \in 0 .. 7 : /\ ledger = StartLedger(n) /\ docs = StartDocs(n)
                            /\ acts = <<>> /\ applied = n
                            /\ request = [c \in Clients |-> Idle]
                            /\ uploadsLeft = MaxUploads
    BY LifecycleAssumption DEF LInit
  <1>2. /\ ledger \in Seq(Event) /\ Len(ledger) = n /\ DOMAIN ledger = 1 .. n
        /\ \A i \in DOMAIN ledger : /\ ledger[i].tx = Beginning[i].tx
                                    /\ ledger[i].doc = Begun(i)
                                    /\ ledger[i].stage = Beginning[i].stage
                                    /\ ledger[i].activities = <<>>
        /\ docs \in Seq(Doc) /\ DOMAIN docs = 1 .. Begun(n)
        /\ \A k \in DOMAIN docs : /\ docs[k].type = <<"Inf", "Pdd", "Validation">>[k]
                                  /\ docs[k].activity = 0
                                  /\ docs[k].status = StartStatus(n, k)
    BY <1>1, StartedAs
  <1>3. \A i \in DOMAIN ledger : /\ i \in 1 .. 7
                                 /\ ledger[i].tx \notin DOMAIN ReportOf /\ ledger[i].tx # "RejectPddByDna"
                                 /\ ledger[i].tx = "ApprovePddByDna" => i = 5
    BY <1>2, BeginningTyped
  <1>4. \A k \in DOMAIN docs : docs[k].type \in {"Inf", "Pdd", "Validation"}
    <2>1. \A k \in DOMAIN docs : k = 1 \/ k = 2 \/ k = 3
      BY <1>2 DEF Begun
    <2> QED BY <1>2, <2>1
  <1>5. Typed
    BY <1>1, <1>2, IdleFits, LifecycleAssumption DEF Typed
  <1>6. Refers
    <2>1. \A i \in DOMAIN ledger : ledger[i].doc \in DOMAIN docs
      BY <1>2 DEF Begun
    <2>2. docs # <<>> => ledger # <<>>
      <3>1. n = 0 => DOMAIN docs = {}
        BY <1>2 DEF Begun
      <3>2. DOMAIN docs = {} => docs = <<>>
        <4>1. docs \in Seq(Doc)
          BY <1>2
        <4>2. Len(docs) \in Nat /\ DOMAIN docs = 1 .. Len(docs)
          BY <4>1
        <4>3. DOMAIN docs = {} => Len(docs) = 0
          BY <4>2
        <4> QED BY <4>1, <4>3
      <3>3. n # 0 => ledger # <<>>
        BY <1>2
      <3> QED BY <3>1, <3>2, <3>3
    <2> QED BY <1>2, <1>3, <1>4, <2>1, <2>2 DEF Refers, IsReport
  <1>7. \A c \in Clients : Fits(request[c])
    BY <1>1, IdleFits
  <1>8. n >= 4 => 4 \in DOMAIN ledger /\ ledger[4].tx = "ApprovePddByIc" /\ ledger[4].doc = 2
    <2>1. n >= 4 => 4 \in 1 .. n
      OBVIOUS
    <2>2. Begun(4) = 2
      BY DEF Begun
    <2> QED BY <1>2, <2>1, <2>2, BeginningIs
  <1>9. CertifiedDocs
    BY <1>2, <1>8, StatusBegun DEF CertifiedDocs, Certified
  <1>10. CertifiedBeforeApproved
    <2> SUFFICES ASSUME NEW i \in DOMAIN ledger, ledger[i].tx \in {"ApprovePddByDna", "RejectPddByDna"}
                 PROVE  \E j \in 1 .. i - 1 : ledger[j].tx = "ApprovePddByIc" /\ ledger[j].doc = ledger[i].doc
      BY DEF CertifiedBeforeApproved
    <2>1. i = 5 /\ n >= 5
      BY <1>2, <1>3
    <2>2. ledger[i].doc = 2
      BY <1>2, <2>1 DEF Begun
    <2> QED BY <1>8, <2>1, <2>2
  <1>11. \A i \in DOMAIN ledger : ledger[i].tx # "Issue" /\ ledger[i].activities = <<>>
    BY <1>2, <1>3 DEF ReportOf
  <1>12. LedgerActivities = <<>>
    BY <1>2, <1>11 DEF LedgerActivities, Latest
  <1>13. Accounted
    BY <1>11, <1>12 DEF Accounted
  <1>14. Authorised /\ OneIssuancePerActivity
    BY <1>11 DEF Authorised, OneIssuancePerActivity
  <1> QED BY <1>5, <1>6, <1>7, <1>9, <1>10, <1>13, <1>14 DEF IInv

-----------------------------------------------------------------------------
(* Every step *)

LEMMA Unchanged ==
    ASSUME IInv, UNCHANGED lvars
    PROVE  IInv'
  <1>1. UNCHANGED <<ledger, docs, acts, applied, request, uploadsLeft>>
    BY DEF lvars
  <1>2. Typed' /\ Refers' /\ CertifiedDocs' /\ CertifiedBeforeApproved'
    BY <1>1 DEF IInv, Typed, Refers, CertifiedDocs, Certified, CertifiedBeforeApproved
  <1>3. Accounted' /\ Authorised' /\ OneIssuancePerActivity'
    BY <1>1 DEF IInv, Accounted, Authorised, OneIssuancePerActivity, LedgerActivities, Latest
  <1>4. (\A c \in Clients : Fits(request[c]))'
    BY <1>1 DEF IInv, Fits, Certified
  <1> QED BY <1>1, <1>2, <1>3, <1>4 DEF IInv

LEMMA Inductive == IInv /\ [LNext]_lvars => IInv'
  <1> SUFFICES ASSUME IInv, [LNext]_lvars PROVE IInv'
    OBVIOUS
  <1>1. CASE UNCHANGED lvars
    BY <1>1, Unchanged
  <1>2. CASE Apply
    BY <1>2, StepApply
  <1>3. ASSUME NEW c \in Clients, Begin(c) PROVE IInv'
    <2>1. ASSUME NEW n \in DOMAIN docs, BeginRejectReport(c, n) PROVE IInv'
      BY <2>1, StepBeginReject
    <2>2. ASSUME NEW n \in DOMAIN docs, NEW d \in Decisions, BeginDecision(c, n, d) PROVE IInv'
      BY <2>2, StepBeginDecision
    <2>3. ASSUME NEW type \in DocTypes, NEW a \in 0 .. Len(acts), BeginUpload(c, type, a) PROVE IInv'
      BY <2>3, StepBeginUpload
    <2> QED BY <1>3, <2>1, <2>2, <2>3, StepCreateProject DEF Begin
  <1>4. ASSUME NEW c \in Clients, Proceed(c) PROVE IInv'
    BY <1>4, StepSaveProposal, StepSaveMonitoring, StepSaveVerification, StepRejectReport,
       StepReadRow, StepInsert DEF Proceed
  <1>5. ASSUME NEW c \in Clients, FailCall(c) PROVE IInv'
    BY <1>5, StepFailCall
  <1> QED BY <1>1, <1>2, <1>3, <1>4, <1>5 DEF LNext

LEMMA Always == LSpec => []IInv
  BY Initially, Inductive, PTL DEF LSpec

-----------------------------------------------------------------------------
(* The theorems *)

\* Every reachable state is well typed: an event is about a document there is,
\* and the activities of the project's row are activities of the operational
\* database, for every number of clients and uploads.
THEOREM LifecycleTypeCorrect == LSpec => []LTypeOK
  <1>1. IInv => LTypeOK
    <2> SUFFICES ASSUME IInv PROVE LTypeOK
      OBVIOUS
    <2>1. \A i \in DOMAIN ledger : ledger[i].tx \in TxTypes /\ ledger[i].stage \in Stages!Stage
      BY ElementsTyped DEF IInv, Event
    <2> QED BY <2>1 DEF IInv, Typed, Refers, LTypeOK, Doc, Activity
  <1> QED BY <1>1, Always, PTL

\* The authority only decides on a design document the certifier approved before
\* in the ledger, although the status it checks is set by the replicator later
\* and the decision is written later still.
THEOREM OnlyCertifiedApproved == LSpec => []CertifiedBeforeApproved
  <1>1. IInv => CertifiedBeforeApproved
    BY DEF IInv
  <1> QED BY <1>1, Always, PTL

\* Credits are issued for an activity at most once, and only after its monitoring
\* report was approved, for every number of racing requests.
THEOREM IssuedOncePerActivity == LSpec => []OneIssuancePerActivity
  <1>1. IInv => OneIssuancePerActivity
    BY DEF IInv
  <1> QED BY <1>1, Always, PTL

LEMMA StartsInProcedure == LInit => Stages!PInit
  <1> SUFFICES ASSUME LInit PROVE Stages!PInit
    OBVIOUS
  <1>1. PICK n \in Starts : ledger = StartLedger(n) /\ docs = StartDocs(n)
    BY DEF LInit
  <1>2. n \in 0 .. 7
    BY LifecycleAssumption
  <1>3. /\ Len(ledger) = n /\ DOMAIN ledger = 1 .. n /\ ledger \in Seq(Event)
        /\ \A i \in DOMAIN ledger : ledger[i].stage = Beginning[i].stage /\ ledger[i].activities = <<>>
    BY <1>1, <1>2, StartedAs
  <1>4. LedgerStage = IF n = 0 THEN "None" ELSE Beginning[n].stage
    BY <1>2, <1>3 DEF LedgerStage, Latest
  <1>5. LedgerActivities = <<>>
    BY <1>2, <1>3 DEF LedgerActivities, Latest
  <1> QED BY <1>1, <1>4, <1>5 DEF Stages!PInit, StartStages

\* What an insertion is of the review procedure.
LEMMA InsertFollows ==
    ASSUME IInv, NEW c \in Clients, Insert(c), ledger' # ledger
    PROVE  Stages!PNext
  <1>1. PICK r \in Request, e \in Event :
             /\ ledger' = Append(ledger, e)
             /\ ledger # <<>> /\ Latest \in Event /\ Latest = ledger[Len(ledger)]
             /\ r.tx # "CreateProject" /\ r.doc \in DOMAIN docs
             /\ r.tx \in DOMAIN ReportOf => /\ docs[r.doc].type = ReportOf[r.tx]
                                            /\ r.activity = docs[r.doc].activity
                                            /\ r.activity \in DOMAIN acts
             /\ r.tx \in {"ApprovePddByDna", "RejectPddByDna"} => Certified(r.doc)
             /\ AllowedBy(r, Latest)
             /\ e.tx = r.tx /\ e.doc = r.doc
             /\ e.stage = IF r.tx \in StageTx THEN Transition[r.tx].to ELSE Latest.stage
             /\ r.tx \in StageTx => e.activities = Latest.activities
             /\ r.tx = "ApproveMonitoring" =>
                  e.activities = [a \in DOMAIN Latest.activities \cup {r.activity} |->
                                   IF a = r.activity THEN "Verified" ELSE Latest.activities[a]]
             /\ r.tx = "Issue" => e.activities = [Latest.activities EXCEPT ![r.activity] = "Issued"]
    BY InsertedRow
  <1>2. /\ LedgerStage = Latest.stage /\ LedgerActivities = Latest.activities
        /\ Latest.activities # <<>> => Latest.stage = "Authorised"
    <2>1. Len(ledger) \in DOMAIN ledger
      <3>1. ledger \in Seq(Event) /\ Typed
        BY DEF IInv, Typed
      <3>2. Len(ledger) \in Nat /\ DOMAIN ledger = 1 .. Len(ledger)
        BY <3>1, ElementsTyped
      <3>3. Len(ledger) # 0
        BY <1>1, <3>1
      <3> QED BY <3>2, <3>3
    <2> QED BY <1>1, <2>1 DEF LedgerStage, LedgerActivities, IInv, Authorised
  <1>3. LedgerStage' = e.stage /\ LedgerActivities' = e.activities
    <2>1. ledger \in Seq(Event) /\ e \in Event
      BY DEF IInv, Typed
    <2>2. Len(ledger') = Len(ledger) + 1 /\ ledger'[Len(ledger')] = e /\ ledger' # <<>>
      BY <1>1, <2>1
    <2> QED BY <2>2 DEF LedgerStage, LedgerActivities, Latest
  <1>4. r.tx \in StageTx \cup {"ApproveMonitoring", "Issue"}
    BY <1>1, StageTransactions DEF Request
  <1>5. CASE r.tx \in StageTx
    <2>1. Latest.stage \in Transition[r.tx].from
      BY <1>1, <1>5 DEF AllowedBy
    <2>2. Stages!Advance
      BY <1>1, <1>2, <1>3, <1>5, <2>1, TransitionsFollow DEF Stages!Advance
    <2> QED BY <2>2 DEF Stages!PNext
  <1>6. r.tx \in DOMAIN ReportOf => r.activity \in 1 .. MaxUploads
    BY <1>1, ElementsTyped, LifecycleAssumption DEF IInv, Typed
  <1>7. CASE r.tx = "ApproveMonitoring"
    <2>1. Latest.stage = "Authorised" /\ r.activity \notin DOMAIN Latest.activities
      BY <1>1, <1>7, StageTransactions DEF AllowedBy
    <2>2. e.stage = Latest.stage
      BY <1>1, <1>7, StageTransactions
    <2>3. Stages!AdmitActivity(r.activity)
      BY <1>1, <1>2, <1>3, <1>7, <2>1, <2>2 DEF Stages!AdmitActivity
    <2> QED BY <1>6, <1>7, <2>3 DEF Stages!PNext, ReportOf
  <1>8. CASE r.tx = "Issue"
    <2>1. r.activity \in DOMAIN Latest.activities /\ Latest.activities[r.activity] = "Verified"
      BY <1>1, <1>8, StageTransactions DEF AllowedBy
    <2>2. e.stage = Latest.stage
      BY <1>1, <1>8, StageTransactions
    <2>3. Latest.stage = "Authorised"
      <3>1. Latest.activities # <<>>
        BY <2>1
      <3> QED BY <1>2, <3>1
    <2>4. Stages!IssueForActivity(r.activity)
      BY <1>1, <1>2, <1>3, <1>8, <2>1, <2>2, <2>3 DEF Stages!IssueForActivity
    <2> QED BY <1>6, <1>8, <2>4 DEF Stages!PNext, ReportOf
  <1> QED BY <1>4, <1>5, <1>7, <1>8

LEMMA StepFollows ==
    ASSUME IInv, [LNext]_lvars
    PROVE  [Stages!PNext]_(Stages!pvars)
  <1>1. CASE ledger' = ledger
    BY <1>1 DEF Stages!pvars, LedgerStage, LedgerActivities, Latest
  <1>2. CASE ledger' # ledger
    <2>1. PICK c \in Clients : CreateProject(c) \/ Insert(c)
      BY <1>2 DEF LNext, lvars, Begin, Proceed, Apply, BeginUpload, BeginRejectReport, BeginDecision,
                  SaveProposal, SaveMonitoring, SaveVerification, RejectReport, ReadRow, FailCall
    <2>2. CASE CreateProject(c)
      <3>1. /\ ledger = <<>>
            /\ ledger' = Append(ledger, [tx |-> "CreateProject", doc |-> Len(docs'),
                                         stage |-> "Pending", activities |-> <<>>])
        BY <2>2 DEF CreateProject
      <3>2. /\ LedgerStage = "None" /\ LedgerActivities = <<>>
            /\ LedgerStage' = "Pending" /\ LedgerActivities' = <<>>
        BY <3>1 DEF LedgerStage, LedgerActivities, Latest
      <3>3. Stages!Advance
        BY <3>2 DEF Stages!Advance, Stages!EnteredFrom
      <3> QED BY <3>3 DEF Stages!PNext
    <2>3. CASE Insert(c)
      BY <1>2, <2>3, InsertFollows
    <2> QED BY <2>1, <2>2, <2>3
  <1> QED BY <1>1, <1>2

\* The ledger implements the review procedure: its stage only moves along the
\* procedure's edges, and an activity is admitted and issued for once, whichever
\* requests race, for every number of clients and uploads.
THEOREM FollowsProcedure == LSpec => StagesFollowProcedure
  BY StartsInProcedure, StepFollows, Always, PTL DEF LSpec, Stages!PSpec, StagesFollowProcedure

-----------------------------------------------------------------------------
(* What documents show *)

IsProposal(type) == type \in {"Inf", "Pdd", "Validation"}

DecidedAt(i, n) == ledger[i].doc = n /\ IsDecision(ledger[i].tx)

\* A document shows the last decision about it that has been applied.
Shows(n) ==
    \/ docs[n].status = "Pending" /\ \A i \in 1 .. applied : ~DecidedAt(i, n)
    \/ \E i \in 1 .. applied : /\ DecidedAt(i, n)
                               /\ docs[n].status = Brings[ledger[i].tx]
                               /\ \A j \in 1 .. applied : DecidedAt(j, n) => j <= i

ProposalsShow == \A n \in DOMAIN docs : IsProposal(docs[n].type) => Shows(n)

\* A step that applies nothing leaves the status of a proposal alone; a new one
\* is pending, and no event is about it yet.
LEMMA NothingApplied ==
    ASSUME IInv, ProposalsShow, applied' = applied,
           \A i \in DOMAIN ledger : ledger'[i] = ledger[i],
           \A n \in DOMAIN docs' : IsProposal(docs'[n].type) =>
              \/ /\ n \in DOMAIN docs
                 /\ docs'[n].type = docs[n].type /\ docs'[n].status = docs[n].status
              \/ n \notin DOMAIN docs /\ docs'[n].status = "Pending"
    PROVE  ProposalsShow'
  <1> SUFFICES ASSUME NEW n \in DOMAIN docs', IsProposal(docs'[n].type)
               PROVE  Shows(n)'
    BY DEF ProposalsShow
  <1>1. \A i \in 1 .. applied : i \in DOMAIN ledger
    BY ElementsTyped DEF IInv, Typed
  <1>2. \A i \in 1 .. applied : ledger'[i] = ledger[i] /\ ledger[i].doc \in DOMAIN docs
    BY <1>1 DEF IInv, Refers
  <1>3. CASE n \in DOMAIN docs
    <2>1. docs'[n].status = docs[n].status /\ Shows(n)
      BY <1>3 DEF ProposalsShow
    <2> QED BY <1>2, <2>1 DEF Shows, DecidedAt
  <1>4. CASE n \notin DOMAIN docs
    BY <1>2, <1>4 DEF Shows, DecidedAt
  <1> QED BY <1>3, <1>4

LEMMA SavedShows ==
    ASSUME IInv, ProposalsShow, NEW type, NEW a, docs' = Append(docs, Document(type, a)),
           applied' = applied, \A i \in DOMAIN ledger : ledger'[i] = ledger[i]
    PROVE  ProposalsShow'
  <1> DEFINE d == Document(type, a)
  <1>1. d.status = "Pending" /\ docs' = Append(docs, d)
    BY DEF Document
  <1>2. docs \in Seq(Doc)
    BY DEF IInv, Typed
  <1> HIDE DEF d
  <1>3. \A n \in DOMAIN docs' : \/ n \in DOMAIN docs /\ docs'[n] = docs[n]
                                \/ n \notin DOMAIN docs /\ docs'[n] = d
    BY <1>1, <1>2, AppendKeeps
  <1>4. \A n \in DOMAIN docs' :
          \/ /\ n \in DOMAIN docs
             /\ docs'[n].type = docs[n].type /\ docs'[n].status = docs[n].status
          \/ n \notin DOMAIN docs /\ docs'[n].status = "Pending"
    BY <1>1, <1>3
  <1> QED BY <1>4, NothingApplied

LEMMA ApplyShows ==
    ASSUME IInv, ProposalsShow, Apply
    PROVE  ProposalsShow'
  <1>1. PICK k, e : k = applied + 1 /\ e = ledger[k]
    OBVIOUS
  <1>2. /\ applied < Len(ledger) /\ applied' = k /\ ledger' = ledger
        /\ docs' = IF IsDecision(e.tx) THEN [docs EXCEPT ![e.doc].status = Brings[e.tx]] ELSE docs
    BY <1>1 DEF Apply, DecidedDoc
  <1>3. /\ docs \in Seq(Doc) /\ applied \in Nat
        /\ 1 .. applied' = 1 .. applied \cup {k}
    BY <1>1, <1>2 DEF IInv, Typed
  <1>4. /\ DOMAIN docs' = DOMAIN docs
        /\ \A m \in DOMAIN docs :
             /\ docs'[m].type = docs[m].type
             /\ docs'[m].status = IF m = e.doc /\ IsDecision(e.tx) THEN Brings[e.tx] ELSE docs[m].status
    <2>1. CASE IsDecision(e.tx)
      <3>1. PICK v : v = Brings[e.tx] /\ SetsStatus(e.doc, v)
        BY <1>2, <2>1 DEF SetsStatus
      <3>2. v \in DocStatus
        BY <2>1, <3>1 DEF IsDecision, Brings, DocStatus
      <3> QED BY <1>3, <2>1, <3>1, <3>2, StatusSet
    <2>2. CASE ~IsDecision(e.tx)
      BY <1>2, <2>2
    <2> QED BY <2>1, <2>2
  <1> SUFFICES ASSUME NEW n \in DOMAIN docs, IsProposal(docs[n].type)
               PROVE  Shows(n)'
    BY <1>4 DEF ProposalsShow
  <1>5. \A i : DecidedAt(i, n)' <=> DecidedAt(i, n)
    BY <1>2 DEF DecidedAt
  <1>6. DecidedAt(k, n) <=> n = e.doc /\ IsDecision(e.tx)
    BY <1>1 DEF DecidedAt
  <1>7. CASE n = e.doc /\ IsDecision(e.tx)
    <2>1. docs'[n].status = Brings[ledger'[k].tx] /\ DecidedAt(k, n)'
      <3>1. docs'[n].status = Brings[e.tx] /\ DecidedAt(k, n)
        BY <1>4, <1>6, <1>7
      <3>2. ledger'[k] = e
        BY <1>1, <1>2
      <3> QED BY <1>5, <3>1, <3>2
    <2>2. \A j \in 1 .. applied' : j <= k
      BY <1>1, <1>3
    <2>3. k \in 1 .. applied'
      BY <1>3
    <2> QED BY <2>1, <2>2, <2>3 DEF Shows
  <1>8. CASE ~(n = e.doc /\ IsDecision(e.tx))
    <2>1. Shows(n) /\ docs'[n].status = docs[n].status
      BY <1>4, <1>8 DEF ProposalsShow
    <2>2. ~DecidedAt(k, n)
      BY <1>6, <1>8
    <2>3. \A i : ledger'[i] = ledger[i]
      BY <1>2
    <2> QED BY <1>3, <1>5, <2>1, <2>2, <2>3 DEF Shows
  <1> QED BY <1>7, <1>8

LEMMA StepShows ==
    ASSUME IInv, ProposalsShow, [LNext]_lvars
    PROVE  ProposalsShow'
  <1>1. ASSUME UNCHANGED <<docs, applied, ledger>>
        PROVE  ProposalsShow'
    BY <1>1, NothingApplied
  <1>2. CASE UNCHANGED lvars
    BY <1>1, <1>2 DEF lvars
  <1>3. ASSUME NEW c \in Clients, Begin(c)
        PROVE  ProposalsShow'
    <2>1. CASE CreateProject(c)
      <3>1. docs' = Append(docs, Document("Inf", 0)) /\ applied' = applied
        BY <2>1 DEF CreateProject
      <3>2. \A i \in DOMAIN ledger : ledger'[i] = ledger[i]
        BY <2>1 DEF CreateProject
      <3> QED BY <3>1, <3>2, SavedShows
    <2>2. CASE \E type \in DocTypes, a \in 0 .. Len(acts) : BeginUpload(c, type, a)
      BY <1>1, <2>2 DEF BeginUpload
    <2>3. CASE \E n \in DOMAIN docs : BeginRejectReport(c, n) \/ \E d \in Decisions : BeginDecision(c, n, d)
      BY <1>1, <2>3 DEF BeginRejectReport, BeginDecision
    <2> QED BY <1>3, <2>1, <2>2, <2>3 DEF Begin
  <1>4. ASSUME NEW c \in Clients, SaveProposal(c) \/ SaveMonitoring(c) \/ SaveVerification(c)
        PROVE  ProposalsShow'
    <2>1. \E type, a : docs' = Append(docs, Document(type, a))
      BY <1>4 DEF SaveProposal, SaveMonitoring, SaveVerification
    <2>2. applied' = applied /\ ledger' = ledger
      BY <1>4 DEF SaveProposal, SaveMonitoring, SaveVerification
    <2> QED BY <2>1, <2>2, SavedShows
  <1>5. ASSUME NEW c \in Clients, RejectReport(c)
        PROVE  ProposalsShow'
    <2>1. PICK r : r = request[c]
      OBVIOUS
    <2>2. r.doc \in DOMAIN docs /\ docs[r.doc].type = r.type /\ IsReport(r.type)
      BY <1>5, <2>1 DEF RejectReport, IInv, Fits
    <2>3. docs' = [docs EXCEPT ![r.doc].status = RejectedStatus[r.type]] /\ UNCHANGED <<ledger, applied>>
      BY <1>5, <2>1 DEF RejectReport
    <2>4. DOMAIN docs' = DOMAIN docs /\ \A n \in DOMAIN docs : n # r.doc => docs'[n] = docs[n]
      BY <2>3
    <2>5. docs'[r.doc].type = docs[r.doc].type
      <3>1. docs[r.doc] \in Doc
        BY <2>2, ElementsTyped DEF IInv
      <3>2. docs'[r.doc] = [docs[r.doc] EXCEPT !.status = RejectedStatus[r.type]]
        BY <2>2, <2>3
      <3> QED BY <3>1, <3>2 DEF Doc
    <2>6. ~IsProposal(docs'[r.doc].type)
      BY <2>2, <2>5 DEF IsReport, IsProposal
    <2> QED BY <2>3, <2>4, <2>6, NothingApplied
  <1>6. ASSUME NEW c \in Clients, Insert(c)
        PROVE  ProposalsShow'
    <2>1. ledger \in Seq(Event)
      BY DEF IInv, Typed
    <2>2. \A i \in DOMAIN ledger : ledger'[i] = ledger[i]
      <3>1. ledger' = ledger \/ \E e : ledger' = Append(ledger, e)
        BY <1>6 DEF Insert
      <3> QED BY <2>1, <3>1, AppendKeeps
    <2>3. docs' = docs /\ applied' = applied
      BY <1>6 DEF Insert
    <2> QED BY <2>2, <2>3, NothingApplied
  <1>7. ASSUME NEW c \in Clients, ReadRow(c) \/ FailCall(c)
        PROVE  ProposalsShow'
    BY <1>1, <1>7 DEF ReadRow, FailCall
  <1> QED BY <1>2, <1>3, <1>4, <1>5, <1>6, <1>7, ApplyShows DEF LNext, Proceed

LEMMA BeginningShows == LInit => ProposalsShow
  <1> SUFFICES ASSUME LInit PROVE ProposalsShow
    OBVIOUS
  <1>1. PICK n \in 0 .. 7 : ledger = StartLedger(n) /\ docs = StartDocs(n) /\ applied = n
    BY LifecycleAssumption DEF LInit
  <1>2. /\ \A i \in 1 .. n : ledger[i].tx = Beginning[i].tx /\ ledger[i].doc = Begun(i)
        /\ \A k \in DOMAIN docs : docs[k].status = StartStatus(n, k)
    BY <1>1, StartedAs
  <1>3. \A i \in 1 .. n : Beginning[i].doc = Begun(i)
    BY BeginningIs
  <1> SUFFICES ASSUME NEW k \in DOMAIN docs PROVE Shows(k)
    BY DEF ProposalsShow
  <1> DEFINE decided == {i \in 1 .. n : Beginning[i].doc = k /\ IsDecision(Beginning[i].tx)}
             m == CHOOSE i \in decided : \A j \in decided : j <= i
  <1>4. \A i \in 1 .. n : DecidedAt(i, k) <=> i \in decided
    BY <1>2, <1>3 DEF DecidedAt
  <1>5. CASE decided = {}
    <2>1. docs[k].status = "Pending"
      BY <1>2, <1>5 DEF StartStatus
    <2> QED BY <1>1, <1>4, <1>5, <2>1 DEF Shows
  <1>6. CASE decided # {}
    <2>1. \E i \in decided : \A j \in decided : j <= i
      <3>1. decided \in SUBSET (1 .. 7)
        OBVIOUS
      <3> HIDE DEF decided
      <3> QED BY <1>6, <3>1, LargestOfSeven
    <2>2. m \in decided /\ \A j \in decided : j <= m
      BY <2>1
    <2>3. docs[k].status = Brings[Beginning[m].tx]
      BY <1>2, <1>6 DEF StartStatus
    <2>4. m \in 1 .. n
      BY <2>2
    <2> HIDE DEF m, decided
    <2> QED BY <1>1, <1>2, <1>4, <2>2, <2>3, <2>4 DEF Shows
  <1> QED BY <1>5, <1>6

\* Once the replicator has caught up, every notification, design document and
\* validation report shows the last decision the ledger has about it, whichever
\* uploads and decisions race, for every number of requests.
THEOREM DocumentsFollowLedger == LSpec => []ProposalsMatchLedger
  <1>1. IInv /\ ProposalsShow => ProposalsMatchLedger
    <2> SUFFICES ASSUME IInv, ProposalsShow, applied = Len(ledger), NEW n \in DOMAIN docs,
                        IsProposal(docs[n].type)
                 PROVE  LET decided == {i \in DOMAIN ledger : ledger[i].doc = n /\ IsDecision(ledger[i].tx)}
                        IN  /\ (decided = {}) = (docs[n].status = "Pending")
                            /\ decided # {} =>
                                 \E i \in decided : /\ \A j \in decided : j <= i
                                                    /\ docs[n].status = Brings[ledger[i].tx]
      BY DEF ProposalsMatchLedger, IsProposal
    <2>1. DOMAIN ledger = 1 .. applied
      BY ElementsTyped DEF IInv
    <2>2. \A tx \in DOMAIN Brings : Brings[tx] # "Pending"
      BY DEF Brings
    <2>3. Shows(n)
      BY DEF ProposalsShow
    <2> QED BY <2>1, <2>2, <2>3 DEF Shows, DecidedAt, IsDecision
  <1>2. IInv /\ ProposalsShow /\ [LNext]_lvars => ProposalsShow'
    BY StepShows
  <1> QED BY <1>1, <1>2, BeginningShows, Always, PTL DEF LSpec
=============================================================================
