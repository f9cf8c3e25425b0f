# Carbon registry: a TLA+ verification of its back end

This directory holds TLA+ specifications of the back end of the carbon registry
(`src/backend/services`), TLC configurations that check them on small instances,
and theorems about them checked by TLAPS.

Run a configuration with `tlc -config <X>.cfg <Module>.tla`, a proof with
`tlapm <Module>.tla`.

## The system

The registry records mitigation projects, issues credits for verified
reductions, and follows each credit through transfer, authorization as an ITMO
under a cooperative approach, and retirement or first transfer.

| Part | State it keeps | Operations | Talks to |
|---|---|---|---|
| Ledger database (`ledger-db`) | four append-only event tables (programme, company, project, credit block); the newest event of a key is the record | `getAndUpdateTx`: read, re-read for update, insert | called by the programme ledger |
| Programme ledger (`programme-ledger`) | none of its own | create project, change stage, issue, transfer, request and decide retirement and ITMO authorization | one `getAndUpdateTx` each |
| Credit blocks, serial numbers | none of their own | number new blocks, split a block | called inside the ledger's callback |
| Credit transactions | request rows in the operational database | checks of each request, rows derived from block events | programme ledger; called back by the replicator |
| Document management | documents, activities | upload and decide INF, PDD, validation, monitoring, verification | programme ledger; called back by the replicator |
| Ledger replicator | four cursors, copies of projects, blocks, company balances; two retry counters in memory | poll each table, apply new events, save the cursor, retry or give up | ledger tables, operational database, document management, credit transactions |
| Async operations | action table or queues, cursor of the lane | enqueue and run e-mails, CAD Trust and registry calls | e-mail, CAD Trust |
| CAD Trust sync (`cadtrust-sync`, `libs/cadtrust`) | a sync record per local record | create once, adopt, replace, commit, reconcile | CAD Trust node |
| Cooperative approach | approach rows, authorized entities | create, update, status transitions | initial report |
| Initial report | report row, links to approaches, filed versions | generate, update, link, unlink, submit, discard | cooperative approach |
| Corresponding adjustment | annual adjustment rows | preview, save, submit, approve, finalize a period | cooperative approach, ledger copies |
| AEF v2 (`libs/aef-v2`, `aef-v2-registry`) | submissions, review results | build, validate, submit, review | credit rows |
| Companies, users, authorization | company and user rows | life cycle of organisations, CASL checks | everything |
| Counter service | one row per counter | increment | ids of projects, documents, requests |
| Programme flow before Article 6 (`programme`), registry client, CADT v1 | transfer requests; programme rows and account balances in the ledger | request, approve, reject, cancel a transfer; retire; issue; freeze the credits of a suspended company | programme ledger, companies |
| Analytics, annual report, mail, files, locations, web, importer | read models and I/O | queries, formatting | out of scope |

### What is hard here

* A block is split at every partial operation; each split recomputes serial
  numbers, amounts, reservations and the ITMO range on two records.
* Several requests may be pending on one block, decided in any order.
* The services check the operational copy, which lags the ledger; the ledger
  checks again, not always the same thing.
* `getAndUpdateTx` reads, re-reads and inserts in three transactions.
* The replicator applies events at least once and takes `hash` order for commit order.
* A status (of an approach, an activity, a document) that was checked when
  something was requested may have changed when it is decided.
* Outside the ledger most requests read a row, check it, and later save it whole.
* A programme's transfer is taken in the operational database, paid in the ledger and
  settled in the operational database again, while the initiator, the approver, a
  suspension and a check nobody waits for change the same request.
* The CAD Trust sync has two loops in one process, a node that may answer late
  or never, and a commit that publishes whatever any loop has staged.

## What makes each part correct

| Part | Properties |
|---|---|
| Credit blocks, serial numbers | the blocks of a project cut 1 .. creditIssued into disjoint runs; an ITMO serial covers the same run as its block |
| Programme ledger, credit transactions | issuance stays within the estimate; balance, transferred and retired add up to what was issued; reservations are the pending requests; a pending request can be granted; retired is final and traceable to one completed request; an ITMO is retired for what it was authorized for |
| Ledger database | concurrent operations on one row behave as if one came after the other |
| Ledger replicator | every event arrives, once, in the order the ledger reads them; a failing event or a restart costs nothing else |
| Document management | the stage follows the review procedure; the authority decides on what the certifier approved; an activity is issued for once; documents end with the last decision of the ledger |
| Initial report, cooperative approach | a submitted report shows a version that was filed; versions are in order; what was filed stays filed |
| Corresponding adjustment | nothing is filed before its time; a filed year is never recomputed; open years share one average; requests that lock rows in different orders end |
| Programme flow before Article 6 | each owner's share adds up; accounts hold what was paid; a refused request is never paid; a suspended company's credits are frozen |
| CAD Trust sync | nothing fails without a trace; a record is created once; a row follows what it refers to; what is staged is committed |

## Modules

| Module | Models | State |
|---|---|---|
| `CreditBlocks` | entities and the pure operations on one block: numbering, splitting, settling, retiring, authorizing | none |
| `CreditLedger` (extends it) | every credit operation as one atomic step, with the checks of service and ledger: the abstract specification of the credit side | `blocks`, `project`, `companyCredit`, `activity`, `report`, `requests`, `caStatus` |
| `LedgerTransactions` (extends `CreditLedger`) | the same operations taken apart as `getAndUpdateTx` runs them, for any number of clients | the above, and `activities`, `current`, `txn`, `lastId`, `begun` |
| `Replication` | the path from the event tables to the operational database | see below |
| `ProjectStages` | the review procedure of a project, abstractly | `stage`, `progress` |
| `ProjectLifecycle` (implements it) | documents, activities and stages, from the initial notification to the issuance, on the ledger and its lagging copy | `ledger`, `docs`, `acts`, `applied`, `request`, `uploadsLeft` |
| `InitialReport` | the initial report of one period, the approaches it covers and their authorized entities | `report`, `lastReport`, `links`, `approach`, `minted`, `entity`, `versions`, `target`, `request` |
| `CorrespondingAdjustment` | the annual adjustments of one period, their row locks, and the first transfers they count | `method`, `now`, `requested`, `transferred`, `rows`, `lock`, `request` |
| `CadTrustSync` | the two loops that bring one project's credits to CAD Trust, and the node | `queue`, `cursor`, `block`, `record`, `rows`, `committed`, `confirmed`, `loop`, `faults`, `exposed` |
| `ProgrammeTransfers` | transfers, retirements and issuances of one programme of the flow before Article 6, with the ledger operations taken apart | `programme`, `accounts`, `paid`, `named`, `transfers`, `suspended`, `txn`, `sweeps` |
| `MC...` | values of the constants for TLC | |
| `CreditLedgerProofs`, `LedgerTransactionsProofs`, `ReplicationProofs`, `ProjectLifecycleProofs`, `InitialReportProofs`, `CorrespondingAdjustmentProofs`, `ProgrammeTransfersProofs`, `CadTrustSyncProofs` | lemmas, inductive invariants and theorems | |

How they fit together: `CreditLedger` takes the project as authorised and its
reports as they come, which `ProjectLifecycle` shows how they come about; an
issuance there is only the event that `CreditLedger` gives amounts and serial
numbers. `Replication` carries events of any kind, and `ProjectLifecycle` again
has its own replicator because the lag matters to the next decision. The status
of an approach in `CreditLedger` is the one `InitialReport` writes, and the
retirements `CorrespondingAdjustment` counts are the first transfers of
`CreditLedger`. `CadTrustSync` starts where `ProjectLifecycle` and `CreditLedger`
enqueue an action. `ProgrammeTransfers` stands beside them: its flow has rows of its
own and shares only `getAndUpdateTx` with the rest.

### CreditBlocks and CreditLedger

A block table maps the first serial number of a block to the block: the ledger
keys a block by `<serial prefix>-<first serial>`, and a split keeps the low end
under the old key. One project is modelled, because an operation on a block
touches only that block's project. A request is known by its position in
`requests`, which stands for the rows of `credit_transactions`; the records of
a block (`transactionRecords`) name it by that number.

| Action | Code |
|---|---|
| `VerifyMonitoring`, `UploadVerification`, `RejectVerification`, `IssueCredits` | monitoring and verification in `document-management`, `issueCredits` |
| `TransferWhole`, `TransferPart` | `transferCredits`, `transferCreditAmountFromBlocks` |
| `AddRetireRequest`, `AddItmoAuthRequest` | `createRetireRequest`, `createItmoAuthRequest` and the ledger's `addRetireRequest`, `addItmoAuthRequest` |
| `AcceptRetireWhole`, `AcceptRetirePart`, `AcceptItmoWhole`, `AcceptItmoPart`, `Decline` | `retirementRequestAction`, `itmoAuthRequestAction` |
| `MarkSubmitted`, `UpdateApproach` | the status machine of `cooperative-approach` |

A decision is made on a request by its id alone, as in the code: the retirement
endpoint also accepts authorization requests.

### LedgerTransactions

A client begins an operation when the checks of its service pass, reads the
rows one statement after the other (`ReadRow`), computes the changes or refuses
(`Plan`, `Refuse`), reads the rows to update again and lays its fields over
them (`MergeRow`), and inserts all results in one transaction (`Commit`). The
project updates of issuance and of approvals name the txTime of the row they
saw; `fresh` says whether it still holds, and when it does not the update is
dropped and the rest goes ahead. `Direct` are the writes that go to the
operational database without the ledger. The operational database is taken to
be up to date: that it is not is the subject of `Replication` and
`ProjectLifecycle`.

With one client, every commit is a step of `CreditLedger` and everything else
stutters; the run `one_client` checks `Spec` of that module as a property, and
`ActsAtomically` proves it. No
mapping is needed because the variables of `CreditLedger` are extended, not
replaced. With two clients it fails in the ways described under the runs.

### Replication

`writer` holds the ledger transactions in progress, `log` the committed events
of each table under their hash, `cursor` and `replica` the operational
database, `created` how often a block event created its row of
`credit_transactions`; `section`, `phase`, `batch`, `applied` and `retry` are
the local state of `replicateActions`, lost at a `Restart`. A section polls
once, applies its batch row by row, saves the cursor after each row, and may
throw at any point if it is in `FaultySections`; then the next section follows,
because the statement `replicateActions;` in the handler calls nothing.
Company balances are applied whatever their txTime; the other tables refuse
older events.

### ProjectStages and ProjectLifecycle

`ledger` is the sequence of events of the project's row; each is a whole row, so
the last one is the record. `docs` and `acts` are the document and activity tables
of the operational database, and `applied` counts the events the replicator has
brought there. `request` is what a client is in the middle of, with what it read.

| Action | Code |
|---|---|
| `CreateProject` | the upload of an initial notification |
| `BeginUpload`, `SaveProposal`, `SaveMonitoring`, `SaveVerification` | `addDocument` and its branches: the checks, then the writes |
| `BeginDecision` | `performINFAction`, `performPDDAction`, `performValidationAction`, `performMonitoringAction`, `performVerificationAction` up to the ledger call |
| `BeginRejectReport`, `RejectReport` | the rejection of a monitoring or verification report, which only writes the operational database |
| `ReadRow`, `Insert`, `FailCall` | `updateProjectProposalStage` and `issueCredits` with `getAndUpdateTx`: the row that is read, the row that is inserted if the one read is still there, and any failure between |
| `Apply` | the replicator: `modifyDocumentEntity` in the transaction that writes the project |

An upload checks the stage, saves the document and only then moves the stage; a
decision checks the document's status, which the replicator sets, and writes the
ledger only. The ledger call reports success when the row has changed and nothing
was inserted. `ProjectStages` is what should come of all this, and
`StagesFollowProcedure` says that it does, with the stage and the activities of the
newest row as the mapping.

### InitialReport

The report is one row, edited in place; a submission freezes it as a version. Every
request but the submission is two steps, what it reads (`Begin...`) and what it
saves (`End...`, whole rows); `File` is the transaction of `submitReport` with
`markSubmitted` and `flipDraftEntitiesToSubmitted`, which locks the links.
`GenerateDraft`, `BeginUpdate`, `BeginDiscard`, `BeginLink`, `BeginUnlink` and
`BeginSubmit` are the operations on the report, `BeginApproachUpdate`,
`BeginAddEntity` and `BeginRemoveEntity` those on the approaches. The fields are
abstracted to `general` (editable) and `trajectory` (fixed by the first filing).

### CorrespondingAdjustment

`BeginSave`, `UpsertYear`, `LockNext` and `CommitSave` are the transaction of
`saveCA`: the row of the year is locked and computed, under averaging the earlier
rows are locked in ascending order, and all are written. `BeginFinalize` locks the
drafts of the period in ascending order (`LockNext`), `CommitFinalize` submits them.
`BeginSubmit`, `BeginApprove` and `BeginUpdate` read a row outside of any
transaction and `SaveRow` saves it whole. `Refused` is the database breaking a cycle
of waiting transactions, `Fail` any other error. A figure is a pair, the transfers
counted and the years they are averaged over; `DecideRetirement` may come years
after `RequestRetirement`, and counts for the year of the request.

### CadTrustSync

Each loop (`lane`, `timer`) has a list of tasks; the first is at one of the stages
`find` (reads of the database and the node decide what to do), `stage` (the request
to the node), `mark` (its result is noted), or `succeeded`/`failed` while a commit
is under way. `Ensure`, `CreateUnit` and `UpdateUnit` are `ensureVerification`,
`ensureIssuance`, `ensureCreditIssuance` and `ensureUnitUpdate`; `SweepSnapshots`,
`SweepUnits` and `Heal` are the reconciliation; `SkipCommit`, `CommitRows` and
`MarkAll` the commit handler. `rows` are the rows on the node in the order they were
staged, of which the first `committed` are published and the first `confirmed`
settled; while they differ the node refuses a commit. `exposed` is a history
variable: the records for which one of the named causes of a duplicate happened.

### ProgrammeTransfers

`programme` is the newest row of an authorized programme, `accounts` the company
table, `transfers` the requests. The code keeps one balance and each owner's
percentage of it, rounded to six digits; the model keeps the credits a percentage
stands for, so it says nothing about rounding. `paid` counts the rows a payment has
written for a request, `named` holds what a search of the history for `#<requestId>#`
finds: the numbers between two `#` in a txRef, which are not only those of requests.

| Action | Code |
|---|---|
| `TransferRequest`, `RetireProgramme` | `transferRequest`, `retireProgramme`: the request is stored and, if it needs no approval, paid at once |
| `TransferCancel`, `TransferReject` | one conditional update each |
| `Approve`, then `TurnDown`, `TakeUp`, `NotPending` or `Resume` | `transferApprove`: what it reads, and what it does with it |
| `Suspend`, `CancelRequests`, `Activate` | `suspend`, `activate` with `freezeCompany` and `companyTransferCancel` |
| `IssueUnits`, `AfterIssue` | `issueProgrammeCredit` and the freezing of what suspended companies receive |
| `ReadHistory`, `ReadProgramme`, `ReadAccounts`, `Refuse`, `Merge`, `Commit` | `transferProgramme`, `issueProgrammeStatus`, `freezeCompany`, `freezeIssuedCredit` inside `getAndUpdateTx` |
| `Settle` | the end of `doTransfer` |
| `Sweep`, `SweepCancel` | `checkPendingTransferValidity`, which is not awaited |
| `Fail` | an error or the end of the process at any statement of a request |

`overlapped` and `issueOverlapped` are history variables: a request began while
another was running, and one of the two was an issuance. The code has nothing that
keeps requests apart, so a property with one of them as its condition says how far
the code holds up, and the next section of what happens beyond.

## Runs

| Run | Module, cfg | Shows |
|---|---|---|
| ledger | `MCCreditLedger`, `Ledger` | two developers, three credits, reports of one and two vintages, two requests: every order of issuance, transfer, authorization, retirement |
| one_client | `MCLedgerTransactions`, `OneClient` | the separate reads and writes implement the atomic operations |
| two_clients | `MCLedgerTransactions`, `TwoClients` | what survives races: amount and range stay together, no serial passes the estimate, none is lost (`SerialsKept`) |
| one_writer | `MCReplication`, `OneWriter` | the replica follows the log through failures and a restart; a failing section neither ends the replicator nor holds up the other tables |
| lifecycle | `MCProjectLifecycle`, `Lifecycle` | two requests at a time and a replicator that lags: the ledger follows the review procedure, no activity is issued for twice, and documents end with the ledger's last decision |
| report_alone | `MCInitialReport`, `ReportAlone` | requests one after the other, two approaches: what was filed stays filed, versions are in order |
| report_raced | `MCInitialReport`, `ReportRaced` | two requests at a time that save what they read: a submitted report still shows a filed version, a filed link one that lists it |
| adjustments | `MCCorrespondingAdjustment`, `Adjustments` | calculations, finalizations and single saves at a time, both methods: filed figures stay, averages are uniform, every request ends |
| cadtrust | `MCCadTrustSync`, `Sync` | both loops, one failing call, lost answer or restart: nothing is forgotten, created twice or out of order, and every row is committed |
| transfers | `MCProgrammeTransfers`, `Transfers` | two requests at a time on one programme, any of which may fail: its row survives every race but that of an issuance; accounts and frozen credits are right as long as requests do not overlap; what was refused is never paid |

Properties of a single request at a time (`report_alone`) are kept apart from those
of races, because several of them fail under races; these are listed below.

The violation runs, each with one property that a document or comment of the
repository states:

| Run | Property | What happens |
|---|---|---|
| racing_splits | `DistinctSerials` | two transfers split one block from the same row: two blocks share serials |
| stale_unit | `UnitShowsBlock` | a change of a block whose unit is staged, or failed with its row on the node, is never staged |

### Other disagreements met

These are stated as definitions in the modules where a name is given, fail there as
they do in the code, and are not run.

Credits:

* `RevokedBacksNoFirstTransfer` (`CreditLedger`): the approach is revoked between
  request and approval of a first transfer.
* `RetiredInAccount` (`CreditLedger`): the retirement endpoint accepts an
  authorization request, and the credits lose their owner and stay in the holding
  account.
* `IssuedOnce`, `RetiredForGood` (`LedgerTransactions`): one report approved twice at
  once drops the second project update and inserts its blocks over those that have
  moved since; a decision that read the row before a retirement committed writes the
  old owner back.
* If a report is rejected and a different one approved while an approval of the
  first is inside `issueCredits`, the totals are those of one report and the blocks
  those of the other, and `NoSerialLost` fails; in `two_clients` all reports are
  alike (`SameReport`), which excludes exactly this.
* The verification is queued for CAD Trust before `issueCredits` is called and stays
  queued when it is refused.

Replication:

* `NothingPassedOver` (`Replication`): of two transactions the one with the lower hash
  commits last, below the cursor, and is never replicated.
* With two writers the ledger's latest event of a row may carry the older txTime,
  taken before the insert: the replica refuses it, and `ReplicaFollowsLog` fails.
  `one_writer` has a single writer for both reasons.

Documents:

* A rejection is written at once and an approval when it is replicated, so an
  approval under way when a report is rejected overwrites the rejection later.
* A monitoring report uploaded twice at once opens two activities, or returns to
  one whose approval is under way; the activity can then no longer be approved.
  Rejecting a second verification report of an activity that has been issued for
  sets the activity back to rejected and blocks the next one.
* A PDD or validation report whose stage update fails stays as a pending document
  that can be decided on only if the stage fits. A stage update that was dropped is
  reported, mailed and logged as a success.

Initial report (why `report_raced` checks less than `report_alone`):

* `NeverBackToDraft` (`InitialReport`): an edit of an approach's title that races its
  submission writes `Draft` back, against the comment on the transitions.
* `FiledWithReference` (`InitialReport`): the version an approach is first filed in
  lists it without its reference number, although a comment in `submitReport` speaks
  against filing one so. What is listed is the row read before `markSubmitted` mints the
  number.
* Two submissions of one read give versions 1.0, 2.0 and 1.1, after which every
  submission is refused because the number is taken; a discard that races the first
  submission deletes a filed report; an update that races it changes the trajectory
  after it is locked; an unlinking or an entity's removal that races it deletes what
  was filed.
* The comment on `addAuthorizedEntity` says that no path flips entities added by an
  amendment; `flipDraftEntitiesToSubmitted` does.

Corresponding adjustment:

* `finalizePeriod` is "Averaging only" by its comment, and "Trajectory finalizes per
  year" by another (`corresponding-adjustment.service.ts:193`). It does not look at
  the method: under Trajectory its gate is that of the year it is called with, and it
  files the drafts of all years of the period, those that are not over included.
* `update` saves the whole row as it read it: racing a submission it writes `Draft`
  back. Of two averaging calculations, the earlier year's, committed later, leaves
  averages over different years.
* Under Trajectory, a retirement requested in a year and approved after that year's
  figure was filed is missing from it.

Programme flow before Article 6:

* The second read of an issuance and of the freezing after it does not name the txTime
  of the first: a payment that commits in between is overwritten (`ProgrammeAddsUp`
  holds only without `issueOverlapped`).
* A payment whose programme row has changed since it was read leaves the row alone and
  writes the accounts, and the request is settled as paid: `AccountsAddUp` holds only
  without `overlapped`. The balances of two payments at once are absolute values, and
  the later one takes the earlier one back. `transferApprove` has a comment to that
  effect ("TODO: Handle transaction, can happen").
* A request in PROCESSING is paid by every approval: two at once both find no row of
  it in the history and can pay it twice.
* The search of the history matches any number between two `#`: the number of a
  company or user, or a RetireType. A request with that number is refused as "already
  processed" though it never was, and stays in PROCESSING.
* A request that fails after its payment stays in PROCESSING; approving it again is
  refused by the history, and nothing ever settles it.
* The check of pending requests cancels by id, without a condition on the status: it
  overwrites an approval in progress, or a rejection.
* A suspension between an issuance and the freezing after it freezes the new credits
  twice; one that loses a race for the programme's row freezes nothing and reports
  success, beyond what the TODO in `suspend` allows for ("if transactions failed").

CAD Trust:

* A record is created twice when the answer to its creation is lost and the
  reconciliation commits the row before it looks for it (adoption skips committed
  rows), when the process restarts between the creation and the note of it, when
  the staged rows cannot be listed, when both loops work on the record, or when its
  block is split before its creation is committed. These are `exposed`;
  `CreatedOnce` says that there are no others.
* A commit marks as committed (or failed) also what the other loop has staged since.
  `attemptCount` is never reset and records at the maximum are left out, so failing
  commits can take a record out of the sweeps that was never refused itself.

## Bounds

* Credits: `CreditEst` bounds the credits, `MaxRequests` the requests. Three credits
  and two requests allow a block to be split with a reservation left on the parent
  and another request to split the rest. `VintageTotals` are the reports: two
  vintages suffice for numbering to carry over from one to the next.
* `MaxOperations` bounds the ledger operations started. Six let both clients
  race on a split after two issuances of two vintages each (`CreditEst` 6), or
  let a second issuance follow a lost update of the project row.
* `MaxWrites` and `MaxCrashes` bound the ledger transactions and restarts of
  `Replication`. Two writes of one row tell the latest event from an older one
  and one restart falls anywhere between them. `RetryLimit` is 10 in the code
  and 2 in `one_writer`: the counter that matters is reset every round after at
  most one failure, and a longer count only repeats the round.
* `Starts` and `MaxUploads` of `ProjectLifecycle`: a project starts before it
  exists, with its PDD approved, or authorised, and three more documents are
  saved. A longer review only concatenates such stretches, since each transition
  looks at the newest row; three documents let a rejected one be replaced while the
  decision on the first is under way, or an activity reach its issuance and the next
  one open.
* `MaxReports` and `MaxVersions` of `InitialReport`: two reports so that a number can
  be discarded and another generated, three versions so that a major one can come
  between minor ones; two approaches alone, one when requests race. `Asked` are the
  statuses an edit of an approach asks for.
* `Length` and `MaxRequested` of `CorrespondingAdjustment`: with two years a
  calculation and a finalization lock two rows in opposite orders; one retirement
  makes a figure differ from zero in one of them.
* `MaxVersion`, `MaxAttempts` and `MaxFaults` of `CadTrustSync`: a block is created and
  split once in `cadtrust`, changed twice in `stale_unit`; two attempts let a record
  be given up; one fault, anywhere, is a call that fails, an answer that is lost or a
  restart. The verification and the issuance the unit rests on can fail as it does.
* `MaxTransfers`, `MaxBegun` and `MaxFailures` of `ProgrammeTransfers`: two stored
  requests and three that are begun let a payment fail before it is settled and be
  approved again, two payments race for one balance, or a payment, a suspension and an
  issuance follow each other; one failure, at any statement. `Amounts` is one unit's
  share of an owner, so that the first unit pays one request and the second another.
  There are no `Buyers`: an owner that receives credits does not get a larger share in
  the programme, so that it stands for a buyer. `MCCompanyId` and `MCAlsoNamed` let
  the number of the second request be found in the txRef of the first.

## Fairness

* `Replication`: `WF(ReplicateActions)`, since the event loop resumes the function
  after every `await` and `setTimeout` starts the next round. It includes the
  failing step, so a faulty section may fail for ever; `EveryEventArrives` speaks of
  the tables whose section does not.
* `ProjectLifecycle`: `WF(Apply)`, as the replicator polls for as long as the system
  runs. No property uses it: its properties hold however late the replicator is.
* `CorrespondingAdjustment`: `SF(Proceed(c))` for each request. A request that waits
  for a row lock is enabled whenever the lock is free; PostgreSQL queues the
  transactions that wait for a row and hands it to them in turn, which is what
  strong fairness says, and its deadlock detector aborts a transaction of a cycle
  (`Refused`), without which `EveryRequestEnds` fails.
* `CadTrustSync`: `WF(Lane \/ Timer)`: the process goes on with some loop that can go
  on; each reschedules itself with `setTimeout`, also after an error. It is assumed
  of the two together because they share one event loop. `WF(Confirm)`: the network
  settles a commit at some time. Faults are not fair, and bounded.

Writers, clients, restarts and requests are never fair: nobody has to begin anything.

## Proofs

All for every value of the constants, from the assumptions named in the modules that
declare them. The constants need only be of their types; further, `CompanyAssumption`
(`NoCompany` is no developer), `LedgerAssumption` (the running totals of a report
increase), `ReportAssumption` (finitely many clients), `ClientAssumption` (`None` is no
client), `ProgrammeAssumption` (no more is authorized than estimated),
`ReplicationAssumption` (a section may fail once before the replicator gives up; the
code's `retryLimit` is 10), `SyncAssumption` (finitely many blocks, whose records are
not those of verification and issuance: the table keys a record by entity type and id). Seven theorems have a hypothesis of their own, named
below; without it the property fails, in the ways listed under the runs.

| Module | Theorem | States |
|---|---|---|
| `CreditLedgerProofs` | `TypeCorrect` | `TypeOK` |
| | `SerialsPartition` | `SerialsPartitionIssued` |
| | `EstimateHolds` | `IssuedWithinEstimate` |
| | `BalanceHolds` | `BalanceConserved` |
| | `ReservationsAddUp` | `ReservedIsPending` |
| | `RetirementFinal` | `RetiredIsFinal`, an action property |
| | `OnFile` | `RequestsOnFile`: the records of the blocks and the requests agree |
| | `PendingSettleable` | `PendingCanBeSettled` |
| | `PurposeKept` | `RetiredForItsPurpose` |
| | `RetirementsTraced` | `RetirementTraceable` |
| | `ItmoSerialsMatch` | `ItmoSerialMatches` |
| `LedgerTransactionsProofs` | `WidthKept` | `AmountIsWidth`, any number of clients |
| | `SerialsStay` | `SerialsKept`, any number of clients, if `OneReport` |
| | `ActsAtomically` | `Spec` of `CreditLedger`, if `OneClient` |
| `ReplicationProofs` | `TypeCorrect` | `TypeOK` |
| | `RowsCounted` | `RowsRepeatedOnlyByRestart`, if `"block" \notin FaultySections` |
| | `GivesUpInOutage` | `EndsOnlyInOutage` |
| | `ReplicaIsFaithful` | `ReplicaFollowsLog`, if `OneWriter` |
| | `NoEventPassedOver` | `NothingPassedOver`, an action property, if `OneWriter` |
| `ProjectLifecycleProofs` | `LifecycleTypeCorrect` | `LTypeOK` |
| | `OnlyCertifiedApproved` | `CertifiedBeforeApproved` |
| | `IssuedOncePerActivity` | `OneIssuancePerActivity` |
| | `FollowsProcedure` | `StagesFollowProcedure`, the refinement of `ProjectStages` |
| | `DocumentsFollowLedger` | `ProposalsMatchLedger` |
| `InitialReportProofs` | `ReportTypeCorrect` | `IRTypeOK` |
| | `SubmittedMatches` | `SubmittedMatchesItsVersion` |
| | `FiledLinkListed` | `FiledLinkIsInAVersion` |
| | `VersionsNumbered` | `VersionsAreInOrder`, if `OneClient` |
| | `FiledForGood` | `FiledStays`, if `OneClient` |
| `CorrespondingAdjustmentProofs` | `NothingFiledEarly` | `FiledAfterThePeriod` |
| | `FiledIsFinal` | `FiledNotRecalculated`, an action property |
| | `AdjustmentTypeCorrect` | `ATypeOK` |
| | `AveragesAgree` | `OneAverage`, an action property |
| `ProgrammeTransfersProofs` | `TransfersTypeCorrect` | `PTypeOK` |
| | `RefusedStays` | `RefusalStands`, an action property |
| | `EachShareAddsUp` | `ProgrammeAddsUp` |
| | `SuspendedSpendNothing` | `SuspendedHeldBack` |
| | `AccountsMatch` | `AccountsAddUp` |
| `CadTrustSyncProofs` | `SyncTypeCorrect` | `STypeOK`, the order of the rows included |
| | `EveryActionLeavesATrace` | `NothingForgotten` |
| | `RecordsCreatedOnce` | `CreatedOnce` |

`IssuedWithinEstimate`, `RetiredIsFinal` and `NothingPassedOver` are in no run: the
theorems say more than a bounded check would.

### Credits

The inductive invariant `IInv` is the conjunction of

* `RowsTyped`: the rows beside the block table have their types;
* `SoundTable(blocks, project.issued)`: the table is a partition, each block has
  its type, its reservation is the running total of its pending records, and a
  retired block has none pending;
* `ReportOnFile`: an uploaded report fits what is left of the estimate. Without
  it the issuance step is not inductive, because the ledger's own check is void
  before the first issuance;
* `IssuedWithinEstimate` and `BalanceConserved`.

`CreditLedgerProofs` shows first, for any table, what each shape of step does to
`SoundTable`: replacing a block, replacing it by two halves, and adding the
blocks of an issuance. Reservations are stated with a witness for the running
total, not with a recursive sum, so that they can be proved about. Each action
is one of these shapes. `RetiredIsFinal` follows
from the invariant: an operation on a block needs an owner or a pending record,
and a retired block has neither.

What the records of a block and the rows of `requests` say of each other is a second
invariant, `RequestsOnFile`, inductive together with `IInv`:

* every record names a request on file, no two pending records the same one, and a
  pending request is among the records of the block it names;
* a pending record awaits its decision (`Awaits`): same amount, same block, the
  sender still owns it, and the use it asks for is still `Permitted` by the block. A
  block with a reservation is neither transferred nor authorized whole, except by the
  one request that covers it (`CoversAlone`), which is why the check made at the
  request still holds at the decision;
* an authorized block names its request and its ITMO serial ends where it ends
  (`Authorized`); a retired one is named by the completed request that covers it, with
  the account of its subtype (`Closed`).

`InPlaceOnFile` and `SplitOnFile` show what a step that rewrites one block, or splits
it, has to show for all blocks to stay consistent; every operation is one of the two.

### Interleaved ledger operations

`InOrder` types what a client holds by the statement it is at: `Reading` and `Merging`
tie the rows it has to the rows still to be read or merged, `BlockOK` says of every
version of a block - read, computed, committed - that its amount is the width of its
range. `WidthKept` follows, for any number of clients: no operation names one of the
two fields without the other in its update, and what it computes comes from one row.

`SerialsStay` has the hypothesis `OneReport`: all reports on file have the same
vintages. Then issuances start at multiples of the report's total, however stale the
project row they were computed from, and cut the serial numbers at fixed boundaries
no block ever straddles. `Version(table, s, e)` says that a block from `s` to `e` may
be written: what lies above `e` is held by blocks that start above `e`. No step undoes
it (`Evolves`), so that writing a stale block can overlap others but leaves no gap.
With two different reports it fails, as described under the runs.

`ActsAtomically` has the hypothesis `OneClient`. `Alone` says that what the client
holds is up to date: the service's checks still hold (`Granted`), every row read is
what the table holds, every row merged is the merge into what the table holds. At a
commit the fields an operation names are all that it changed (`MergedIsContent`), so
the merged row is the row `CreditLedger` writes, and one lemma per kind of operation
shows the step. The mapping is the identity on the variables of `CreditLedger`. `IInv`
is used for the types and for the position of a new request.

### Replication

`Typed` is the inductive invariant of all that is said; `batch` is the set of hashes
read and not finished, of which the least is next (`LeastHash`).

* `Unrepeated`: an event above the cursor has created rows in earlier lives of the
  process only, at most one in each, unless it is the row in hand. It needs a block
  section that does not throw between the row and the cursor.
* `Resets`: a section that works resets the counter it shares, so the counter never
  exceeds the failures the other two can bring since (`MostFailures`, by position in
  the round).
* `InStep`: the single writer's open transaction holds the latest hash and time, so
  events commit in the order of their hashes, above every cursor, and no event's txTime
  is older than that of a row the replica has.

### Lifecycle

Requests hold what they read, and the operational database lags: neither is what
the ledger says now. `IInv` says what remains true of it.

* `Fits(request[c])`: the document of a request exists and has the type the
  transaction is about (types and activities of documents never change), a decision
  of the authority has an approval of the certifier in the ledger (the ledger only
  grows), and a request about to insert read a row that allows its transaction;
* `CertifiedDocs`: a PDD that shows the certifier's approval has it in the ledger:
  the status comes from an event, and no other step sets it;
* `Accounted`: the activities of the newest row are those the events before
  approved, and an issuance is accounted for there. From this an insertion, which is
  only made on the row that was read, cannot issue a second time;
* `Authorised`: no row with activities is in a stage before authorization, which
  `IssueForActivity` of the abstract procedure asks for.

`InsertedRow` states once what an insertion adds; the step lemma and the refinement
both rest on it. The refinement maps an insertion to `Advance`, `AdmitActivity` or
`IssueForActivity`, and every step that leaves the ledger alone to a stutter.

`ProposalsShow` speaks of the applied events instead of all: a proposal shows the last
applied decision about it, or is pending and none has been applied. It is inductive for
any lag, because only `Apply` sets the status of a proposal, an event about a document
that does not exist yet cannot be in the ledger, and the events are applied in order.
When all are applied it is `ProposalsMatchLedger`.

### Initial report

`IInv` is the types, `RowsMatch` and `FiledLinkIsInAVersion`. `RowsMatch` says of the
report's row and of the copy in every request that, if it says it is submitted, it
shows a filed version. The copies have to be included because they are saved whole
later; versions only grow, so a copy keeps matching.

`VersionsNumbered` and `FiledForGood` have the hypothesis `OneClient`, any two clients
are the same. Neither property is inductive: what a request is about to save could take
back what was filed while it was under way. `AloneInv` adds that this is not so
(`RequestsCurrent`: what a request read of the row, link, approach or entity it will
write still holds there), that the report names the last version, which lists exactly
the links that have a number (`LastVersion`), that nothing is listed without one
(`ListedWithNumber`), and that a report that is not there is empty (`NoReportIsEmpty`).

### Corresponding adjustment

`Gated`: under averaging, whoever will file something saw the period over; time does
not go back. `Locked`: a calculation that has passed its own year holds that row, the
year is still open, and it holds or still waits for each earlier row; so what it
writes was open when it locked it. For these two nothing is needed of the figures but
their place in the row (`Shape`).

The figures are sums over years, folds of the community modules. `Total` states a sum as the size of
a set with as many members for a year as are counted for it, so that it splits at any
year (`TotalSplits`) and grows with its parts (`TotalGrows`); `FoldIsTotal` shows that
the fold is that sum: there is no smallest set on which they differ, since a strict
subset order on finite sets is well founded. `Figures` then bounds what rows and requests
carry by the retirements counted, which never exceed `MaxRequested` in all, and gives
`ATypeOK`. `Averaged`: what a calculation holds for its year covers that many years and
was right when it was computed, and transfers only grow; the rows it recomputes at the
commit are over the same years and no less, which is `OneAverage`.

### Programme flow

`TInv` types what a client holds by the step it is at; that no owner gets less than
nothing needs that `Merge` only goes on with a row whose credits were counted, and
that what is written is computed from that same row. `RInv`: nobody pays a request
that is pending or refused, or is about to; whoever pays has first taken it out of
those statuses by one conditional update, or found it taken (`Resume`). `Sound`:
without `issueOverlapped`, the newest row adds up, whoever says the row it read is
still the newest is right, what is about to be written adds up, and an issuance is
alone. A payment that loses the race writes no row, an issuance has no race to lose.

`SuspendedHeldBack` speaks of the states in which no request runs; `FInv` says what
holds at each step of one that does (`Progress`). Before a payment or an issuance the
suspended owners' credits are frozen and nobody else's (`HeldBack`); before a freezing
they are but for the company it is for; after an issuance, `IssuedFree`: what is still
free is what the freezing that follows is told to take. This is where the property
needs requests not to overlap and not to fail: a request in the middle leaves a state
only its own next step repairs.

`AccountsAddUp` allows failures. `AInv` keeps, as long as no two requests overlap, that
the accounts balance (`Balanced`, with `Total` for the sum, as for the corresponding
adjustments), that whatever was paid is in a txRef of the history, and that nothing is
settled unpaid. `Informed`: what the one request that runs has read is still so, hence
the request it is about to pay is in no txRef and so was not paid, also when it was
resumed after a failure. The fields of the programme and the accounts are both computed
from the rows read (`PaymentBalances`, `ShareBalances`).

### CAD Trust

What a loop found out before it calls the node may be out of date when the answer
comes: the other loop, the node or a restart may have changed the record. `IInv` says
what stays true whatever they do:

* `Working`: what the row in hand refers to is on the node, since no row is ever taken
  off it; an id a loop has is that of a row of its record;
* `NoneYet`: a loop about to create a row finds none there and is alone with the
  record, unless the record is `exposed` by one of the named causes; `Known`: a row is the one its record names,
  or a loop is about to note it. Together they make `CreatedOnce` inductive: after a
  creation the record has a row that its next step finds, and a lost answer or a
  restart before that is what exposes it;
* `LaneShape`: the tasks of the lane are what is left of those of the action after its
  cursor, and by the time only the commit and the save are left, the record of the
  action has seen it (`SeenIn`). This is `NothingForgotten` before the cursor moves; a
  restart empties the lane and leaves the cursor;
* `TimerShape`: the sweeps never take tasks only the lane has.

`RecordsGoOn` is what every step does to a record: one that has been seen stays seen,
and the id it gets is that of a row of it. `NextTask` shows once, for either loop, what
it is left with when a task is done; `Calm` what goes on through a step that stages
nothing.

### Only model-checked

Liveness (`EveryEventArrives`, `EveryRequestEnds` and those of `CadTrustSync`), which the
prover does not reach.

## What could follow

* Models: failing statements inside a section of the replicator and the swallowed
  error of a company update; the mail lane of the async operations, whose handlers
  may throw; the first use of a counter.

## Not modelled

* Roles: static tables of permissions. Leaving them out only adds behaviours.
* The text of serial numbers, references, mails and documents.
* Project management: queries. It writes nothing.
* AEF v2: renders rows of the parts above into yearly tables.
* Of the programme flow before Article 6: creating, certifying, rejecting and
  authorizing a programme, its documents, investments and changes of ownership, NDC
  actions, the registry client and CAD Trust v1; and the rounding of percentages.
* Of companies and users: everything but suspending and activating a developer.
* CAD Trust records of project, stakeholders, methodology, location, validation and
  label: created once in the same form as the issuance. The bootstrap, the project
  pass of the sweep and the first sync of a block that was split off are left out
  too; a read of the node while a commit propagates is taken to find committed rows.
* QLDB and Kinesis variants of ledger and replicator: only the PostgreSQL ones.
* Analytics, reports, files, locations, imports and the web front end, which is most
  of the repository by lines: queries, forms and I/O without a protocol of their own.
